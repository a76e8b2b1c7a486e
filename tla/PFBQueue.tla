------------------------------ MODULE PFBQueue ------------------------------
(***************************************************************************)
(* The ring buffer behind every queue of the firmware: PFBQueue<T> of      *)
(* common/utils/data_structures.hh, each call taken as one step.  That is  *)
(* what a queue used by one task sees, and what is_thread_safe buys for    *)
(* the others; PFBQueueShared takes the calls apart.                       *)
(*                                                                         *)
(* head_ = tail_ is ambiguous, so is_full_ tells a full buffer from an     *)
(* empty one.  The indices are uint16_t: arithmetic on them is modulo      *)
(* IndexModulus (2^16 in the code).                                        *)
(***************************************************************************)
EXTENDS Integers, Sequences

CONSTANTS
    Elements,              \* T
    NoElement,             \* content of a slot never written, or no result
    BufLen,                \* buf_len_num_elements
    OverwriteWhenFull,     \* overwrite_when_full
    IndexModulus           \* number of values of a uint16_t

\* The largest queues of the firmware hold 4000 characters; IncrementIndex needs
\* head_ + Length() not to wrap, which half the range of the index gives.
ASSUME BufLenAssumption ==
    /\ BufLen \in Nat \ {0}
    /\ IndexModulus \in Nat
    /\ 2 * BufLen <= IndexModulus
ASSUME OverwriteAssumption == OverwriteWhenFull \in BOOLEAN
ASSUME NoElementAssumption == NoElement \notin Elements

VARIABLES
    buffer,        \* config_.buffer
    head_,
    tail_,
    is_full_,
    called,        \* the last call and its argument
    ret            \* what it returned

vars == <<buffer, head_, tail_, is_full_, called, ret>>

Slots == 0 .. BufLen - 1
Counts == 0 .. IndexModulus - 1

Return(ok, e) == [ok |-> ok, element |-> e]

-----------------------------------------------------------------------------

IncrementIndex(index, increment) ==
    LET sum == (index + increment) % IndexModulus
    IN  IF sum >= BufLen THEN sum - BufLen ELSE sum

LengthUnlocked ==
    IF is_full_ THEN BufLen
    ELSE IF head_ > tail_ THEN BufLen - (head_ - tail_)
    ELSE tail_ - head_

Init ==
    /\ buffer = [s \in Slots |-> NoElement]
    /\ head_ = 0
    /\ tail_ = 0
    /\ is_full_ = FALSE
    /\ called = <<"PFBQueue", BufLen>>
    /\ ret = Return(TRUE, NoElement)

Refuse ==
    /\ ret' = Return(FALSE, NoElement)
    /\ UNCHANGED <<buffer, head_, tail_, is_full_>>

Store(e) ==
    /\ head_' = IF is_full_ THEN IncrementIndex(head_, 1) ELSE head_
    /\ buffer' = [buffer EXCEPT ![tail_] = e]
    /\ tail_' = IncrementIndex(tail_, 1)
    /\ is_full_' = (is_full_ \/ tail_' = head_')
    /\ ret' = Return(TRUE, NoElement)

Enqueue(e) ==
    /\ called' = <<"Enqueue", e>>
    /\ \/ is_full_ /\ ~OverwriteWhenFull /\ Refuse
       \/ (~is_full_ \/ OverwriteWhenFull) /\ Store(e)

Dequeue ==
    /\ called' = <<"Dequeue", NoElement>>
    /\ \/ head_ = tail_ /\ ~is_full_ /\ Refuse
       \/ /\ head_ # tail_ \/ is_full_
          /\ ret' = Return(TRUE, buffer[head_])
          /\ head_' = IncrementIndex(head_, 1)
          /\ is_full_' = FALSE
          /\ UNCHANGED <<buffer, tail_>>

Peek(index) ==
    /\ called' = <<"Peek", index>>
    /\ \/ index >= LengthUnlocked /\ Refuse
       \/ /\ index < LengthUnlocked
          /\ ret' = Return(TRUE, buffer[IncrementIndex(head_, index)])
          /\ UNCHANGED <<buffer, head_, tail_, is_full_>>

\* Mutant: is_full_ is cleared even when nothing is discarded.
DiscardClearsFlag(num_elements) ==
    /\ called' = <<"Discard", num_elements>>
    /\ \/ num_elements > LengthUnlocked /\ Refuse
       \/ /\ num_elements <= LengthUnlocked
          /\ head_' = IncrementIndex(head_, num_elements)
          /\ is_full_' = FALSE
          /\ ret' = Return(TRUE, NoElement)
          /\ UNCHANGED <<buffer, tail_>>

Discard(num_elements) ==
    /\ called' = <<"Discard", num_elements>>
    /\ \/ num_elements > LengthUnlocked /\ Refuse
       \/ /\ num_elements <= LengthUnlocked
          /\ head_' = IncrementIndex(head_, num_elements)
          /\ is_full_' = (is_full_ /\ num_elements = 0)
          /\ ret' = Return(TRUE, NoElement)
          /\ UNCHANGED <<buffer, tail_>>

Clear ==
    /\ called' = <<"Clear", NoElement>>
    /\ head_' = 0
    /\ tail_' = 0
    /\ is_full_' = FALSE
    /\ ret' = Return(TRUE, NoElement)
    /\ UNCHANGED buffer

Next ==
    \/ \E e \in Elements : Enqueue(e)
    \/ Dequeue
    \/ \E i \in Counts : Peek(i)
    \/ \E n \in Counts : Discard(n)
    \/ Clear

Spec == Init /\ [][Next]_vars

-----------------------------------------------------------------------------

\* The elements in the queue, oldest first.
Contents == [i \in 1 .. LengthUnlocked |-> buffer[IncrementIndex(head_, i - 1)]]

FIFO == INSTANCE BoundedFIFO WITH
    items <- Contents, Capacity <- BufLen, Overwrite <- OverwriteWhenFull

\* The fields of the queue keep their types: both indices address a slot, and
\* the flag is_full_ is only set where the indices meet.
TypeOK ==
    /\ buffer \in [Slots -> Elements \cup {NoElement}]
    /\ head_ \in Slots
    /\ tail_ \in Slots
    /\ is_full_ \in BOOLEAN
    /\ is_full_ => head_ = tail_
    /\ ret \in [ok : BOOLEAN, element : Elements \cup {NoElement}]

\* Every slot the queue counts as occupied was written by an Enqueue: no call
\* hands out malloc's bytes (lines 99-128 read the slot unconditionally).
OnlyWrittenSlots == \A i \in DOMAIN Contents : Contents[i] \in Elements

\* The ring buffer is a bounded FIFO queue: whatever the calls and wherever
\* the indices wrap, Enqueue, Dequeue, Peek, Discard and Clear return and leave
\* behind what they would on a plain sequence.
ImplementsFIFO == FIFO!Spec
=============================================================================
