--------------------------- MODULE PFBQueueShared ---------------------------
(***************************************************************************)
(* PFBQueue<T> as several users see it: Enqueue and Dequeue taken apart    *)
(* into the loads and stores between which another core, another task or   *)
(* an interrupt handler can run.  An element is copied with memcpy, so a   *)
(* slot has two halves that can come from two elements.                    *)
(*                                                                         *)
(* The firmware shares queues in two ways, either refusing or overwriting  *)
(* when full:                                                              *)
(*   - is_thread_safe, users on different cores (the ESP32's packet        *)
(*     queues, decoded_mode_s_packet_out_queue);                           *)
(*   - no mutex, the producer an interrupt handler that preempts the       *)
(*     consumer and runs to its end (raw_mode_s_packet_in_queue, filled    *)
(*     by ADSBee::OnDemodComplete).                                        *)
(***************************************************************************)
EXTENDS Integers, Sequences, FiniteSets

CONSTANTS
    Producers, Consumers,      \* the users of the queue
    Handler,                   \* the producer that can be an interrupt handler
    BufLen,
    Configs,                   \* the ways to share that are considered
    MaxElements,               \* bound: elements 1 .. MaxElements are offered
    Nobody                     \* the mutex is free

Users == Producers \cup Consumers
Elements == 1 .. MaxElements

ASSUME SharedAssumption ==
    /\ BufLen \in Nat \ {0} /\ MaxElements \in Nat
    /\ Configs \subseteq
          [is_thread_safe : BOOLEAN, overwrite_when_full : BOOLEAN, isr_enqueues : BOOLEAN]
    /\ Handler \in Producers
    /\ Producers \cap Consumers = {}
    /\ Nobody \notin Users

VARIABLES
    config_,     \* fixed when the queue is made
    buffer, head_, tail_, is_full_, mutex_,
    pc,          \* where each user is in its call, "idle" between calls
    element,     \* the two halves of the element the call carries
    slot,        \* the slot its memcpy addresses
    index,       \* the incremented index it is about to store
    offered,     \* number of elements offered to Enqueue so far
    accepted,    \* history: elements for which Enqueue returned true
    delivered    \* history: elements Dequeue returned, as pairs of halves

queue == <<config_, buffer, head_, tail_, is_full_, mutex_>>
locals == <<pc, element, slot, index>>
history == <<offered, accepted, delivered>>
vars == <<queue, locals, history>>

Slots == 0 .. BufLen - 1
Whole(e) == <<e, e>>

\* Head first: what a user that finds the queue at rest would take out of it.
LengthUnlocked ==
    IF is_full_ THEN BufLen
    ELSE IF head_ > tail_ THEN BufLen - (head_ - tail_)
    ELSE tail_ - head_
\* Mutant: the comparison lets the index reach the buffer's length.
IncrementIndexPastEnd(i) == IF i + 1 > BufLen THEN i + 1 - BufLen ELSE i + 1
IncrementIndex(i) == IF i + 1 >= BufLen THEN i + 1 - BufLen ELSE i + 1
Contents == [i \in 1 .. LengthUnlocked |-> buffer[(head_ + i - 1) % BufLen]]

Init ==
    /\ config_ \in Configs
    /\ buffer = [s \in Slots |-> Whole(0)]
    /\ head_ = 0 /\ tail_ = 0 /\ is_full_ = FALSE
    /\ mutex_ = Nobody
    /\ pc = [u \in Users |-> "idle"]
    /\ element = [u \in Users |-> Whole(0)]
    /\ slot = [u \in Users |-> 0]
    /\ index = [u \in Users |-> 0]
    /\ offered = 0
    /\ accepted = <<>>
    /\ delivered = <<>>

-----------------------------------------------------------------------------
(* Control: who may run, and where a call stands.                          *)

\* An interrupt handler that has started runs to its end: core 1 initialises
\* the interrupts and runs the decoder loop, so one preempts the other.
CanRun(u) == config_.isr_enqueues /\ u # Handler => pc[Handler] = "idle"

At(u, label) == pc[u] = label /\ CanRun(u)
Goto(u, label) == pc' = [pc EXCEPT ![u] = label]

\* Mutant: a queue that was not given its mutex.
LockNothing(u) == UNCHANGED mutex_

\* PFB_MUTEX_LOCK, where the queue has one; a call waits for it.
Lock(u) ==
    IF config_.is_thread_safe THEN mutex_ = Nobody /\ mutex_' = u ELSE UNCHANGED mutex_

Return(u) ==
    /\ Goto(u, "idle")
    /\ mutex_' = IF mutex_ = u THEN Nobody ELSE mutex_

Keep(u, i) == index' = [index EXCEPT ![u] = i]

-----------------------------------------------------------------------------
(* bool Enqueue(T element)                                                 *)

CallEnqueue(u) ==
    /\ At(u, "idle") /\ u \in Producers
    /\ config_.isr_enqueues => u = Handler
    /\ offered < MaxElements
    /\ Lock(u)
    /\ offered' = offered + 1
    /\ element' = [element EXCEPT ![u] = Whole(offered + 1)]
    /\ Goto(u, "enq_full?")
    /\ UNCHANGED <<config_, buffer, head_, tail_, is_full_, slot, index, accepted, delivered>>

\* Mutant: the early return forgets PFB_MUTEX_UNLOCK.
EnqueueRefusedLocked(u) ==
    /\ At(u, "enq_full?") /\ is_full_ /\ ~config_.overwrite_when_full
    /\ Goto(u, "idle")
    /\ UNCHANGED <<queue, element, slot, index, history>>

EnqueueRefused(u) ==
    /\ At(u, "enq_full?") /\ is_full_ /\ ~config_.overwrite_when_full
    /\ Return(u)
    /\ UNCHANGED <<config_, buffer, head_, tail_, is_full_, element, slot, index, history>>

EnqueueEvict(u) ==
    /\ At(u, "enq_full?") /\ is_full_ /\ config_.overwrite_when_full
    /\ Keep(u, IncrementIndex(head_))
    /\ Goto(u, "enq_evict")
    /\ UNCHANGED <<queue, element, slot, history>>

EnqueueEvicted(u) ==
    /\ At(u, "enq_evict")
    /\ head_' = index[u]
    /\ Goto(u, "enq_copy")
    /\ UNCHANGED <<config_, buffer, tail_, is_full_, mutex_, element, slot, index, history>>

EnqueueHasRoom(u) ==
    /\ At(u, "enq_full?") /\ ~is_full_
    /\ Goto(u, "enq_copy")
    /\ UNCHANGED <<queue, element, slot, index, history>>

EnqueueCopyFirst(u) ==
    /\ At(u, "enq_copy")
    /\ slot' = [slot EXCEPT ![u] = tail_]
    /\ buffer' = [buffer EXCEPT ![tail_][1] = element[u][1]]
    /\ Goto(u, "enq_copying")
    /\ UNCHANGED <<config_, head_, tail_, is_full_, mutex_, element, index, history>>

EnqueueCopySecond(u) ==
    /\ At(u, "enq_copying")
    /\ buffer' = [buffer EXCEPT ![slot[u]][2] = element[u][2]]
    /\ Goto(u, "enq_copied")
    /\ UNCHANGED <<config_, head_, tail_, is_full_, mutex_, element, slot, index, history>>

EnqueueLoadTail(u) ==
    /\ At(u, "enq_copied")
    /\ Keep(u, IncrementIndex(tail_))
    /\ Goto(u, "enq_advance")
    /\ UNCHANGED <<queue, element, slot, history>>

EnqueueStoreTail(u) ==
    /\ At(u, "enq_advance")
    /\ tail_' = index[u]
    /\ Goto(u, "enq_met?")
    /\ UNCHANGED <<config_, buffer, head_, is_full_, mutex_, element, slot, index, history>>

EnqueueIndicesMeet(u) ==
    /\ At(u, "enq_met?") /\ tail_ = head_
    /\ Goto(u, "enq_flag")
    /\ UNCHANGED <<queue, element, slot, index, history>>

EnqueueReturnTrue(u) ==
    /\ Return(u)
    /\ accepted' = Append(accepted, element[u][1])
    /\ UNCHANGED <<config_, buffer, head_, tail_, element, slot, index, offered, delivered>>

EnqueueSetFlag(u) ==
    /\ At(u, "enq_flag")
    /\ is_full_' = TRUE
    /\ EnqueueReturnTrue(u)

EnqueueNotFull(u) ==
    /\ At(u, "enq_met?") /\ tail_ # head_
    /\ EnqueueReturnTrue(u)
    /\ UNCHANGED is_full_

-----------------------------------------------------------------------------
(* bool Dequeue(T& element)                                                *)

CallDequeue(u) ==
    /\ At(u, "idle") /\ u \in Consumers
    /\ Lock(u)
    /\ Goto(u, "deq_met?")
    /\ UNCHANGED <<config_, buffer, head_, tail_, is_full_, element, slot, index, history>>

DequeueIndicesMeet(u) ==
    /\ At(u, "deq_met?") /\ head_ = tail_
    /\ Goto(u, "deq_full?")
    /\ UNCHANGED <<queue, element, slot, index, history>>

DequeueEmpty(u) ==
    /\ At(u, "deq_full?") /\ ~is_full_
    /\ Return(u)
    /\ UNCHANGED <<config_, buffer, head_, tail_, is_full_, element, slot, index, history>>

DequeueCopyFirst(u) ==
    /\ \/ At(u, "deq_met?") /\ head_ # tail_
       \/ At(u, "deq_full?") /\ is_full_
    /\ slot' = [slot EXCEPT ![u] = head_]
    /\ element' = [element EXCEPT ![u][1] = buffer[head_][1]]
    /\ Goto(u, "deq_copying")
    /\ UNCHANGED <<queue, index, history>>

DequeueCopySecond(u) ==
    /\ At(u, "deq_copying")
    /\ element' = [element EXCEPT ![u][2] = buffer[slot[u]][2]]
    /\ Goto(u, "deq_copied")
    /\ UNCHANGED <<queue, slot, index, history>>

DequeueLoadHead(u) ==
    /\ At(u, "deq_copied")
    /\ Keep(u, IncrementIndex(head_))
    /\ Goto(u, "deq_advance")
    /\ UNCHANGED <<queue, element, slot, history>>

DequeueStoreHead(u) ==
    /\ At(u, "deq_advance")
    /\ head_' = index[u]
    /\ Goto(u, "deq_flag")
    /\ UNCHANGED <<config_, buffer, tail_, is_full_, mutex_, element, slot, index, history>>

DequeueClearFlag(u) ==
    /\ At(u, "deq_flag")
    /\ is_full_' = FALSE
    /\ Return(u)
    /\ delivered' = Append(delivered, element[u])
    /\ UNCHANGED <<config_, buffer, head_, tail_, element, slot, index, offered, accepted>>

Enqueue(u) ==
    \/ CallEnqueue(u) \/ EnqueueRefused(u) \/ EnqueueHasRoom(u)
    \/ EnqueueEvict(u) \/ EnqueueEvicted(u)
    \/ EnqueueCopyFirst(u) \/ EnqueueCopySecond(u)
    \/ EnqueueLoadTail(u) \/ EnqueueStoreTail(u)
    \/ EnqueueIndicesMeet(u) \/ EnqueueSetFlag(u) \/ EnqueueNotFull(u)

Dequeue(u) ==
    \/ CallDequeue(u) \/ DequeueIndicesMeet(u) \/ DequeueEmpty(u)
    \/ DequeueCopyFirst(u) \/ DequeueCopySecond(u)
    \/ DequeueLoadHead(u) \/ DequeueStoreHead(u) \/ DequeueClearFlag(u)

Next == \E u \in Users : Enqueue(u) \/ Dequeue(u)

\* A user inside a call goes on, and the consumer polls (it is a main loop);
\* with a mutex each waiting user gets its turn (mutex_enter_blocking and
\* FreeRTOS mutexes do not pass over a waiter for ever).
Fairness ==
    /\ \A u \in Producers : WF_vars(Enqueue(u))
    /\ \A u \in Consumers : SF_vars(Dequeue(u))

Spec == Init /\ [][Next]_vars
FairSpec == Spec /\ Fairness

-----------------------------------------------------------------------------

AtRest == \A u \in Users : pc[u] = "idle"

\* The queue's fields and each call's locals keep their types.
TypeOK ==
    /\ buffer \in [Slots -> (0 .. MaxElements) \X (0 .. MaxElements)]
    /\ head_ \in Slots /\ tail_ \in Slots /\ is_full_ \in BOOLEAN
    /\ mutex_ \in Users \cup {Nobody}
    /\ slot \in [Users -> Slots] /\ index \in [Users -> Slots]
    /\ element \in [Users -> (0 .. MaxElements) \X (0 .. MaxElements)]
    /\ offered \in 0 .. MaxElements

\* What is handed out was put in: no half of an element is replaced while it is
\* copied out, and no slot is handed out before it was written (the torn read
\* test_pfb_queue_thread_safety.cc looks for).
NoTornElement ==
    \A i \in DOMAIN delivered : \E e \in Elements : delivered[i] = Whole(e)

\* Elements leave in the order they were offered, none of them twice.
InOrderAndOnce ==
    \A i, j \in DOMAIN delivered : i < j => delivered[i][1] < delivered[j][1]

\* Whenever no call is in progress, every accepted element has been handed out
\* or is still in the queue: is_full_ is never wrong about an accepted element.
NothingLost ==
    AtRest => [i \in DOMAIN accepted |-> Whole(accepted[i])] = delivered \o Contents

\* A queue with a mutex that refuses when full keeps what it accepts.
LockedKeepsAccepted ==
    config_.is_thread_safe /\ ~config_.overwrite_when_full => NothingLost

\* An overwriting queue gives up only its oldest elements: at rest it holds the
\* most recently accepted ones.
HoldsNewest ==
    config_.overwrite_when_full /\ AtRest =>
        \A i \in 1 .. LengthUnlocked :
            Contents[i] = Whole(accepted[Len(accepted) - LengthUnlocked + i])

\* In each way of sharing a queue, whoever runs in between: elements come out
\* whole, in order and once, and at rest no queue with a mutex has lost track of
\* what it accepted: a refusing one keeps everything, and an overwriting one the
\* newest.
DeliveredIntact == NoTornElement /\ InOrderAndOnce /\ LockedKeepsAccepted /\ HoldsNewest

\* Every accepted element is handed out: no user waits for ever for the mutex,
\* and none leaves it taken.
EventuallyDelivered ==
    \A e \in Elements :
        (/\ config_.is_thread_safe /\ ~config_.overwrite_when_full
         /\ \E i \in DOMAIN accepted : accepted[i] = e)
            ~> \E i \in DOMAIN delivered : delivered[i] = Whole(e)
=============================================================================
