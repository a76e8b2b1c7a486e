---------------------------- MODULE BoundedFIFO ----------------------------
(***************************************************************************)
(* What PFBQueue<T> (common/utils/data_structures.hh) promises its users:  *)
(* a first-in first-out queue of at most Capacity elements that, when      *)
(* full, either refuses a new element or gives up its oldest one.          *)
(* called is the last call and its argument, ret what it returned: its     *)
(* bool and, where the call fills in an element, that element.             *)
(***************************************************************************)
EXTENDS Integers, Sequences

CONSTANTS
    Elements,         \* values the queue may hold
    NoElement,        \* "nothing was returned"
    Capacity,         \* MaxNumElements()
    Overwrite,        \* a full queue drops its oldest element
    Counts            \* the unsigned arguments Discard and Peek may be given

VARIABLES items, called, ret

vars == <<items, called, ret>>

Return(ok, e) == [ok |-> ok, element |-> e]

Init ==
    /\ items = <<>>
    /\ called = <<"PFBQueue", Capacity>>
    /\ ret = Return(TRUE, NoElement)

Enqueue(e) ==
    /\ called' = <<"Enqueue", e>>
    /\ \/ /\ Len(items) < Capacity
          /\ items' = Append(items, e)
          /\ ret' = Return(TRUE, NoElement)
       \/ /\ Len(items) = Capacity /\ Overwrite
          /\ items' = Append(Tail(items), e)
          /\ ret' = Return(TRUE, NoElement)
       \/ /\ Len(items) = Capacity /\ ~Overwrite
          /\ ret' = Return(FALSE, NoElement)
          /\ UNCHANGED items

Dequeue ==
    /\ called' = <<"Dequeue", NoElement>>
    /\ \/ /\ items # <<>>
          /\ items' = Tail(items)
          /\ ret' = Return(TRUE, Head(items))
       \/ /\ items = <<>>
          /\ ret' = Return(FALSE, NoElement)
          /\ UNCHANGED items

Peek(i) ==
    /\ called' = <<"Peek", i>>
    /\ ret' = IF i < Len(items) THEN Return(TRUE, items[i + 1])
                                ELSE Return(FALSE, NoElement)
    /\ UNCHANGED items

\* All n elements go, or none does.
Discard(n) ==
    /\ called' = <<"Discard", n>>
    /\ \/ /\ n <= Len(items)
          /\ items' = SubSeq(items, n + 1, Len(items))
          /\ ret' = Return(TRUE, NoElement)
       \/ /\ n > Len(items)
          /\ ret' = Return(FALSE, NoElement)
          /\ UNCHANGED items

Clear ==
    /\ called' = <<"Clear", NoElement>>
    /\ items' = <<>>
    /\ ret' = Return(TRUE, NoElement)

Next ==
    \/ \E e \in Elements : Enqueue(e)
    \/ Dequeue
    \/ \E i \in Counts : Peek(i)
    \/ \E n \in Counts : Discard(n)
    \/ Clear

Spec == Init /\ [][Next]_vars
=============================================================================
