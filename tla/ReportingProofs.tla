--------------------------- MODULE ReportingProofs ---------------------------
(***************************************************************************)
(* What tasks share without or with a lock, for any number of users, slots *)
(* and sessions:                                                           *)
(*   - PFBQueueShared: a queue with a mutex, or one that a handler fills   *)
(*     and a single consumer empties, hands out whole elements, in order   *)
(*     and once, and keeps track of what it has accepted;                  *)
(*   - WebSocketPool: whatever its two tasks do to each other's slots, no  *)
(*     slot in use carries the descriptor of a session that is closed, and *)
(*     no session has two slots.                                           *)
(*                                                                         *)
(* And for any sizes of packets and arrays, and any number of aircraft:    *)
(*   - three iterations empty the reporting queues.  Each queue alone fits *)
(*     into an array, and an iteration takes the packets of one kind after *)
(*     those of the other; so the first iteration empties the first queue at*)
(*     least, the second one the second, and nothing comes in between;     *)
(*   - a round covers the dictionary because the snapshot names every      *)
(*     aircraft of it, and each protocol has reported on what it has passed.*)
(***************************************************************************)
EXTENDS MCReporting, FiniteSetTheorems, SequenceTheorems, TLAPS

\* The ways of sharing that keep elements intact: a mutex, or a single consumer
\* interrupted by the handler that fills a queue which refuses when full.
SafeSharing ==
    \A c \in Configs :
        \/ c.is_thread_safe
        \/ /\ c.isr_enqueues /\ ~c.overwrite_when_full
           /\ \A u, v \in Consumers : u = v

\* Where the labels stand in a call: an element that is not yet in the ring, one
\* that is, the copy into a slot, the way through Dequeue and its last store.
Filling == {"enq_full?", "enq_evict", "enq_copy", "enq_copying", "enq_copied", "enq_advance"}
Placed == {"enq_met?", "enq_flag"}
Copying == {"enq_copy", "enq_copying", "enq_copied", "enq_advance"}
Taking == {"deq_met?", "deq_full?", "deq_copying", "deq_copied", "deq_advance", "deq_flag"}

Handing == {"deq_flag"}

Enqueuing(labels) == \E u \in Producers : pc[u] \in labels
Dequeuing(labels) == \E u \in Consumers : pc[u] \in labels

\* Who may be in a call together: with a mutex nobody, without one only the
\* handler and the consumer it has interrupted.
Discipline ==
    /\ config_ \in Configs
    /\ pc \in [Users -> {"idle"} \cup Filling \cup Placed \cup Taking]
    /\ \A u \in Producers : pc[u] \notin Taking
    /\ \A u \in Consumers : pc[u] \in {"idle"} \cup Taking
    /\ config_.is_thread_safe => \A u \in Users : pc[u] # "idle" => mutex_ = u
    /\ ~config_.is_thread_safe => \A u \in Producers : pc[u] # "idle" => u = Handler

\* The accepted elements, and the one that is in the ring already.
Line == IF Enqueuing(Placed) THEN Append(accepted, offered) ELSE accepted

\* The elements that are in the line or were refused.
Given == IF Enqueuing(Filling) THEN offered - 1 ELSE offered

\* The slot that many steps ahead.
Ahead(s, n) == IF s + n >= BufLen THEN s + n - BufLen ELSE s + n

\* The ring holds the last L elements of the line.
Holds(L) ==
    /\ L <= Len(Line)
    /\ tail_ = Ahead(head_, L)
    /\ \A i \in 0 .. L - 1 : buffer[Ahead(head_, i)] = Whole(Line[Len(Line) - L + 1 + i])

Ordered(L) ==
    /\ \A i \in DOMAIN Line : Line[i] \in 1 .. Given
    /\ \A i, j \in DOMAIN Line : i < j => Line[i] < Line[j]
    /\ \A i \in DOMAIN delivered :
          /\ delivered[i][1] \in 1 .. Given /\ delivered[i] = Whole(delivered[i][1])
          /\ \A j \in DOMAIN delivered : i < j => delivered[i][1] < delivered[j][1]
          /\ \A j \in DOMAIN Line : j > Len(Line) - L => delivered[i][1] < Line[j]

\* With a mutex a queue that refuses has handed out what it does not hold.
Kept(L) ==
    config_.is_thread_safe /\ ~config_.overwrite_when_full =>
        /\ Len(Line) = Len(delivered) + L + (IF Dequeuing(Handing) THEN 1 ELSE 0)
        /\ \A i \in DOMAIN delivered : delivered[i] = Whole(Line[i])

\* is_full_ tells a full ring from an empty one, except where a call is about to
\* set it: EnqueueSetFlag, or DequeueClearFlag, before which the handler may
\* have filled the ring.
Flagged(L) ==
    /\ is_full_ => \/ L = BufLen
                   \/ Dequeuing(Handing)
                   \/ /\ Enqueuing(Copying)
                      /\ L = BufLen - 1 /\ config_.overwrite_when_full
    /\ is_full_ => config_.overwrite_when_full \/
                   ~Enqueuing(Copying)
    /\ L = BufLen => is_full_ \/ Enqueuing(Placed)
    /\ Dequeuing(Handing) /\ config_.is_thread_safe => L < BufLen

Producing(L) ==
    \A u \in Producers :
        /\ pc[u] \in Filling \cup Placed =>
              element[u] = Whole(offered) /\ offered # 0
        /\ pc[u] = "enq_evict" =>
              /\ is_full_ /\ config_.overwrite_when_full /\ L = BufLen
              /\ index[u] = IncrementIndex(head_)
        /\ pc[u] \in Copying => L < BufLen
        /\ pc[u] = "enq_copying" => slot[u] = tail_ /\ buffer[tail_][1] = offered
        /\ pc[u] \in {"enq_copied", "enq_advance"} => buffer[tail_] = Whole(offered)
        /\ pc[u] = "enq_advance" => index[u] = IncrementIndex(tail_)
        /\ pc[u] \in Placed => L # 0
        /\ pc[u] = "enq_flag" => L = BufLen

Consuming(L) ==
    \A u \in Consumers :
        /\ pc[u] \in {"deq_copying", "deq_copied", "deq_advance"} => L # 0
        /\ pc[u] = "deq_copying" => slot[u] = head_ /\ element[u][1] = buffer[head_][1]
        /\ pc[u] \in {"deq_copied", "deq_advance"} => element[u] = buffer[head_]
        /\ pc[u] = "deq_advance" => index[u] = IncrementIndex(head_)
        /\ pc[u] = "deq_flag" =>
              LET e == element[u][1]
              IN  /\ element[u] = Whole(e) /\ e \in 1 .. Given
                  /\ \A i \in DOMAIN delivered : delivered[i][1] < e
                  /\ \A j \in DOMAIN Line : j > Len(Line) - L => e < Line[j]
                  /\ config_.is_thread_safe /\ ~config_.overwrite_when_full =>
                        e = Line[Len(delivered) + 1]

Histories ==
    /\ accepted \in Seq(Nat) /\ delivered \in Seq(Nat \X Nat)

RingInv(L) == Holds(L) /\ Ordered(L) /\ Kept(L) /\ Flagged(L) /\ Producing(L) /\ Consuming(L)

QueueInv == TypeOK /\ Histories /\ Discipline /\ \E L \in 0 .. BufLen : RingInv(L)

-----------------------------------------------------------------------------
(* Slots, and halves of elements.                                          *)

\* Steps around the ring: none and a whole round end where they began.
LEMMA AheadIs ==
  ASSUME NEW s \in Slots, NEW n \in 0 .. BufLen
  PROVE  /\ Ahead(s, n) \in Slots /\ IncrementIndex(s) = Ahead(s, 1) /\ IncrementIndex(s) \in Slots
         /\ Ahead(s, 0) = s /\ Ahead(s, BufLen) = s
         /\ Ahead(s, n) = s => n \in {0, BufLen}
         /\ n < BufLen => /\ Ahead(Ahead(s, 1), n) = Ahead(s, n + 1)
                          /\ IncrementIndex(Ahead(s, n)) = Ahead(s, n + 1)
         /\ \A m \in 0 .. BufLen : Ahead(s, m) = Ahead(s, n) => m = n \/ {m, n} = {0, BufLen}
  BY SharedAssumption DEF Ahead, Slots, IncrementIndex

\* A step ahead of a slot, and two slots within one round.
LEMMA AheadNext ==
  ASSUME NEW s \in Slots, NEW n \in 0 .. BufLen, n < BufLen
  PROVE  IncrementIndex(Ahead(s, n)) = Ahead(s, n + 1)
  BY SharedAssumption DEF Ahead, Slots, IncrementIndex

LEMMA AheadDiffer ==
  ASSUME NEW s \in Slots, NEW n \in 0 .. BufLen, n < BufLen, NEW m \in 0 .. n - 1
  PROVE  Ahead(s, m) # Ahead(s, n) /\ Ahead(s, m) \in Slots
  BY SharedAssumption DEF Ahead, Slots

\* The indices stay within two rounds.
LEMMA Remainder ==
  ASSUME NEW x \in Nat, x < 2 * BufLen
  PROVE  x % BufLen = IF x >= BufLen THEN x - BufLen ELSE x
  BY SharedAssumption

\* memcpy replaces one half and leaves the other.
LEMMA Halves ==
  ASSUME NEW A, NEW t \in A \X A, NEW x \in A
  PROVE  /\ t = <<t[1], t[2]>> /\ t[1] \in A /\ t[2] \in A
         /\ [t EXCEPT ![1] = x] = <<x, t[2]>> /\ [t EXCEPT ![1] = x] \in A \X A
         /\ [t EXCEPT ![2] = x] = <<t[1], x>> /\ [t EXCEPT ![2] = x] \in A \X A
  OBVIOUS

-----------------------------------------------------------------------------
(* Who may be in a call together.                                          *)

\* Where a call of Enqueue goes on to, ...
LEMMA EnqueueGoesOn ==
  ASSUME Discipline, NEW u \in Users, Enqueue(u)
  PROVE  /\ u \in Producers /\ pc[u] \notin Taking
         /\ config_' = config_
         /\ \E l \in {"idle"} \cup Filling \cup Placed : Goto(u, l) /\ (l = "idle" => pc[u] # "idle")
  <1>1. u \in Producers
    BY DEF Enqueue, CallEnqueue, EnqueueRefused, EnqueueEvict, EnqueueEvicted, EnqueueHasRoom,
           EnqueueCopyFirst, EnqueueCopySecond, EnqueueLoadTail, EnqueueStoreTail, EnqueueIndicesMeet,
           EnqueueSetFlag, EnqueueNotFull, At, Users, Discipline, Taking
  <1>2. config_' = config_
    BY DEF Enqueue, CallEnqueue, EnqueueRefused, EnqueueEvict, EnqueueEvicted, EnqueueHasRoom,
           EnqueueCopyFirst, EnqueueCopySecond, EnqueueLoadTail, EnqueueStoreTail, EnqueueIndicesMeet,
           EnqueueSetFlag, EnqueueNotFull, EnqueueReturnTrue, queue
  <1>3. \E l \in {"idle"} \cup Filling \cup Placed : Goto(u, l) /\ (l = "idle" => pc[u] # "idle")
    BY DEF Enqueue, CallEnqueue, EnqueueRefused, EnqueueEvict, EnqueueEvicted, EnqueueHasRoom,
           EnqueueCopyFirst, EnqueueCopySecond, EnqueueLoadTail, EnqueueStoreTail, EnqueueIndicesMeet,
           EnqueueSetFlag, EnqueueNotFull, EnqueueReturnTrue, Return, At, Filling, Placed
  <1>4. QED
    BY <1>1, <1>2, <1>3 DEF Discipline

\* ... and where a call of Dequeue does.
LEMMA DequeueGoesOn ==
  ASSUME Discipline, NEW u \in Users, Dequeue(u)
  PROVE  /\ u \in Consumers
         /\ config_' = config_
         /\ \E l \in {"idle"} \cup Taking : Goto(u, l) /\ (l = "idle" => pc[u] # "idle")
  <1>1. u \in Consumers
    BY DEF Dequeue, CallDequeue, DequeueIndicesMeet, DequeueEmpty, DequeueCopyFirst, DequeueCopySecond,
           DequeueLoadHead, DequeueStoreHead, DequeueClearFlag, At, Users, Discipline, Taking
  <1>2. config_' = config_
    BY DEF Dequeue, CallDequeue, DequeueIndicesMeet, DequeueEmpty, DequeueCopyFirst, DequeueCopySecond,
           DequeueLoadHead, DequeueStoreHead, DequeueClearFlag, queue
  <1>3. \E l \in {"idle"} \cup Taking : Goto(u, l) /\ (l = "idle" => pc[u] # "idle")
    BY DEF Dequeue, CallDequeue, DequeueIndicesMeet, DequeueEmpty, DequeueCopyFirst, DequeueCopySecond,
           DequeueLoadHead, DequeueStoreHead, DequeueClearFlag, Return, At, Taking
  <1>4. QED
    BY <1>1, <1>2, <1>3

\* The mutex is taken when a call begins, and kept until it returns.
LEMMA MutexHeld ==
  ASSUME Discipline, NEW u \in Users, Enqueue(u) \/ Dequeue(u)
  PROVE  /\ pc[u] = "idle" => Lock(u)
         /\ pc[u] # "idle" /\ pc'[u] # "idle" => mutex_' = mutex_
  <1>1. CASE Enqueue(u)
    BY <1>1 DEF Enqueue, CallEnqueue, EnqueueRefused, EnqueueEvict, EnqueueEvicted, EnqueueHasRoom,
           EnqueueCopyFirst, EnqueueCopySecond, EnqueueLoadTail, EnqueueStoreTail, EnqueueIndicesMeet,
           EnqueueSetFlag, EnqueueNotFull, EnqueueReturnTrue, Return, At, Goto, queue, Discipline
  <1>2. CASE Dequeue(u)
    BY <1>2 DEF Dequeue, CallDequeue, DequeueIndicesMeet, DequeueEmpty, DequeueCopyFirst, DequeueCopySecond,
           DequeueLoadHead, DequeueStoreHead, DequeueClearFlag, Return, At, Goto, queue, Discipline
  <1>3. QED
    BY <1>1, <1>2

\* Who takes a step has interrupted at most the consumer, and only as the handler.
LEMMA OthersIdle ==
  ASSUME SafeSharing, Discipline, NEW u \in Users, Enqueue(u) \/ Dequeue(u)
  PROVE  /\ config_.is_thread_safe => \A v \in Users \ {u} : pc[v] = "idle"
         /\ Enqueue(u) => \A v \in Producers \ {u} : pc[v] = "idle"
         /\ Dequeue(u) => \A v \in Users \ {u} : pc[v] = "idle"
  <1>1. config_.is_thread_safe => \A v \in Users \ {u} : pc[v] = "idle"
    <2>1. CASE pc[u] = "idle"
      BY <2>1, MutexHeld, SharedAssumption DEF Lock, Discipline
    <2>2. CASE pc[u] # "idle"
      BY <2>2 DEF Discipline
    <2>3. QED
      BY <2>1, <2>2
  <1>2. ASSUME ~config_.is_thread_safe, Enqueue(u), NEW v \in Producers \ {u} PROVE pc[v] = "idle"
    <2>1. config_.isr_enqueues
      BY <1>2 DEF SafeSharing, Discipline
    <2>2. u = Handler
      <3>1. CASE pc[u] = "idle"
        BY <1>2, <2>1, <3>1 DEF Enqueue, CallEnqueue, EnqueueRefused, EnqueueEvict, EnqueueEvicted, EnqueueHasRoom,
           EnqueueCopyFirst, EnqueueCopySecond, EnqueueLoadTail, EnqueueStoreTail, EnqueueIndicesMeet,
           EnqueueSetFlag, EnqueueNotFull, At
      <3>2. CASE pc[u] # "idle"
        BY <1>2, <3>2, EnqueueGoesOn DEF Discipline
      <3>3. QED
        BY <3>1, <3>2
    <2>3. QED
      BY <1>2, <2>2 DEF Discipline
  <1>3. ASSUME ~config_.is_thread_safe, Dequeue(u), NEW v \in Users \ {u} PROVE pc[v] = "idle"
    <2>1. config_.isr_enqueues /\ \A w, x \in Consumers : w = x
      BY <1>3 DEF SafeSharing, Discipline
    <2>2. u \in Consumers /\ u # Handler
      BY <1>3, DequeueGoesOn, SharedAssumption
    <2>3. pc[Handler] = "idle"
      BY <1>3, <2>1, <2>2 DEF Dequeue, CallDequeue, DequeueIndicesMeet, DequeueEmpty, DequeueCopyFirst, DequeueCopySecond,
           DequeueLoadHead, DequeueStoreHead, DequeueClearFlag, At, CanRun
    <2>4. QED
      BY <1>3, <2>1, <2>2, <2>3 DEF Discipline, Users
  <1>4. QED
    BY <1>1, <1>2, <1>3 DEF Users

\* No step lets two calls get into each other's way.
LEMMA DisciplineKept ==
  ASSUME SafeSharing, Discipline, NEW u \in Users, Enqueue(u) \/ Dequeue(u)
  PROVE  Discipline'
  <1>1. PICK l \in {"idle"} \cup Filling \cup Placed \cup Taking :
          /\ Goto(u, l) /\ config_' = config_ /\ (l = "idle" => pc[u] # "idle")
          /\ Enqueue(u) => u \in Producers /\ l \notin Taking
          /\ Dequeue(u) => u \in Consumers /\ l \in {"idle"} \cup Taking
    <2>1. CASE Enqueue(u) /\ ~Dequeue(u)
      BY <2>1, EnqueueGoesOn DEF Filling, Placed, Taking
    <2>2. CASE Dequeue(u) /\ ~Enqueue(u)
      BY <2>2, DequeueGoesOn
    <2>3. CASE Enqueue(u) /\ Dequeue(u)
      BY <2>3, EnqueueGoesOn, DequeueGoesOn, SharedAssumption
    <2>4. QED
      BY <2>1, <2>2, <2>3
  <1>2. /\ pc' = [pc EXCEPT ![u] = l] /\ pc'[u] = l /\ \A v \in Users \ {u} : pc'[v] = pc[v]
        /\ pc' \in [Users -> {"idle"} \cup Filling \cup Placed \cup Taking]
    BY <1>1 DEF Goto, Discipline
  <1>3. \A v \in Producers : pc'[v] \notin Taking
    BY <1>1, <1>2, SharedAssumption DEF Discipline, Users
  <1>4. \A v \in Consumers : pc'[v] \in {"idle"} \cup Taking
    BY <1>1, <1>2, SharedAssumption DEF Discipline, Users
  <1>5. ASSUME config_.is_thread_safe, NEW v \in Users, pc'[v] # "idle" PROVE mutex_' = v
    <2>1. v = u
      BY <1>2, <1>5, OthersIdle
    <2>2. CASE pc[u] = "idle"
      BY <1>5, <2>1, <2>2, MutexHeld DEF Lock
    <2>3. CASE pc[u] # "idle"
      BY <1>5, <2>1, <2>3, MutexHeld DEF Discipline
    <2>4. QED
      BY <2>2, <2>3
  <1>6. ASSUME ~config_.is_thread_safe, NEW v \in Producers, pc'[v] # "idle" PROVE v = Handler
    <2>1. CASE v # u
      BY <1>2, <1>6, <2>1 DEF Discipline, Users
    <2>2. CASE v = u /\ pc[u] # "idle"
      BY <1>6, <2>2 DEF Discipline
    <2>3. CASE v = u /\ pc[u] = "idle"
      <3>1. Enqueue(u)
        BY <1>6, <2>3, DequeueGoesOn, SharedAssumption
      <3>2. config_.isr_enqueues
        BY <1>6 DEF SafeSharing, Discipline
      <3>3. QED
        BY <2>3, <3>1, <3>2 DEF Enqueue, CallEnqueue, EnqueueRefused, EnqueueEvict, EnqueueEvicted, EnqueueHasRoom,
           EnqueueCopyFirst, EnqueueCopySecond, EnqueueLoadTail, EnqueueStoreTail, EnqueueIndicesMeet,
           EnqueueSetFlag, EnqueueNotFull, At
    <2>4. QED
      BY <2>1, <2>2, <2>3
  <1>7. QED
    BY <1>1, <1>2, <1>3, <1>4, <1>5, <1>6 DEF Discipline

-----------------------------------------------------------------------------
(* Types, and what the labels say of the calls under way.                  *)

Data == 0 .. MaxElements

\* A copied half is data, and an incremented index a slot.
LEMMA TypesKept ==
  ASSUME TypeOK, Histories, NEW u \in Users, Enqueue(u) \/ Dequeue(u)
  PROVE  TypeOK' /\ Histories'
  <1>1. /\ buffer \in [Slots -> Data \X Data] /\ element \in [Users -> Data \X Data]
        /\ head_ \in Slots /\ tail_ \in Slots /\ slot \in [Users -> Slots] /\ index \in [Users -> Slots]
        /\ is_full_ \in BOOLEAN /\ mutex_ \in Users \cup {Nobody} /\ offered \in Data
        /\ accepted \in Seq(Nat) /\ delivered \in Seq(Nat \X Nat)
    BY DEF TypeOK, Histories, Data
  <1>2. IncrementIndex(head_) \in Slots /\ IncrementIndex(tail_) \in Slots
    BY <1>1, AheadIs, SharedAssumption
  <1>3. element[u] \in Data \X Data /\ buffer[tail_] \in Data \X Data /\ buffer[head_] \in Data \X Data
        /\ buffer[slot[u]] \in Data \X Data
    BY <1>1
  <1>4. \A t \in Data \X Data, x \in Data :
           /\ t[1] \in Data /\ t[2] \in Data
           /\ [t EXCEPT ![1] = x] \in Data \X Data /\ [t EXCEPT ![2] = x] \in Data \X Data
    BY Halves
  <1>5. offered < MaxElements => offered + 1 \in Data /\ Whole(offered + 1) \in Data \X Data
    <2>1. offered < MaxElements => offered + 1 \in Data
      BY <1>1, SharedAssumption DEF Data
    <2>2. QED
      BY <2>1 DEF Whole
  <1>6. element[u][1] \in Nat /\ element[u] \in Nat \X Nat
    BY <1>3, SharedAssumption DEF Data
  <1>7. (mutex_' \in Users \cup {Nobody}) /\ is_full_' \in BOOLEAN
    BY <1>1 DEF Enqueue, CallEnqueue, EnqueueRefused, EnqueueEvict, EnqueueEvicted, EnqueueHasRoom,
           EnqueueCopyFirst, EnqueueCopySecond, EnqueueLoadTail, EnqueueStoreTail, EnqueueIndicesMeet,
           EnqueueSetFlag, EnqueueNotFull, EnqueueReturnTrue, Return, queue, Lock,
           Dequeue, CallDequeue, DequeueIndicesMeet, DequeueEmpty, DequeueCopyFirst, DequeueCopySecond,
           DequeueLoadHead, DequeueStoreHead, DequeueClearFlag
  <1>8. head_' \in Slots /\ tail_' \in Slots /\ index' \in [Users -> Slots]
    BY <1>1, <1>2 DEF Enqueue, CallEnqueue, EnqueueRefused, EnqueueEvict, EnqueueEvicted, EnqueueHasRoom,
           EnqueueCopyFirst, EnqueueCopySecond, EnqueueLoadTail, EnqueueStoreTail, EnqueueIndicesMeet,
           EnqueueSetFlag, EnqueueNotFull, EnqueueReturnTrue, queue, Keep,
           Dequeue, CallDequeue, DequeueIndicesMeet, DequeueEmpty, DequeueCopyFirst, DequeueCopySecond,
           DequeueLoadHead, DequeueStoreHead, DequeueClearFlag
  <1>9. slot' \in [Users -> Slots]
    <2>1. slot' = slot \/ slot' = [slot EXCEPT ![u] = tail_] \/ slot' = [slot EXCEPT ![u] = head_]
      BY DEF Enqueue, CallEnqueue, EnqueueRefused, EnqueueEvict, EnqueueEvicted, EnqueueHasRoom,
             EnqueueCopyFirst, EnqueueCopySecond, EnqueueLoadTail, EnqueueStoreTail, EnqueueIndicesMeet,
             EnqueueSetFlag, EnqueueNotFull, EnqueueReturnTrue,
             Dequeue, CallDequeue, DequeueIndicesMeet, DequeueEmpty, DequeueCopyFirst, DequeueCopySecond,
             DequeueLoadHead, DequeueStoreHead, DequeueClearFlag, queue, history
    <2>2. QED
      BY <1>1, <2>1
  <1>10. offered' \in Data /\ accepted' \in Seq(Nat) /\ delivered' \in Seq(Nat \X Nat)
    <2>1. offered' = offered \/ (offered < MaxElements /\ offered' = offered + 1)
      BY DEF Enqueue, CallEnqueue, EnqueueRefused, EnqueueEvict, EnqueueEvicted, EnqueueHasRoom,
             EnqueueCopyFirst, EnqueueCopySecond, EnqueueLoadTail, EnqueueStoreTail, EnqueueIndicesMeet,
             EnqueueSetFlag, EnqueueNotFull, EnqueueReturnTrue,
             Dequeue, CallDequeue, DequeueIndicesMeet, DequeueEmpty, DequeueCopyFirst, DequeueCopySecond,
             DequeueLoadHead, DequeueStoreHead, DequeueClearFlag, queue, history
    <2>2. accepted' = accepted \/ accepted' = Append(accepted, element[u][1])
      BY DEF Enqueue, CallEnqueue, EnqueueRefused, EnqueueEvict, EnqueueEvicted, EnqueueHasRoom,
             EnqueueCopyFirst, EnqueueCopySecond, EnqueueLoadTail, EnqueueStoreTail, EnqueueIndicesMeet,
             EnqueueSetFlag, EnqueueNotFull, EnqueueReturnTrue,
             Dequeue, CallDequeue, DequeueIndicesMeet, DequeueEmpty, DequeueCopyFirst, DequeueCopySecond,
             DequeueLoadHead, DequeueStoreHead, DequeueClearFlag, queue, history
    <2>3. delivered' = delivered \/ delivered' = Append(delivered, element[u])
      BY DEF Enqueue, CallEnqueue, EnqueueRefused, EnqueueEvict, EnqueueEvicted, EnqueueHasRoom,
             EnqueueCopyFirst, EnqueueCopySecond, EnqueueLoadTail, EnqueueStoreTail, EnqueueIndicesMeet,
             EnqueueSetFlag, EnqueueNotFull, EnqueueReturnTrue,
             Dequeue, CallDequeue, DequeueIndicesMeet, DequeueEmpty, DequeueCopyFirst, DequeueCopySecond,
             DequeueLoadHead, DequeueStoreHead, DequeueClearFlag, queue, history
    <2>4. Append(accepted, element[u][1]) \in Seq(Nat)
      BY <1>1, <1>6, AppendProperties
    <2>5. Append(delivered, element[u]) \in Seq(Nat \X Nat)
      BY <1>1, <1>6, AppendProperties
    <2>6. QED
      BY <1>1, <1>5, <2>1, <2>2, <2>3, <2>4, <2>5
  <1>11. buffer' \in [Slots -> Data \X Data]
    <2>1. \/ buffer' = buffer
          \/ buffer' = [buffer EXCEPT ![tail_] = [buffer[tail_] EXCEPT ![1] = element[u][1]]]
          \/ buffer' = [buffer EXCEPT ![slot[u]] = [buffer[slot[u]] EXCEPT ![2] = element[u][2]]]
      BY DEF Enqueue, CallEnqueue, EnqueueRefused, EnqueueEvict, EnqueueEvicted, EnqueueHasRoom,
             EnqueueCopyFirst, EnqueueCopySecond, EnqueueLoadTail, EnqueueStoreTail, EnqueueIndicesMeet,
             EnqueueSetFlag, EnqueueNotFull, EnqueueReturnTrue,
             Dequeue, CallDequeue, DequeueIndicesMeet, DequeueEmpty, DequeueCopyFirst, DequeueCopySecond,
             DequeueLoadHead, DequeueStoreHead, DequeueClearFlag, queue, history
    <2>2. /\ [buffer[tail_] EXCEPT ![1] = element[u][1]] \in Data \X Data
          /\ [buffer[slot[u]] EXCEPT ![2] = element[u][2]] \in Data \X Data
      BY <1>3, <1>4
    <2>3. QED
      BY <1>1, <2>1, <2>2
  <1>12. element' \in [Users -> Data \X Data]
    <2>1. \/ element' = element
          \/ offered < MaxElements /\ element' = [element EXCEPT ![u] = Whole(offered + 1)]
          \/ element' = [element EXCEPT ![u] = [element[u] EXCEPT ![1] = buffer[head_][1]]]
          \/ element' = [element EXCEPT ![u] = [element[u] EXCEPT ![2] = buffer[slot[u]][2]]]
      BY DEF Enqueue, CallEnqueue, EnqueueRefused, EnqueueEvict, EnqueueEvicted, EnqueueHasRoom,
             EnqueueCopyFirst, EnqueueCopySecond, EnqueueLoadTail, EnqueueStoreTail, EnqueueIndicesMeet,
             EnqueueSetFlag, EnqueueNotFull, EnqueueReturnTrue,
             Dequeue, CallDequeue, DequeueIndicesMeet, DequeueEmpty, DequeueCopyFirst, DequeueCopySecond,
             DequeueLoadHead, DequeueStoreHead, DequeueClearFlag, queue, history
    <2>2. /\ [element[u] EXCEPT ![1] = buffer[head_][1]] \in Data \X Data
          /\ [element[u] EXCEPT ![2] = buffer[slot[u]][2]] \in Data \X Data
      BY <1>3, <1>4
    <2>3. QED
      BY <1>1, <1>5, <2>1, <2>2
  <1>13. QED
    BY <1>7, <1>8, <1>9, <1>10, <1>11, <1>12 DEF TypeOK, Histories, Data

\* While a producer takes a step no other one is in a call, and a consumer only
\* if the producer is the handler, which evicts nothing.
LEMMA ProducerLabels ==
  ASSUME SafeSharing, Discipline, NEW u \in Users, Enqueue(u), NEW l, Goto(u, l)
  PROVE  /\ u \in Producers /\ config_' = config_
         /\ Enqueuing(Filling) <=> pc[u] \in Filling
         /\ Enqueuing(Placed) <=> pc[u] \in Placed
         /\ Enqueuing(Copying) <=> pc[u] \in Copying
         /\ Enqueuing(Filling)' <=> l \in Filling
         /\ Enqueuing(Placed)' <=> l \in Placed
         /\ Enqueuing(Copying)' <=> l \in Copying
         /\ pc'[u] = l /\ \A v \in Producers \ {u} : pc'[v] = "idle"
         /\ \A v \in Consumers : pc'[v] = pc[v]
         /\ Dequeuing(Handing)' <=> Dequeuing(Handing)
         /\ config_.is_thread_safe \/ config_.overwrite_when_full => \A v \in Consumers : pc[v] = "idle"
  <1>1. u \in Producers /\ config_' = config_
    BY EnqueueGoesOn
  <1>2. \A v \in Producers \ {u} : pc[v] = "idle"
    BY OthersIdle
  <1>3. pc'[u] = l /\ \A v \in Users \ {u} : pc'[v] = pc[v]
    BY DEF Goto, Discipline
  <1>4. \A v \in Consumers : v # u /\ v \in Users \ {u}
    BY <1>1, SharedAssumption DEF Users
  <1>5. "idle" \notin Filling /\ "idle" \notin Placed /\ "idle" \notin Copying
    BY DEF Filling, Placed, Copying
  <1>6. \A v \in Producers \ {u} : pc'[v] = "idle"
    BY <1>2, <1>3 DEF Users
  <1>7. config_.is_thread_safe \/ config_.overwrite_when_full => \A v \in Consumers : pc[v] = "idle"
    <2>1. config_.overwrite_when_full => config_.is_thread_safe
      BY DEF SafeSharing, Discipline
    <2>2. QED
      BY <1>4, <2>1, OthersIdle
  <1>8. Dequeuing(Handing)' <=> Dequeuing(Handing)
    BY <1>3, <1>4 DEF Dequeuing
  <1>9. /\ Enqueuing(Filling) <=> pc[u] \in Filling
        /\ Enqueuing(Placed) <=> pc[u] \in Placed
        /\ Enqueuing(Copying) <=> pc[u] \in Copying
    BY <1>1, <1>2, <1>5 DEF Enqueuing
  <1>10. /\ Enqueuing(Filling)' <=> l \in Filling
         /\ Enqueuing(Placed)' <=> l \in Placed
         /\ Enqueuing(Copying)' <=> l \in Copying
    BY <1>1, <1>3, <1>5, <1>6 DEF Enqueuing
  <1>11. QED
    BY <1>1, <1>3, <1>4, <1>6, <1>7, <1>8, <1>9, <1>10

\* While a consumer takes a step nobody else is in a call.
LEMMA ConsumerLabels ==
  ASSUME SafeSharing, Discipline, NEW u \in Users, Dequeue(u), NEW l, Goto(u, l)
  PROVE  /\ u \in Consumers /\ config_' = config_
         /\ \A v \in Producers : pc[v] = "idle" /\ pc'[v] = "idle"
         /\ pc'[u] = l /\ \A v \in Consumers \ {u} : pc'[v] = "idle"
         /\ ~Enqueuing(Filling) /\ ~Enqueuing(Placed) /\ ~Enqueuing(Copying)
         /\ ~Enqueuing(Filling)' /\ ~Enqueuing(Placed)' /\ ~Enqueuing(Copying)'
         /\ Dequeuing(Handing) <=> pc[u] = "deq_flag"
         /\ Dequeuing(Handing)' <=> l = "deq_flag"
  <1>1. u \in Consumers /\ config_' = config_
    BY DequeueGoesOn
  <1>2. \A v \in Users \ {u} : pc[v] = "idle"
    BY OthersIdle
  <1>3. pc'[u] = l /\ \A v \in Users \ {u} : pc'[v] = pc[v]
    BY DEF Goto, Discipline
  <1>4. \A v \in Producers : v \in Users \ {u}
    BY <1>1, SharedAssumption DEF Users
  <1>5. \A v \in Consumers \ {u} : pc[v] = "idle" /\ pc'[v] = "idle"
    BY <1>2, <1>3 DEF Users
  <1>6. \A v \in Producers : pc[v] = "idle" /\ pc'[v] = "idle"
    BY <1>2, <1>3, <1>4
  <1>7. /\ ~Enqueuing(Filling) /\ ~Enqueuing(Placed) /\ ~Enqueuing(Copying)
        /\ ~Enqueuing(Filling)' /\ ~Enqueuing(Placed)' /\ ~Enqueuing(Copying)'
    BY <1>6 DEF Enqueuing, Filling, Placed, Copying
  <1>8. /\ Dequeuing(Handing) <=> pc[u] = "deq_flag"
        /\ Dequeuing(Handing)' <=> l = "deq_flag"
    BY <1>1, <1>3, <1>5 DEF Dequeuing, Handing
  <1>9. QED
    BY <1>1, <1>3, <1>5, <1>6, <1>7, <1>8

-----------------------------------------------------------------------------
(* What a step leaves alone.                                               *)

\* The line is a sequence of elements, whether or not a call is about to add one.
LEMMA LineTypes ==
  ASSUME TypeOK, Histories
  PROVE  Line \in Seq(Nat) /\ Len(Line) \in Nat /\ Given \in Int /\ DOMAIN Line = 1 .. Len(Line)
  <1>1. offered \in Nat
    BY SharedAssumption DEF TypeOK
  <1>2. Line \in Seq(Nat)
    BY <1>1, AppendProperties DEF Line, Histories
  <1>3. QED
    BY <1>1, <1>2 DEF Given

\* Neither the ring nor the line changes; what is given may.
LEMMA RingStays ==
  ASSUME TypeOK, Histories, NEW L \in 0 .. BufLen, Holds(L), Ordered(L),
         buffer' = buffer, head_' = head_, tail_' = tail_, delivered' = delivered,
         Line' = Line, Given' \in Int, Given' >= Given
  PROVE  Holds(L)' /\ Ordered(L)'
  <1>1. Given \in Int
    BY LineTypes
  <1>2. \A x : x \in 1 .. Given => x \in 1 .. Given'
    BY <1>1
  <1>3. Ordered(L)'
    BY <1>2 DEF Ordered, Whole
  <1>4. QED
    BY <1>3 DEF Holds, Ahead

\* The consumer a producer has interrupted finds the element it takes where it
\* was, and those that are new behind it.
LEMMA ConsumingStays ==
  ASSUME NEW L \in 0 .. BufLen, NEW M \in 0 .. BufLen, Consuming(L), TypeOK, Histories,
         \/ \A v \in Consumers : pc'[v] = "idle"
         \/ /\ L <= M /\ head_' = head_ /\ delivered' = delivered /\ config_' = config_
            /\ L # 0 => buffer'[head_] = buffer[head_]
            /\ \A v \in Consumers :
                  pc'[v] = pc[v] /\ element'[v] = element[v] /\ slot'[v] = slot[v] /\ index'[v] = index[v]
            /\ Given' \in Int /\ Given' >= Given
            /\ \A j \in DOMAIN Line' : j > Len(Line') - M =>
                  \/ j \in DOMAIN Line /\ j > Len(Line) - L /\ Line'[j] = Line[j]
                  \/ \A e \in 1 .. Given : e < Line'[j]
            /\ \A j \in DOMAIN Line : j \in DOMAIN Line' /\ Line'[j] = Line[j]
            /\ ~config_.is_thread_safe
  PROVE  Consuming(M)'
  <1>1. CASE \A v \in Consumers : pc'[v] = "idle"
    BY <1>1 DEF Consuming
  <1>2. CASE ~ \A v \in Consumers : pc'[v] = "idle"
    <2>1. \A x : x \in 1 .. Given => x \in 1 .. Given'
      BY <1>2, LineTypes
    <2>2. QED
      BY <1>2, <2>1 DEF Consuming, Whole, IncrementIndex
  <1>3. QED
    BY <1>1, <1>2

-----------------------------------------------------------------------------
(* The steps of Enqueue.                                                   *)

\* Those that only look, or only change what is the call's own.
EnqueueLooks(u) ==
    \/ CallEnqueue(u) \/ EnqueueRefused(u) \/ EnqueueHasRoom(u) \/ EnqueueEvict(u)
    \/ EnqueueLoadTail(u) \/ EnqueueIndicesMeet(u)

\* They leave the ring's elements alone, and what they find out is still true.
LEMMA EnqueueLooksKeeps ==
  ASSUME SafeSharing, TypeOK, Histories, Discipline, TypeOK',
         NEW u \in Users, NEW L \in 0 .. BufLen, RingInv(L), EnqueueLooks(u)
  PROVE  RingInv(L)'
  <1>1. Enqueue(u)
    BY DEF EnqueueLooks, Enqueue
  <1>2. /\ buffer' = buffer /\ head_' = head_ /\ tail_' = tail_ /\ is_full_' = is_full_
        /\ accepted' = accepted /\ delivered' = delivered /\ config_' = config_
    BY DEF EnqueueLooks, CallEnqueue, EnqueueRefused, EnqueueHasRoom, EnqueueEvict, EnqueueLoadTail,
           EnqueueIndicesMeet, queue, history
  <1>3. PICK l : /\ Goto(u, l)
                 /\ l \in Placed <=> pc[u] \in Placed
                 /\ l \in Copying => pc[u] \in Copying \/ ~is_full_
                 /\ pc[u] \in Placed => offered' = offered
                 /\ l \in Filling => (offered' = offered /\ pc[u] \in Filling) \/ (offered' = offered + 1 /\ pc[u] = "idle")
                 /\ l \notin Filling => offered' = offered
    BY DEF EnqueueLooks, CallEnqueue, EnqueueRefused, EnqueueHasRoom, EnqueueEvict, EnqueueLoadTail,
           EnqueueIndicesMeet, Return, At, Placed, Filling, Copying, history
  <1>4. offered \in Nat /\ offered' \in Nat
    BY SharedAssumption DEF TypeOK
  <1>5. Line' = Line
    BY <1>1, <1>2, <1>3, ProducerLabels DEF Line
  <1>6. Given' \in Int /\ Given' >= Given
    <2>1. "idle" \notin Filling
      BY DEF Filling
    <2>2. Given = (IF pc[u] \in Filling THEN offered - 1 ELSE offered)
      BY <1>1, <1>3, ProducerLabels DEF Given
    <2>3. Given' = (IF l \in Filling THEN offered' - 1 ELSE offered')
      BY <1>1, <1>3, ProducerLabels DEF Given
    <2>4. CASE l \in Filling /\ pc[u] \in Filling
      <3>1. offered' = offered
        BY <1>3, <2>1, <2>4
      <3>2. QED
        BY <1>4, <2>2, <2>3, <2>4, <3>1
    <2>5. CASE l \in Filling /\ pc[u] \notin Filling
      <3>1. offered' = offered + 1
        BY <1>3, <2>5
      <3>2. QED
        BY <1>4, <2>2, <2>3, <2>5, <3>1
    <2>6. CASE l \notin Filling
      <3>1. offered' = offered
        BY <1>3, <2>6
      <3>2. QED
        BY <1>4, <2>2, <2>3, <2>6, <3>1
    <2>7. QED
      BY <2>4, <2>5, <2>6
  <1>7. Holds(L)' /\ Ordered(L)'
    BY <1>2, <1>5, <1>6, RingStays DEF RingInv
  <1>8. Kept(L)'
    BY <1>1, <1>2, <1>3, <1>5, ProducerLabels DEF RingInv, Kept, Whole
  <1>9. Flagged(L)'
    <2>1. l \in Copying /\ pc[u] \notin Copying => ~is_full_
      BY <1>3
    <2>2. Enqueuing(Copying) => Enqueuing(Copying)'
      BY <1>1, <1>3, ProducerLabels DEF EnqueueLooks, CallEnqueue, EnqueueRefused, EnqueueHasRoom, EnqueueEvict,
         EnqueueLoadTail, EnqueueIndicesMeet, At, Goto, Copying
    <2>3. Enqueuing(Placed)' <=> Enqueuing(Placed)
      BY <1>1, <1>3, ProducerLabels
    <2>4. Enqueuing(Copying)' => Enqueuing(Copying) \/ ~is_full_
      BY <1>1, <1>3, ProducerLabels
    <2>5. Dequeuing(Handing)' <=> Dequeuing(Handing)
      BY <1>1, <1>3, ProducerLabels
    <2>6. QED
      BY <1>2, <2>2, <2>3, <2>4, <2>5 DEF RingInv, Flagged
  <1>10. Producing(L)'
    <2>1. SUFFICES ASSUME NEW v \in Producers, v = u PROVE
        /\ pc'[v] \in Filling \cup Placed => element'[v] = Whole(offered') /\ offered' # 0
        /\ pc'[v] = "enq_evict" =>
              /\ is_full_ /\ config_.overwrite_when_full /\ L = BufLen
              /\ index'[v] = IncrementIndex(head_)
        /\ pc'[v] \in Copying => L < BufLen
        /\ pc'[v] = "enq_copying" => slot'[v] = tail_ /\ buffer[tail_][1] = offered'
        /\ pc'[v] \in {"enq_copied", "enq_advance"} => buffer[tail_] = Whole(offered')
        /\ pc'[v] = "enq_advance" => index'[v] = IncrementIndex(tail_)
        /\ pc'[v] \in Placed => L # 0
        /\ pc'[v] = "enq_flag" => L = BufLen
      BY <1>1, <1>2, <1>3, ProducerLabels DEF Producing, Filling, Placed, Copying, Whole, IncrementIndex
    <2>2. Producing(L) /\ Flagged(L) /\ Holds(L) /\ pc'[u] = l /\ u \in Producers
      BY <1>1, <1>3, ProducerLabels DEF RingInv
    <2>3. CASE CallEnqueue(u)
      <3>1. element'[u] = Whole(offered') /\ offered' # 0
        BY <1>4, <2>3 DEF CallEnqueue, TypeOK
      <3>2. pc'[u] = "enq_full?"
        BY <2>3 DEF CallEnqueue, Goto, Discipline
      <3>3. QED
        BY <2>1, <3>1, <3>2 DEF Placed, Copying
    <2>4. CASE EnqueueRefused(u)
      <3>1. pc'[u] = "idle"
        BY <2>4 DEF EnqueueRefused, Return, Goto, Discipline
      <3>2. QED
        BY <2>1, <3>1 DEF Filling, Placed, Copying
    <2>5. CASE EnqueueHasRoom(u)
      <3>1. L # BufLen
        BY <1>1, <1>3, <2>2, <2>5, ProducerLabels DEF EnqueueHasRoom, At, Flagged, Placed
      <3>2. QED
        BY <2>2, <2>5, <3>1, SharedAssumption DEF EnqueueHasRoom, At, Goto, Discipline, Producing, Placed, Filling, Copying, history
    <2>6. CASE EnqueueEvict(u)
      <3>1. L = BufLen
        BY <1>1, <1>3, <2>2, <2>6, ProducerLabels DEF EnqueueEvict, At, Flagged, Handing, Dequeuing, Copying
      <3>2. QED
        BY <2>2, <2>6, <3>1 DEF EnqueueEvict, Keep, At, Goto, TypeOK, Discipline, Producing, Placed, Filling, Copying, history
    <2>7. CASE EnqueueLoadTail(u)
      BY <2>2, <2>7 DEF EnqueueLoadTail, Keep, At, Goto, TypeOK, Discipline, Producing, Placed, Filling, Copying, history
    <2>8. CASE EnqueueIndicesMeet(u)
      <3>1. L = BufLen
        <4>1. tail_ = head_ /\ tail_ = Ahead(head_, L) /\ head_ \in Slots /\ L # 0
          BY <2>2, <2>8 DEF EnqueueIndicesMeet, At, Holds, Producing, Placed, TypeOK
        <4>2. Ahead(head_, L) = head_ => L \in {0, BufLen}
          BY <4>1, AheadIs
        <4>3. QED
          BY <4>1, <4>2
      <3>2. QED
        BY <2>2, <2>8, <3>1 DEF EnqueueIndicesMeet, At, Goto, Discipline, Producing, Placed, Filling, Copying, history
    <2>9. QED
      BY <2>1, <2>3, <2>4, <2>5, <2>6, <2>7, <2>8 DEF EnqueueLooks
  <1>11. Consuming(L)'
    <2>1. \A v \in Consumers : v # u
      BY <1>1, <1>3, ProducerLabels, SharedAssumption
    <2>2. \A v \in Users \ {u} : element'[v] = element[v] /\ slot'[v] = slot[v] /\ index'[v] = index[v]
      BY DEF EnqueueLooks, CallEnqueue, EnqueueRefused, EnqueueHasRoom, EnqueueEvict, EnqueueLoadTail,
           EnqueueIndicesMeet, Keep, TypeOK, queue, locals, history
    <2>3. \A v \in Consumers : pc'[v] = pc[v] /\ element'[v] = element[v] /\ slot'[v] = slot[v] /\ index'[v] = index[v]
      BY <1>1, <1>3, <2>1, <2>2, ProducerLabels DEF Users
    <2>4. config_.is_thread_safe => \A v \in Consumers : pc'[v] = "idle"
      BY <1>1, <1>3, ProducerLabels
    <2>5. Given' \in Int /\ Given' >= Given /\ L <= L
      BY <1>6
    <2>6. QED
      BY <1>2, <1>5, <2>3, <2>4, <2>5, ConsumingStays DEF RingInv
  <1>12. QED
    BY <1>7, <1>8, <1>9, <1>10, <1>11 DEF RingInv

\* The head moves on: the ring has one element less.
LEMMA HeadMoves ==
  ASSUME TypeOK, Histories, NEW L \in 0 .. BufLen, L # 0, Holds(L), Ordered(L),
         head_' = IncrementIndex(head_), buffer' = buffer, tail_' = tail_, delivered' = delivered,
         Line' = Line, Given' = Given
  PROVE  L - 1 \in 0 .. BufLen /\ Holds(L - 1)' /\ Ordered(L - 1)'
  <1>1. L - 1 \in 0 .. BufLen /\ L - 1 < BufLen /\ L - 1 + 1 = L /\ BufLen \in Nat
    BY SharedAssumption
  <1>2. head_ \in Slots
    BY DEF TypeOK
  <1>3. \A n \in 0 .. BufLen : n < BufLen => Ahead(head_', n) = Ahead(head_, n + 1)
    BY <1>2, AheadIs
  <1>4. Len(Line) \in Nat
    BY LineTypes
  <1>5. tail_' = Ahead(head_', L - 1)
    BY <1>1, <1>3 DEF Holds
  <1>6. ASSUME NEW i \in 0 .. L - 1 - 1
        PROVE  buffer'[Ahead(head_', i)] = Whole(Line[Len(Line) - (L - 1) + 1 + i])
    <2>1. i \in 0 .. BufLen /\ i < BufLen /\ i + 1 \in 0 .. L - 1
      BY <1>1
    <2>2. buffer[Ahead(head_, i + 1)] = Whole(Line[Len(Line) - L + 1 + (i + 1)])
      BY <2>1 DEF Holds
    <2>3. Len(Line) - L + 1 + (i + 1) = Len(Line) - (L - 1) + 1 + i
      BY <1>4, <2>1
    <2>4. QED
      BY <1>3, <2>1, <2>2, <2>3
  <1>7. L - 1 <= Len(Line)
    BY <1>4 DEF Holds
  <1>8. Holds(L - 1)'
    BY <1>5, <1>6, <1>7 DEF Holds, Ahead, Whole
  <1>9. \A j \in DOMAIN Line : j > Len(Line) - (L - 1) => j > Len(Line) - L
    BY <1>4, LineTypes
  <1>10. Ordered(L - 1)'
    BY <1>9 DEF Ordered, Whole
  <1>11. QED
    BY <1>1, <1>8, <1>10

\* What is written behind the last element is not in the ring yet.
LEMMA WrittenBehind ==
  ASSUME TypeOK, Histories, NEW L \in 0 .. BufLen, L < BufLen, Holds(L), Ordered(L),
         NEW x, buffer' = [buffer EXCEPT ![tail_] = x],
         head_' = head_, tail_' = tail_, delivered' = delivered, Line' = Line, Given' = Given
  PROVE  /\ Holds(L)' /\ Ordered(L)'
         /\ L # 0 => buffer'[head_] = buffer[head_]
         /\ buffer'[tail_] = x
  <1>1. head_ \in Slots /\ tail_ \in Slots /\ DOMAIN buffer = Slots /\ tail_ = Ahead(head_, L)
    BY DEF TypeOK, Holds
  <1>2. \A i \in 0 .. L - 1 : Ahead(head_, i) # tail_ /\ Ahead(head_, i) \in Slots
    BY <1>1, AheadDiffer
  <1>5. \A i \in 0 .. L - 1 : buffer'[Ahead(head_, i)] = buffer[Ahead(head_, i)]
    BY <1>1, <1>2
  <1>6. Holds(L)'
    BY <1>5 DEF Holds, Ahead, Whole
  <1>7. Ordered(L)'
    BY DEF Ordered, Whole
  <1>8. tail_ = head_ => L = 0
    <2>1. Ahead(head_, L) = head_ => L \in {0, BufLen}
      BY <1>1, AheadIs
    <2>2. L # BufLen
      BY SharedAssumption
    <2>3. QED
      BY <1>1, <2>1, <2>2
  <1>9. (L # 0 => buffer'[head_] = buffer[head_]) /\ buffer'[tail_] = x
    BY <1>1, <1>8
  <1>10. QED
    BY <1>6, <1>7, <1>9

\* Eviction gives up the oldest element, so that one slot is free.
LEMMA EnqueueEvictedKeeps ==
  ASSUME SafeSharing, TypeOK, Histories, Discipline, TypeOK',
         NEW u \in Users, NEW L \in 0 .. BufLen, RingInv(L), EnqueueEvicted(u)
  PROVE  \E M \in 0 .. BufLen : RingInv(M)'
  <1>1. Enqueue(u) /\ Goto(u, "enq_copy") /\ pc[u] = "enq_evict"
    BY DEF EnqueueEvicted, Enqueue, At
  <1>2. /\ u \in Producers /\ config_' = config_ /\ pc'[u] = "enq_copy"
        /\ \A v \in Producers \ {u} : pc'[v] = "idle"
        /\ ~Enqueuing(Placed) /\ ~Enqueuing(Placed)' /\ Enqueuing(Filling) /\ Enqueuing(Filling)' /\ Enqueuing(Copying)'
    BY <1>1, ProducerLabels DEF Filling, Placed, Copying
  <1>3. /\ is_full_ /\ config_.overwrite_when_full /\ L = BufLen /\ index[u] = IncrementIndex(head_)
        /\ element[u] = Whole(offered) /\ offered # 0
    BY <1>1, <1>2 DEF RingInv, Producing, Filling
  <1>4. /\ head_' = IncrementIndex(head_) /\ buffer' = buffer /\ tail_' = tail_ /\ is_full_' = is_full_
        /\ element' = element /\ offered' = offered /\ accepted' = accepted /\ delivered' = delivered
    BY <1>3 DEF EnqueueEvicted, history
  <1>5. Line' = Line /\ Given' = Given
    BY <1>2, <1>4 DEF Line, Given
  <1>6. L - 1 \in 0 .. BufLen /\ Holds(L - 1)' /\ Ordered(L - 1)'
    BY <1>3, <1>4, <1>5, HeadMoves, SharedAssumption DEF RingInv
  <1>7. Kept(L - 1)'
    BY <1>2, <1>3 DEF Kept
  <1>8. L - 1 = BufLen - 1 /\ L - 1 < BufLen
    BY <1>3, SharedAssumption
  <1>9. Flagged(L - 1)'
    BY <1>2, <1>3, <1>8 DEF Flagged
  <1>10. Producing(L - 1)'
    BY <1>2, <1>3, <1>4, <1>8 DEF Producing, Filling, Placed, Copying, Whole
  <1>11. \A v \in Consumers : pc'[v] = "idle"
    BY <1>1, <1>3, ProducerLabels
  <1>12. Consuming(L - 1)'
    BY <1>11 DEF Consuming
  <1>13. QED
    BY <1>6, <1>7, <1>9, <1>10, <1>12 DEF RingInv

\* The copy goes to the slot behind the ring's elements, which nobody reads.
LEMMA EnqueueCopiesKeeps ==
  ASSUME SafeSharing, TypeOK, Histories, Discipline, TypeOK',
         NEW u \in Users, NEW L \in 0 .. BufLen, RingInv(L), EnqueueCopyFirst(u) \/ EnqueueCopySecond(u)
  PROVE  RingInv(L)'
  <1>1. PICK l \in {"enq_copying", "enq_copied"} : Goto(u, l)
    BY DEF EnqueueCopyFirst, EnqueueCopySecond
  <1>2. Enqueue(u) /\ pc[u] \in {"enq_copy", "enq_copying"}
    BY DEF EnqueueCopyFirst, EnqueueCopySecond, Enqueue, At
  <1>3. /\ u \in Producers /\ config_' = config_ /\ pc'[u] = l
        /\ \A v \in Producers \ {u} : pc'[v] = "idle"
        /\ ~Enqueuing(Placed) /\ ~Enqueuing(Placed)' /\ Enqueuing(Filling) /\ Enqueuing(Filling)'
        /\ Enqueuing(Copying) /\ Enqueuing(Copying)'
        /\ Dequeuing(Handing)' <=> Dequeuing(Handing)
    BY <1>1, <1>2, ProducerLabels DEF Filling, Placed, Copying
  <1>4. L < BufLen /\ element[u] = Whole(offered) /\ offered # 0
        /\ (pc[u] = "enq_copying" => slot[u] = tail_ /\ buffer[tail_][1] = offered)
    BY <1>2, <1>3 DEF RingInv, Producing, Filling, Copying
  <1>5. /\ head_' = head_ /\ tail_' = tail_ /\ is_full_' = is_full_ /\ element' = element
        /\ offered' = offered /\ accepted' = accepted /\ delivered' = delivered /\ index' = index
        /\ \A v \in Users \ {u} : slot'[v] = slot[v]
    BY DEF EnqueueCopyFirst, EnqueueCopySecond, history, TypeOK
  <1>6. Line' = Line /\ Given' = Given
    BY <1>3, <1>5 DEF Line, Given
  <1>7. PICK x : buffer' = [buffer EXCEPT ![tail_] = x] /\ (l = "enq_copying" => x[1] = offered /\ slot'[u] = tail_)
                 /\ (l = "enq_copied" => x = Whole(offered))
    <2>1. offered \in Data /\ buffer[tail_] \in Data \X Data /\ slot \in [Users -> Slots]
      BY DEF TypeOK, Data
    <2>2. /\ [buffer[tail_] EXCEPT ![1] = offered] = <<offered, buffer[tail_][2]>>
          /\ [buffer[tail_] EXCEPT ![2] = offered] = <<buffer[tail_][1], offered>>
      BY <2>1, Halves
    <2>3. element[u][1] = offered /\ element[u][2] = offered
      BY <1>4 DEF Whole
    <2>4. CASE EnqueueCopyFirst(u)
      <3>1. l = "enq_copying" /\ slot'[u] = tail_
        BY <1>1, <1>3, <2>1, <2>4 DEF EnqueueCopyFirst, Goto, Discipline
      <3>2. buffer' = [buffer EXCEPT ![tail_] = [buffer[tail_] EXCEPT ![1] = offered]]
        BY <2>3, <2>4 DEF EnqueueCopyFirst
      <3>3. <<offered, buffer[tail_][2]>>[1] = offered
        OBVIOUS
      <3>4. QED
        BY <2>2, <3>1, <3>2, <3>3
    <2>5. CASE EnqueueCopySecond(u)
      <3>1. l = "enq_copied" /\ pc[u] = "enq_copying"
        BY <1>1, <1>3, <2>5 DEF EnqueueCopySecond, Goto, Discipline, At
      <3>2. buffer' = [buffer EXCEPT ![tail_] = [buffer[tail_] EXCEPT ![2] = offered]]
        BY <1>4, <2>3, <2>5, <3>1 DEF EnqueueCopySecond
      <3>3. [buffer[tail_] EXCEPT ![2] = offered] = Whole(offered)
        BY <1>4, <2>2, <3>1 DEF Whole
      <3>4. QED
        BY <3>1, <3>2, <3>3
    <2>6. QED
      BY <2>4, <2>5
  <1>8. /\ Holds(L)' /\ Ordered(L)' /\ buffer'[tail_] = x
        /\ L # 0 => buffer'[head_] = buffer[head_]
    BY <1>4, <1>5, <1>6, <1>7, WrittenBehind DEF RingInv
  <1>9. Kept(L)'
    BY <1>3, <1>5, <1>6 DEF RingInv, Kept, Whole
  <1>10. Flagged(L)'
    BY <1>3, <1>5 DEF RingInv, Flagged
  <1>11. Producing(L)'
    BY <1>1, <1>3, <1>4, <1>5, <1>7, <1>8 DEF Producing, Filling, Placed, Copying, Whole
  <1>12. Consuming(L)'
    <2>1. \A v \in Consumers : pc'[v] = pc[v] /\ element'[v] = element[v] /\ slot'[v] = slot[v] /\ index'[v] = index[v]
      BY <1>1, <1>2, <1>3, <1>5, ProducerLabels, SharedAssumption DEF Users
    <2>2. config_.is_thread_safe => \A v \in Consumers : pc'[v] = "idle"
      BY <1>1, <1>2, ProducerLabels
    <2>3. Given' \in Int /\ Given' >= Given /\ L <= L
      BY <1>6, LineTypes
    <2>4. QED
      BY <1>3, <1>5, <1>6, <1>8, <2>1, <2>2, <2>3, ConsumingStays DEF RingInv
  <1>13. QED
    BY <1>8, <1>9, <1>10, <1>11, <1>12 DEF RingInv

\* The element joins the line when tail_ has moved past it.
LEMMA EnqueueStoreTailKeeps ==
  ASSUME SafeSharing, TypeOK, Histories, Discipline, TypeOK',
         NEW u \in Users, NEW L \in 0 .. BufLen, RingInv(L), EnqueueStoreTail(u)
  PROVE  \E M \in 0 .. BufLen : RingInv(M)'
  <1>1. Enqueue(u) /\ Goto(u, "enq_met?") /\ pc[u] = "enq_advance"
    BY DEF EnqueueStoreTail, Enqueue, At
  <1>2. /\ u \in Producers /\ config_' = config_ /\ pc'[u] = "enq_met?"
        /\ \A v \in Producers \ {u} : pc'[v] = "idle"
        /\ ~Enqueuing(Placed) /\ Enqueuing(Placed)' /\ Enqueuing(Filling) /\ ~Enqueuing(Filling)'
        /\ Enqueuing(Copying) /\ ~Enqueuing(Copying)'
        /\ Dequeuing(Handing)' <=> Dequeuing(Handing)
    BY <1>1, ProducerLabels DEF Filling, Placed, Copying
  <1>3. /\ L < BufLen /\ element[u] = Whole(offered) /\ offered # 0
        /\ buffer[tail_] = Whole(offered) /\ index[u] = IncrementIndex(tail_)
    BY <1>1, <1>2 DEF RingInv, Producing, Filling, Copying
  <1>4. /\ tail_' = IncrementIndex(tail_) /\ buffer' = buffer /\ head_' = head_ /\ is_full_' = is_full_
        /\ element' = element /\ slot' = slot /\ index' = index
        /\ offered' = offered /\ accepted' = accepted /\ delivered' = delivered
    BY <1>3 DEF EnqueueStoreTail, history
  <1>5. offered \in Nat /\ L + 1 \in 0 .. BufLen /\ L + 1 # 0 /\ L <= L + 1
    BY <1>3, SharedAssumption DEF TypeOK
  <1>6. Line = accepted /\ Line' = Append(Line, offered) /\ Given = offered - 1 /\ Given' = offered
    <2>1. Line = accepted /\ Line' = Append(accepted, offered)
      BY <1>2, <1>4 DEF Line
    <2>2. Given = offered - 1 /\ Given' = offered
      BY <1>2, <1>4 DEF Given
    <2>3. QED
      BY <2>1, <2>2
  <1>7. Line \in Seq(Nat) /\ Len(Line) \in Nat /\ DOMAIN Line = 1 .. Len(Line)
    BY LineTypes
  <1>8. /\ Len(Line') = Len(Line) + 1 /\ DOMAIN Line' = 1 .. Len(Line) + 1
        /\ \A i \in DOMAIN Line : i \in DOMAIN Line' /\ Line'[i] = Line[i]
        /\ Line'[Len(Line) + 1] = offered
    BY <1>5, <1>6, <1>7, AppendProperties
  <1>9. Holds(L + 1)'
    <2>1. head_ \in Slots /\ tail_ = Ahead(head_, L) /\ L <= Len(Line)
      BY DEF TypeOK, RingInv, Holds
    <2>2. tail_' = Ahead(head_, L + 1)
      <3>1. IncrementIndex(Ahead(head_, L)) = Ahead(head_, L + 1)
        BY <1>3, <2>1, AheadNext
      <3>2. QED
        BY <1>4, <2>1, <3>1
    <2>3. ASSUME NEW i \in 0 .. L + 1 - 1
          PROVE  buffer[Ahead(head_, i)] = Whole(Line'[Len(Line') - (L + 1) + 1 + i])
      <3>1. CASE i = L
        <4>1. Len(Line') - (L + 1) + 1 + i = Len(Line) + 1
          BY <1>7, <1>8, <3>1
        <4>2. QED
          BY <1>3, <1>8, <2>1, <3>1, <4>1
      <3>2. CASE i # L
        <4>1. i \in 0 .. L - 1 /\ Len(Line') - (L + 1) + 1 + i = Len(Line) - L + 1 + i
          BY <1>7, <1>8, <2>3, <3>2
        <4>2. Len(Line) - L + 1 + i \in DOMAIN Line
          BY <1>7, <2>1, <4>1
        <4>3. QED
          BY <1>8, <4>1, <4>2 DEF RingInv, Holds
      <3>3. QED
        BY <3>1, <3>2
    <2>4. L + 1 <= Len(Line')
      BY <1>7, <1>8, <2>1
    <2>5. QED
      BY <1>4, <2>2, <2>3, <2>4 DEF Holds, Ahead, Whole
  <1>10. /\ \A i \in DOMAIN Line' : i \in DOMAIN Line \/ i = Len(Line) + 1
         /\ \A i \in DOMAIN Line : i < Len(Line) + 1 /\ ~(Len(Line) + 1 < i)
         /\ ~(Len(Line) + 1 < Len(Line) + 1)
         /\ \A j \in DOMAIN Line : j > Len(Line') - (L + 1) => j > Len(Line) - L
         /\ \A e \in 1 .. Given : e < offered /\ e \in 1 .. Given'
         /\ offered \in 1 .. Given'
    BY <1>3, <1>5, <1>6, <1>7, <1>8
  <1>11. Ordered(L + 1)'
    <2>1. Ordered(L)
      BY DEF RingInv
    <2>2. \A i \in DOMAIN Line' : Line'[i] \in 1 .. Given'
      BY <1>8, <1>10, <2>1 DEF Ordered
    <2>3. ASSUME NEW i \in DOMAIN Line', NEW j \in DOMAIN Line', i < j PROVE Line'[i] < Line'[j]
      BY <1>8, <1>10, <2>1, <2>3 DEF Ordered
    <2>4. ASSUME NEW i \in DOMAIN delivered
          PROVE  /\ delivered[i][1] \in 1 .. Given' /\ delivered[i] = Whole(delivered[i][1])
                 /\ \A j \in DOMAIN delivered : i < j => delivered[i][1] < delivered[j][1]
                 /\ \A j \in DOMAIN Line' : j > Len(Line') - (L + 1) => delivered[i][1] < Line'[j]
      BY <1>8, <1>10, <2>1 DEF Ordered
    <2>5. QED
      BY <1>4, <2>2, <2>3, <2>4 DEF Ordered, Whole
  <1>12. Kept(L + 1)'
    <2>1. SUFFICES ASSUME config_.is_thread_safe, ~config_.overwrite_when_full
                   PROVE  /\ Len(Line') = Len(delivered) + (L + 1) + (IF Dequeuing(Handing) THEN 1 ELSE 0)
                          /\ \A i \in DOMAIN delivered : delivered[i] = Whole(Line'[i])
      BY <1>2, <1>4 DEF Kept, Whole
    <2>2. /\ Len(Line) = Len(delivered) + L + (IF Dequeuing(Handing) THEN 1 ELSE 0)
          /\ \A i \in DOMAIN delivered : delivered[i] = Whole(Line[i])
      BY <2>1 DEF RingInv, Kept
    <2>3. Len(delivered) \in Nat /\ DOMAIN delivered = 1 .. Len(delivered)
      BY DEF Histories
    <2>4. \A i \in DOMAIN delivered : i \in DOMAIN Line
      BY <1>7, <2>2, <2>3
    <2>5. QED
      BY <1>7, <1>8, <2>2, <2>3, <2>4
  <1>13. Flagged(L + 1)'
    <2>1. is_full_ => L + 1 = BufLen \/ Dequeuing(Handing)
      BY <1>3, <1>5, SharedAssumption DEF RingInv, Flagged
    <2>2. config_.is_thread_safe => ~Dequeuing(Handing)
      BY <1>1, ProducerLabels DEF Dequeuing, Handing
    <2>3. QED
      BY <1>2, <1>4, <2>1, <2>2 DEF Flagged
  <1>14. Producing(L + 1)'
    BY <1>2, <1>3, <1>4, <1>5 DEF Producing, Filling, Placed, Copying, Whole
  <1>15. Consuming(L + 1)'
    <2>1. \A v \in Consumers : pc'[v] = pc[v] /\ element'[v] = element[v] /\ slot'[v] = slot[v] /\ index'[v] = index[v]
      BY <1>1, <1>4, ProducerLabels
    <2>2. config_.is_thread_safe => \A v \in Consumers : pc'[v] = "idle"
      BY <1>1, ProducerLabels
    <2>3. Given' \in Int /\ Given' >= Given
      BY <1>5, <1>6
    <2>4. \A j \in DOMAIN Line' : j > Len(Line') - (L + 1) =>
             \/ j \in DOMAIN Line /\ j > Len(Line) - L /\ Line'[j] = Line[j]
             \/ \A e \in 1 .. Given : e < Line'[j]
      BY <1>8, <1>10
    <2>5. QED
      BY <1>2, <1>4, <1>5, <1>8, <2>1, <2>2, <2>3, <2>4, ConsumingStays DEF RingInv
  <1>16. QED
    BY <1>5, <1>9, <1>11, <1>12, <1>13, <1>14, <1>15 DEF RingInv

\* The call returns true: is_full_ tells whether the ring has been filled.
LEMMA EnqueueReturnsKeeps ==
  ASSUME SafeSharing, TypeOK, Histories, Discipline, TypeOK',
         NEW u \in Users, NEW L \in 0 .. BufLen, RingInv(L), EnqueueSetFlag(u) \/ EnqueueNotFull(u)
  PROVE  RingInv(L)'
  <1>1. Enqueue(u) /\ Goto(u, "idle") /\ pc[u] \in Placed
    BY DEF EnqueueSetFlag, EnqueueNotFull, EnqueueReturnTrue, Return, Enqueue, At, Placed
  <1>2. /\ u \in Producers /\ config_' = config_ /\ pc'[u] = "idle"
        /\ \A v \in Producers \ {u} : pc'[v] = "idle"
        /\ Enqueuing(Placed) /\ ~Enqueuing(Placed)' /\ ~Enqueuing(Filling) /\ ~Enqueuing(Filling)'
        /\ ~Enqueuing(Copying) /\ ~Enqueuing(Copying)'
        /\ Dequeuing(Handing)' <=> Dequeuing(Handing)
    BY <1>1, ProducerLabels DEF Filling, Placed, Copying
  <1>3. /\ element[u] = Whole(offered) /\ L # 0
        /\ pc[u] = "enq_flag" => L = BufLen
    BY <1>1, <1>2 DEF RingInv, Producing
  <1>4. /\ tail_' = tail_ /\ buffer' = buffer /\ head_' = head_
        /\ element' = element /\ slot' = slot /\ index' = index
        /\ offered' = offered /\ accepted' = Append(accepted, offered) /\ delivered' = delivered
    BY <1>3 DEF EnqueueSetFlag, EnqueueNotFull, EnqueueReturnTrue, Whole
  <1>5. Line' = Line /\ Given' = Given
    BY <1>2, <1>4 DEF Line, Given
  <1>6. Given' \in Int /\ Given' >= Given /\ L <= L
    BY <1>5, LineTypes
  <1>7. Holds(L)' /\ Ordered(L)'
    BY <1>4, <1>5, <1>6, RingStays DEF RingInv
  <1>8. Kept(L)'
    BY <1>2, <1>4, <1>5 DEF RingInv, Kept, Whole
  <1>9. (is_full_' = TRUE /\ L = BufLen) \/ (is_full_' = is_full_ /\ L # BufLen)
    <2>1. CASE EnqueueSetFlag(u)
      BY <1>3, <2>1 DEF EnqueueSetFlag, At
    <2>2. CASE EnqueueNotFull(u)
      <3>1. tail_ # head_ /\ tail_ = Ahead(head_, L) /\ head_ \in Slots /\ is_full_' = is_full_
        BY <2>2 DEF EnqueueNotFull, RingInv, Holds, TypeOK
      <3>2. Ahead(head_, BufLen) = head_
        BY <3>1, AheadIs
      <3>3. QED
        BY <3>1, <3>2
    <2>3. QED
      BY <2>1, <2>2
  <1>10. Flagged(L)'
    <2>1. config_.is_thread_safe => ~Dequeuing(Handing)
      BY <1>1, ProducerLabels DEF Dequeuing, Handing
    <2>2. QED
      BY <1>2, <1>9, <2>1 DEF RingInv, Flagged
  <1>11. Producing(L)'
    BY <1>2 DEF Producing, Filling, Placed, Copying
  <1>12. Consuming(L)'
    <2>1. \A v \in Consumers : pc'[v] = pc[v] /\ element'[v] = element[v] /\ slot'[v] = slot[v] /\ index'[v] = index[v]
      BY <1>1, <1>4, ProducerLabels
    <2>2. config_.is_thread_safe => \A v \in Consumers : pc'[v] = "idle"
      BY <1>1, ProducerLabels
    <2>3. QED
      BY <1>2, <1>4, <1>5, <1>6, <2>1, <2>2, ConsumingStays DEF RingInv
  <1>13. QED
    BY <1>7, <1>8, <1>10, <1>11, <1>12 DEF RingInv

-----------------------------------------------------------------------------
(* The steps of Dequeue.                                                   *)

\* Those that only look, or only change what is the call's own.
DequeueLooks(u) ==
    \/ CallDequeue(u) \/ DequeueIndicesMeet(u) \/ DequeueEmpty(u)
    \/ DequeueCopyFirst(u) \/ DequeueCopySecond(u) \/ DequeueLoadHead(u)

\* A ring that is not empty gives its first element away.
LEMMA NotEmpty ==
  ASSUME TypeOK, NEW L \in 0 .. BufLen, Holds(L), Flagged(L), ~Dequeuing(Handing), ~Enqueuing(Copying),
         head_ # tail_ \/ is_full_
  PROVE  L # 0
  <1>1. head_ \in Slots /\ tail_ = Ahead(head_, L)
    BY DEF TypeOK, Holds
  <1>2. Ahead(head_, 0) = head_
    BY <1>1, AheadIs, SharedAssumption
  <1>3. is_full_ => L = BufLen
    BY DEF Flagged
  <1>4. QED
    BY <1>1, <1>2, <1>3, SharedAssumption

\* What a consumer has copied is the oldest element, whole once both halves are.
LEMMA DequeueLooksKeeps ==
  ASSUME SafeSharing, TypeOK, Histories, Discipline, TypeOK',
         NEW u \in Users, NEW L \in 0 .. BufLen, RingInv(L), DequeueLooks(u)
  PROVE  RingInv(L)'
  <1>1. Dequeue(u)
    BY DEF DequeueLooks, Dequeue
  <1>2. /\ buffer' = buffer /\ head_' = head_ /\ tail_' = tail_ /\ is_full_' = is_full_
        /\ offered' = offered /\ accepted' = accepted /\ delivered' = delivered
    BY DEF DequeueLooks, CallDequeue, DequeueIndicesMeet, DequeueEmpty, DequeueCopyFirst,
           DequeueCopySecond, DequeueLoadHead, queue, history
  <1>3. PICK l : Goto(u, l) /\ l # "deq_flag" /\ pc[u] # "deq_flag"
    BY DEF DequeueLooks, CallDequeue, DequeueIndicesMeet, DequeueEmpty, DequeueCopyFirst,
           DequeueCopySecond, DequeueLoadHead, Return, At
  <1>4. /\ u \in Consumers /\ config_' = config_ /\ pc'[u] = l
        /\ \A v \in Producers : pc'[v] = "idle"
        /\ \A v \in Consumers \ {u} : pc'[v] = "idle"
        /\ ~Enqueuing(Placed) /\ ~Enqueuing(Placed)' /\ ~Enqueuing(Filling) /\ ~Enqueuing(Filling)'
        /\ ~Enqueuing(Copying) /\ ~Enqueuing(Copying)'
        /\ ~Dequeuing(Handing) /\ ~Dequeuing(Handing)'
    BY <1>1, <1>3, ConsumerLabels
  <1>5. Line' = Line /\ Given' = Given
    BY <1>2, <1>4 DEF Line, Given
  <1>6. Given' \in Int /\ Given' >= Given
    BY <1>5, LineTypes
  <1>7. Holds(L)' /\ Ordered(L)'
    BY <1>2, <1>5, <1>6, RingStays DEF RingInv
  <1>8. Kept(L)'
    BY <1>2, <1>4, <1>5 DEF RingInv, Kept, Whole
  <1>9. Flagged(L)'
    BY <1>2, <1>4 DEF RingInv, Flagged
  <1>10. Producing(L)'
    BY <1>4 DEF Producing, Filling, Placed, Copying
  <1>11. Consuming(L)'
    <2>1. Consuming(L) /\ element \in [Users -> Data \X Data] /\ slot \in [Users -> Slots] /\ index \in [Users -> Slots]
          /\ pc \in [Users -> {"idle"} \cup Filling \cup Placed \cup Taking]
          /\ buffer[head_] \in Data \X Data /\ element[u] \in Data \X Data
      BY DEF RingInv, TypeOK, Data, Discipline
    <2>2. CASE CallDequeue(u) \/ DequeueIndicesMeet(u) \/ DequeueEmpty(u)
      <3>1. pc'[u] \in {"idle", "deq_met?", "deq_full?"}
        BY <2>1, <2>2 DEF CallDequeue, DequeueIndicesMeet, DequeueEmpty, Return, Goto
      <3>2. QED
        BY <1>4, <3>1 DEF Consuming
    <2>3. CASE DequeueCopyFirst(u)
      <3>1. L # 0
        BY <1>4, <2>3, NotEmpty DEF DequeueCopyFirst, RingInv
      <3>2. pc'[u] = "deq_copying" /\ slot'[u] = head_
        BY <2>1, <2>3 DEF DequeueCopyFirst, Goto
      <3>3. element'[u][1] = buffer[head_][1]
        <4>1. element'[u] = [element[u] EXCEPT ![1] = buffer[head_][1]]
          BY <2>1, <2>3 DEF DequeueCopyFirst
        <4>2. [element[u] EXCEPT ![1] = buffer[head_][1]] = <<buffer[head_][1], element[u][2]>>
          BY <2>1, Halves
        <4>3. QED
          BY <4>1, <4>2
      <3>4. QED
        BY <1>2, <1>4, <3>1, <3>2, <3>3 DEF Consuming
    <2>4. CASE DequeueCopySecond(u)
      <3>1. L # 0 /\ slot[u] = head_ /\ element[u][1] = buffer[head_][1]
        BY <1>4, <2>1, <2>4 DEF DequeueCopySecond, At, Consuming
      <3>2. pc'[u] = "deq_copied"
        BY <2>1, <2>4 DEF DequeueCopySecond, Goto
      <3>3. element'[u] = buffer[head_]
        <4>1. element'[u] = [element[u] EXCEPT ![2] = buffer[head_][2]]
          BY <2>1, <2>4, <3>1 DEF DequeueCopySecond
        <4>2. [element[u] EXCEPT ![2] = buffer[head_][2]] = <<element[u][1], buffer[head_][2]>>
          BY <2>1, Halves
        <4>3. buffer[head_] = <<buffer[head_][1], buffer[head_][2]>>
          BY <2>1, Halves
        <4>4. QED
          BY <3>1, <4>1, <4>2, <4>3
      <3>4. QED
        BY <1>2, <1>4, <3>1, <3>2, <3>3 DEF Consuming
    <2>5. CASE DequeueLoadHead(u)
      <3>1. L # 0 /\ element[u] = buffer[head_]
        BY <1>4, <2>1, <2>5 DEF DequeueLoadHead, At, Consuming
      <3>2. pc'[u] = "deq_advance" /\ index'[u] = IncrementIndex(head_) /\ element' = element
        BY <2>1, <2>5 DEF DequeueLoadHead, Goto, Keep
      <3>3. QED
        BY <1>2, <1>4, <3>1, <3>2 DEF Consuming, IncrementIndex
    <2>6. QED
      BY <2>2, <2>3, <2>4, <2>5 DEF DequeueLooks
  <1>12. QED
    BY <1>7, <1>8, <1>9, <1>10, <1>11 DEF RingInv

\* The element is no longer the ring's when head_ has moved past it.
LEMMA DequeueStoreHeadKeeps ==
  ASSUME SafeSharing, TypeOK, Histories, Discipline, TypeOK',
         NEW u \in Users, NEW L \in 0 .. BufLen, RingInv(L), DequeueStoreHead(u)
  PROVE  \E M \in 0 .. BufLen : RingInv(M)'
  <1>1. Dequeue(u) /\ Goto(u, "deq_flag") /\ pc[u] = "deq_advance"
    BY DEF DequeueStoreHead, Dequeue, At
  <1>2. /\ u \in Consumers /\ config_' = config_ /\ pc'[u] = "deq_flag"
        /\ \A v \in Producers : pc'[v] = "idle"
        /\ \A v \in Consumers \ {u} : pc'[v] = "idle"
        /\ ~Enqueuing(Placed) /\ ~Enqueuing(Placed)' /\ ~Enqueuing(Filling) /\ ~Enqueuing(Filling)'
        /\ ~Enqueuing(Copying) /\ ~Enqueuing(Copying)'
        /\ ~Dequeuing(Handing) /\ Dequeuing(Handing)'
    BY <1>1, ConsumerLabels
  <1>3. L # 0 /\ element[u] = buffer[head_] /\ index[u] = IncrementIndex(head_)
    BY <1>1, <1>2 DEF RingInv, Consuming
  <1>4. /\ head_' = IncrementIndex(head_) /\ buffer' = buffer /\ tail_' = tail_ /\ is_full_' = is_full_
        /\ element' = element /\ offered' = offered /\ accepted' = accepted /\ delivered' = delivered
    BY <1>3 DEF DequeueStoreHead, history
  <1>5. Line' = Line /\ Given' = Given
    BY <1>2, <1>4 DEF Line, Given
  <1>6. L - 1 \in 0 .. BufLen /\ Holds(L - 1)' /\ Ordered(L - 1)' /\ L - 1 < BufLen
    BY <1>3, <1>4, <1>5, HeadMoves, SharedAssumption DEF RingInv
  <1>7. Len(Line) \in Nat /\ DOMAIN Line = 1 .. Len(Line) /\ L <= Len(Line)
    BY LineTypes DEF RingInv, Holds
  <1>8. Len(delivered) \in Nat /\ DOMAIN delivered = 1 .. Len(delivered)
    BY DEF Histories
  <1>9. Kept(L - 1)'
    <2>1. SUFFICES ASSUME config_.is_thread_safe, ~config_.overwrite_when_full
                   PROVE  /\ Len(Line) = Len(delivered) + (L - 1) + 1
                          /\ \A i \in DOMAIN delivered : delivered[i] = Whole(Line[i])
      BY <1>2, <1>4, <1>5 DEF Kept, Whole
    <2>2. /\ Len(Line) = Len(delivered) + L + 0
          /\ \A i \in DOMAIN delivered : delivered[i] = Whole(Line[i])
      BY <1>2, <2>1 DEF RingInv, Kept
    <2>3. QED
      BY <1>7, <1>8, <2>2
  <1>10. Flagged(L - 1)'
    BY <1>2, <1>6 DEF Flagged
  <1>11. Producing(L - 1)'
    BY <1>2 DEF Producing, Filling, Placed, Copying
  <1>12. Consuming(L - 1)'
    <2>1. Len(Line) - L + 1 \in DOMAIN Line
      BY <1>3, <1>7
    <2> DEFINE first == Line[Len(Line) - L + 1]
    <2>2. element[u] = Whole(first)
      <3>1. Ahead(head_, 0) = head_ /\ 0 \in 0 .. L - 1 /\ Len(Line) - L + 1 + 0 = Len(Line) - L + 1
        BY <1>3, <1>7, AheadIs, SharedAssumption DEF TypeOK
      <3>2. buffer[Ahead(head_, 0)] = Whole(Line[Len(Line) - L + 1 + 0])
        BY <3>1 DEF RingInv, Holds
      <3>3. QED
        BY <1>3, <3>1, <3>2
    <2>3. element[u][1] = first
      BY <2>2 DEF Whole
    <2>4. first \in 1 .. Given /\ \A i \in DOMAIN delivered : delivered[i][1] < first
      BY <1>7, <2>1 DEF RingInv, Ordered
    <2>5. ASSUME NEW j \in DOMAIN Line, j > Len(Line) - (L - 1) PROVE first < Line[j]
      <3>1. Len(Line) - L + 1 < j
        BY <1>7, <2>5
      <3>2. QED
        BY <2>1, <3>1 DEF RingInv, Ordered
    <2>6. ASSUME config_.is_thread_safe, ~config_.overwrite_when_full PROVE first = Line[Len(delivered) + 1]
      <3>1. Len(Line) = Len(delivered) + L + 0
        BY <1>2, <2>6 DEF RingInv, Kept
      <3>2. Len(delivered) + 1 = Len(Line) - L + 1
        BY <1>7, <1>8, <3>1
      <3>3. QED
        BY <3>2
    <2> HIDE DEF first
    <2>7. QED
      BY <1>2, <1>4, <1>5, <2>2, <2>3, <2>4, <2>5, <2>6 DEF Consuming, Whole
  <1>13. QED
    BY <1>6, <1>9, <1>10, <1>11, <1>12 DEF RingInv

\* If the handler has filled the ring since, it reads as empty from now on.
LEMMA DequeueClearFlagKeeps ==
  ASSUME SafeSharing, TypeOK, Histories, Discipline, TypeOK',
         NEW u \in Users, NEW L \in 0 .. BufLen, RingInv(L), DequeueClearFlag(u)
  PROVE  \E M \in 0 .. BufLen : RingInv(M)'
  <1>1. Dequeue(u) /\ Goto(u, "idle") /\ pc[u] = "deq_flag"
    BY DEF DequeueClearFlag, Return, Dequeue, At
  <1>2. /\ u \in Consumers /\ config_' = config_
        /\ \A v \in Producers : pc'[v] = "idle"
        /\ \A v \in Consumers : pc'[v] = "idle"
        /\ ~Enqueuing(Placed) /\ ~Enqueuing(Placed)' /\ ~Enqueuing(Filling) /\ ~Enqueuing(Filling)'
        /\ ~Enqueuing(Copying) /\ ~Enqueuing(Copying)'
        /\ Dequeuing(Handing) /\ ~Dequeuing(Handing)'
    BY <1>1, ConsumerLabels
  <1>3. /\ head_' = head_ /\ buffer' = buffer /\ tail_' = tail_ /\ is_full_' = FALSE
        /\ offered' = offered /\ accepted' = accepted /\ delivered' = Append(delivered, element[u])
    BY DEF DequeueClearFlag
  <1>4. Line' = Line /\ Given' = Given
    BY <1>2, <1>3 DEF Line, Given
  <1>5. Len(Line) \in Nat /\ DOMAIN Line = 1 .. Len(Line) /\ L <= Len(Line)
    BY LineTypes DEF RingInv, Holds
  <1>6. Len(delivered) \in Nat /\ DOMAIN delivered = 1 .. Len(delivered)
    BY DEF Histories
  <1>7. /\ element[u] = Whole(element[u][1]) /\ element[u][1] \in 1 .. Given
        /\ \A i \in DOMAIN delivered : delivered[i][1] < element[u][1]
        /\ \A j \in DOMAIN Line : j > Len(Line) - L => element[u][1] < Line[j]
        /\ config_.is_thread_safe /\ ~config_.overwrite_when_full => element[u][1] = Line[Len(delivered) + 1]
    BY <1>1, <1>2 DEF RingInv, Consuming
  <1>8. /\ DOMAIN delivered' = 1 .. Len(delivered) + 1 /\ Len(delivered') = Len(delivered) + 1
        /\ \A i \in DOMAIN delivered : delivered'[i] = delivered[i]
        /\ delivered'[Len(delivered) + 1] = element[u]
    <2>1. element[u] \in Nat \X Nat
      BY SharedAssumption DEF TypeOK
    <2>2. QED
      BY <1>3, <1>6, <2>1, AppendProperties DEF Histories
  <1>9. /\ \A i \in DOMAIN delivered' : i \in DOMAIN delivered \/ i = Len(delivered) + 1
        /\ \A i \in DOMAIN delivered : i < Len(delivered) + 1 /\ ~(Len(delivered) + 1 < i)
        /\ ~(Len(delivered) + 1 < Len(delivered) + 1)
    BY <1>6, <1>8
  <1>10. ASSUME NEW i \in DOMAIN delivered'
         PROVE  /\ delivered'[i][1] \in 1 .. Given /\ delivered'[i] = Whole(delivered'[i][1])
                /\ \A j \in DOMAIN delivered' : i < j => delivered'[i][1] < delivered'[j][1]
                /\ \A j \in DOMAIN Line : j > Len(Line) - L => delivered'[i][1] < Line[j]
    <2>1. Ordered(L)
      BY DEF RingInv
    <2>2. CASE i \in DOMAIN delivered
      BY <1>7, <1>8, <1>9, <2>1, <2>2 DEF Ordered
    <2>3. CASE i = Len(delivered) + 1
      BY <1>7, <1>8, <1>9, <2>3
    <2>4. QED
      BY <1>9, <1>10, <2>2, <2>3
  <1>11. PICK M \in 0 .. BufLen : M < BufLen /\ M <= L /\ Ahead(head_, M) = Ahead(head_, L)
                /\ (config_.is_thread_safe => M = L) /\ (M = L \/ M = 0)
    <2>1. CASE L < BufLen
      BY <2>1
    <2>2. CASE L = BufLen
      <3>1. Ahead(head_, 0) = Ahead(head_, L) /\ ~config_.is_thread_safe
        <4>1. head_ \in Slots /\ ~config_.is_thread_safe
          BY <1>2, <2>2 DEF TypeOK, RingInv, Flagged
        <4>2. Ahead(head_, 0) = head_ /\ Ahead(head_, BufLen) = head_
          BY <4>1, AheadIs, SharedAssumption
        <4>3. QED
          BY <2>2, <4>1, <4>2
      <3>2. 0 \in 0 .. BufLen /\ 0 < BufLen /\ 0 <= L
        BY SharedAssumption
      <3>3. QED
        BY <3>1, <3>2
    <2>3. QED
      BY <2>1, <2>2, SharedAssumption
  <1>12. \A j \in DOMAIN Line : j > Len(Line) - M => j > Len(Line) - L
    BY <1>5, <1>11
  <1>13. Holds(M)'
    <2>1. CASE M = L
      BY <1>3, <1>4, <2>1 DEF RingInv, Holds, Ahead, Whole
    <2>2. CASE M = 0
      <3>1. \A i : i \notin 0 .. 0 - 1
        OBVIOUS
      <3>2. tail_' = Ahead(head_', 0)
        BY <1>3, <1>11, <2>2 DEF RingInv, Holds, Ahead
      <3>3. QED
        BY <1>4, <1>5, <2>2, <3>1, <3>2 DEF Holds, Ahead
    <2>3. QED
      BY <1>11, <2>1, <2>2
  <1>14. Ordered(M)'
    BY <1>4, <1>10, <1>12 DEF RingInv, Ordered, Whole
  <1>15. Kept(M)'
    <2>1. SUFFICES ASSUME config_.is_thread_safe, ~config_.overwrite_when_full
                   PROVE  /\ Len(Line) = Len(delivered') + L + 0
                          /\ \A i \in DOMAIN delivered' : delivered'[i] = Whole(Line[i])
      BY <1>2, <1>4, <1>11 DEF Kept, Whole
    <2>2. /\ Len(Line) = Len(delivered) + L + 1
          /\ \A i \in DOMAIN delivered : delivered[i] = Whole(Line[i])
      BY <1>2, <2>1 DEF RingInv, Kept
    <2>3. \A i \in DOMAIN delivered' : delivered'[i] = Whole(Line[i])
      BY <1>7, <1>8, <1>9, <2>1, <2>2
    <2>4. QED
      BY <1>6, <1>8, <2>2, <2>3
  <1>16. Flagged(M)'
    BY <1>2, <1>3, <1>11 DEF Flagged
  <1>17. Producing(M)' /\ Consuming(M)'
    BY <1>2 DEF Producing, Consuming, Filling, Placed, Copying
  <1>18. QED
    BY <1>13, <1>14, <1>15, <1>16, <1>17 DEF RingInv

-----------------------------------------------------------------------------
(* The queue.                                                              *)

\* A new queue is empty.
LEMMA QueueInvInit == Init => QueueInv
  <1> SUFFICES ASSUME Init PROVE QueueInv
    OBVIOUS
  <1>1. BufLen \in Nat \ {0} /\ MaxElements \in Nat /\ 0 \in Slots /\ 0 \in 0 .. MaxElements /\ 0 \in 0 .. BufLen
    BY SharedAssumption DEF Slots
  <1>2. Whole(0) \in (0 .. MaxElements) \X (0 .. MaxElements)
    BY <1>1 DEF Whole
  <1>3. TypeOK
    BY <1>1, <1>2 DEF Init, TypeOK
  <1>4. Histories
    BY DEF Init, Histories
  <1>5. Discipline
    BY SharedAssumption DEF Init, Discipline, Users, Filling, Placed, Taking
  <1>6. /\ \A u \in Producers : pc[u] = "idle"
        /\ \A u \in Consumers : pc[u] = "idle"
    BY DEF Init, Users
  <1>7. ~Enqueuing(Placed) /\ ~Enqueuing(Filling) /\ ~Enqueuing(Copying) /\ ~Dequeuing(Handing)
    BY <1>6 DEF Enqueuing, Dequeuing, Placed, Filling, Copying, Handing
  <1>8. Line = <<>> /\ Len(Line) = 0 /\ DOMAIN Line = {} /\ delivered = <<>> /\ Len(delivered) = 0 /\ DOMAIN delivered = {}
    BY <1>7 DEF Line, Init
  <1>9. Holds(0)
    <2>1. tail_ = Ahead(head_, 0)
      BY <1>1, AheadIs DEF Init
    <2>2. \A i : i \notin 0 .. 0 - 1
      OBVIOUS
    <2>3. QED
      BY <1>8, <2>1, <2>2 DEF Holds
  <1>10. Ordered(0) /\ Kept(0)
    BY <1>7, <1>8 DEF Ordered, Kept
  <1>11. Flagged(0)
    BY <1>1, <1>7 DEF Init, Flagged
  <1>12. Producing(0) /\ Consuming(0)
    BY <1>6 DEF Producing, Consuming, Filling, Placed, Copying
  <1>13. QED
    BY <1>1, <1>3, <1>4, <1>5, <1>9, <1>10, <1>11, <1>12 DEF QueueInv, RingInv

\* Every step keeps the ring a part of the line.
LEMMA QueueInvStep ==
  ASSUME SafeSharing, QueueInv, [Next]_vars
  PROVE  QueueInv'
  <1>1. CASE UNCHANGED vars
    <2>1. TypeOK' /\ Histories' /\ Discipline'
      BY <1>1 DEF vars, queue, locals, history, QueueInv, TypeOK, Histories, Discipline
    <2>2. \A L \in 0 .. BufLen : RingInv(L) => RingInv(L)'
      <3>1. /\ Enqueuing(Filling)' <=> Enqueuing(Filling)
            /\ Enqueuing(Placed)' <=> Enqueuing(Placed)
            /\ Enqueuing(Copying)' <=> Enqueuing(Copying)
            /\ Dequeuing(Handing)' <=> Dequeuing(Handing)
        BY <1>1 DEF vars, locals, Enqueuing, Dequeuing
      <3>2. Line' = Line /\ Given' = Given
        BY <1>1, <3>1 DEF vars, history, Line, Given
      <3>3. \A L \in 0 .. BufLen : Holds(L) => Holds(L)'
        BY <1>1, <3>2 DEF vars, queue, Holds, Ahead, Whole
      <3>31. \A L \in 0 .. BufLen : Ordered(L) => Ordered(L)'
        BY <1>1, <3>2 DEF vars, history, Ordered, Whole
      <3>32. \A L \in 0 .. BufLen : Kept(L) => Kept(L)'
        BY <1>1, <3>1, <3>2 DEF vars, queue, history, Kept, Whole
      <3>4. \A L \in 0 .. BufLen : Flagged(L) => Flagged(L)'
        BY <1>1, <3>1 DEF vars, queue, Flagged
      <3>5. \A L \in 0 .. BufLen : Producing(L) => Producing(L)'
        BY <1>1 DEF vars, queue, locals, history, Producing, Whole, IncrementIndex
      <3>6. \A L \in 0 .. BufLen : Consuming(L) => Consuming(L)'
        BY <1>1, <3>2 DEF vars, queue, locals, history, Consuming, Whole, IncrementIndex
      <3>7. ASSUME NEW L \in 0 .. BufLen, RingInv(L) PROVE RingInv(L)'
        <4>1. Holds(L) /\ Ordered(L) /\ Kept(L) /\ Flagged(L) /\ Producing(L) /\ Consuming(L)
          BY <3>7 DEF RingInv
        <4>2. Holds(L)' /\ Ordered(L)' /\ Kept(L)'
          BY <3>3, <3>31, <3>32, <4>1
        <4>3. Flagged(L)' /\ Producing(L)' /\ Consuming(L)'
          BY <3>4, <3>5, <3>6, <4>1
        <4>4. QED
          BY <4>2, <4>3 DEF RingInv
      <3>8. QED
        BY <3>7
    <2>3. QED
      BY <2>1, <2>2 DEF QueueInv
  <1>2. ASSUME NEW u \in Users, Enqueue(u) \/ Dequeue(u) PROVE QueueInv'
    <2>1. TypeOK' /\ Histories' /\ Discipline'
      BY <1>2, TypesKept, DisciplineKept DEF QueueInv
    <2>2. PICK L \in 0 .. BufLen : RingInv(L)
      BY DEF QueueInv
    <2>3. TypeOK /\ Histories /\ Discipline
      BY DEF QueueInv
    <2>4. \E M \in 0 .. BufLen : RingInv(M)'
      <3>1. CASE EnqueueLooks(u)
        BY <2>1, <2>2, <2>3, <3>1, EnqueueLooksKeeps
      <3>2. CASE EnqueueEvicted(u)
        BY <2>1, <2>2, <2>3, <3>2, EnqueueEvictedKeeps
      <3>3. CASE EnqueueCopyFirst(u) \/ EnqueueCopySecond(u)
        BY <2>1, <2>2, <2>3, <3>3, EnqueueCopiesKeeps
      <3>4. CASE EnqueueStoreTail(u)
        BY <2>1, <2>2, <2>3, <3>4, EnqueueStoreTailKeeps
      <3>5. CASE EnqueueSetFlag(u) \/ EnqueueNotFull(u)
        BY <2>1, <2>2, <2>3, <3>5, EnqueueReturnsKeeps
      <3>6. CASE DequeueLooks(u)
        BY <2>1, <2>2, <2>3, <3>6, DequeueLooksKeeps
      <3>7. CASE DequeueStoreHead(u)
        BY <2>1, <2>2, <2>3, <3>7, DequeueStoreHeadKeeps
      <3>8. CASE DequeueClearFlag(u)
        BY <2>1, <2>2, <2>3, <3>8, DequeueClearFlagKeeps
      <3>9. QED
        BY <1>2, <3>1, <3>2, <3>3, <3>4, <3>5, <3>6, <3>7, <3>8 DEF Enqueue, Dequeue, EnqueueLooks, DequeueLooks
    <2>5. QED
      BY <2>1, <2>4 DEF QueueInv
  <1>3. QED
    BY <1>1, <1>2 DEF Next

\* At rest the ring's elements are what LengthUnlocked counts.
LEMMA RestContents ==
  ASSUME TypeOK, Histories, NEW L \in 0 .. BufLen, RingInv(L), AtRest
  PROVE  /\ LengthUnlocked = L /\ Line = accepted /\ ~Dequeuing(Handing)
         /\ \A i \in 1 .. L : Contents[i] = Whole(accepted[Len(accepted) - L + i])
  <1>1. /\ \A u \in Producers : pc[u] = "idle"
        /\ \A u \in Consumers : pc[u] = "idle"
    BY DEF AtRest, Users
  <1>2. ~Enqueuing(Placed) /\ ~Enqueuing(Copying) /\ ~Dequeuing(Handing)
    BY <1>1 DEF Enqueuing, Dequeuing, Placed, Copying, Handing
  <1>3. Line = accepted
    BY <1>2 DEF Line
  <1>4. is_full_ <=> L = BufLen
    BY <1>2 DEF RingInv, Flagged
  <1>5. head_ \in Slots /\ tail_ \in Slots /\ tail_ = Ahead(head_, L) /\ is_full_ \in BOOLEAN
    BY DEF TypeOK, RingInv, Holds
  <1>6. LengthUnlocked = L
    BY <1>4, <1>5, SharedAssumption DEF LengthUnlocked, Ahead, Slots
  <1>7. ASSUME NEW i \in 1 .. L PROVE Contents[i] = Whole(accepted[Len(accepted) - L + i])
    <2>1. head_ + i - 1 \in Nat /\ head_ + i - 1 < 2 * BufLen /\ i - 1 \in 0 .. L - 1
      BY <1>5, SharedAssumption DEF Slots
    <2>2. (head_ + i - 1) % BufLen = Ahead(head_, i - 1)
      BY <1>5, <2>1, Remainder, SharedAssumption DEF Ahead, Slots
    <2>3. buffer[Ahead(head_, i - 1)] = Whole(Line[Len(Line) - L + 1 + (i - 1)])
      BY <2>1 DEF RingInv, Holds
    <2>4. Len(Line) - L + 1 + (i - 1) = Len(Line) - L + i
      BY <2>1, LineTypes
    <2>5. QED
      BY <1>3, <1>6, <2>2, <2>3, <2>4 DEF Contents
  <1>8. QED
    BY <1>2, <1>3, <1>6, <1>7

\* A sequence is the function of its places.
LEMMA IsASeqFunction ==
  ASSUME NEW S, NEW s \in Seq(S)
  PROVE  s = [i \in 1 .. Len(s) |-> s[i]]
  OBVIOUS

\* A ring that holds the end of the line hands it out intact.
LEMMA QueueInvIntact == QueueInv => DeliveredIntact
  <1> SUFFICES ASSUME QueueInv PROVE DeliveredIntact
    OBVIOUS
  <1>1. PICK L \in 0 .. BufLen : RingInv(L)
    BY DEF QueueInv
  <1>2. TypeOK /\ Histories
    BY DEF QueueInv
  <1>3. accepted \in Seq(Nat) /\ delivered \in Seq(Nat \X Nat)
        /\ Len(delivered) \in Nat /\ DOMAIN delivered = 1 .. Len(delivered)
        /\ Len(accepted) \in Nat /\ DOMAIN accepted = 1 .. Len(accepted)
    BY <1>2 DEF Histories
  <1>4. NoTornElement
    <2>1. Given \in Int /\ Given <= MaxElements
      BY <1>2, SharedAssumption DEF Given, TypeOK
    <2>2. \A i \in DOMAIN delivered : delivered[i][1] \in Elements
      BY <1>1, <2>1, SharedAssumption DEF RingInv, Ordered, Elements
    <2>3. QED
      BY <1>1, <2>2 DEF RingInv, Ordered, NoTornElement
  <1>5. InOrderAndOnce
    BY <1>1 DEF RingInv, Ordered, InOrderAndOnce
  <1>6. LockedKeepsAccepted
    <2> SUFFICES ASSUME config_.is_thread_safe, ~config_.overwrite_when_full, AtRest
                 PROVE  [i \in DOMAIN accepted |-> Whole(accepted[i])] = delivered \o Contents
      BY DEF LockedKeepsAccepted, NothingLost
    <2>1. /\ LengthUnlocked = L /\ Line = accepted /\ ~Dequeuing(Handing)
          /\ \A i \in 1 .. L : Contents[i] = Whole(accepted[Len(accepted) - L + i])
      BY <1>1, <1>2, RestContents
    <2>2. /\ Len(accepted) = Len(delivered) + L + 0
          /\ \A i \in DOMAIN delivered : delivered[i] = Whole(accepted[i])
      BY <1>1, <2>1 DEF RingInv, Kept
    <2> DEFINE contents == [i \in 1 .. L |-> Whole(accepted[Len(accepted) - L + i])]
    <2>3. Contents = contents
      BY <2>1 DEF Contents
    <2>4. contents \in Seq(Nat \X Nat) /\ Len(contents) = L
      <3>1. \A i \in 1 .. L : Len(accepted) - L + i \in DOMAIN accepted
        BY <1>3, <2>2
      <3>2. \A i \in 1 .. L : Whole(accepted[Len(accepted) - L + i]) \in Nat \X Nat
        BY <1>3, <3>1 DEF Whole
      <3>3. QED
        BY <3>2, SharedAssumption
    <2> HIDE DEF contents
    <2>5. /\ Len(delivered \o contents) = Len(accepted)
          /\ delivered \o contents \in Seq(Nat \X Nat)
          /\ \A i \in 1 .. Len(accepted) : (delivered \o contents)[i] =
                IF i <= Len(delivered) THEN delivered[i] ELSE contents[i - Len(delivered)]
      <3> DEFINE pairs == Nat \X Nat
      <3>1. delivered \in Seq(pairs) /\ contents \in Seq(pairs)
        BY <1>3, <2>4
      <3> HIDE DEF pairs
      <3>2. /\ delivered \o contents \in Seq(pairs)
            /\ Len(delivered \o contents) = Len(delivered) + Len(contents)
            /\ \A i \in 1 .. Len(delivered) + Len(contents) : (delivered \o contents)[i] =
                  IF i <= Len(delivered) THEN delivered[i] ELSE contents[i - Len(delivered)]
        BY <3>1, ConcatProperties
      <3>3. Len(delivered) + Len(contents) = Len(accepted)
        BY <1>3, <2>2, <2>4
      <3>4. QED
        BY <3>2, <3>3 DEF pairs
    <2>6. ASSUME NEW i \in 1 .. Len(accepted) PROVE (delivered \o contents)[i] = Whole(accepted[i])
      <3>1. CASE i <= Len(delivered)
        <4>1. i \in DOMAIN delivered
          BY <1>3, <3>1
        <4>2. (delivered \o contents)[i] = delivered[i]
          BY <2>5, <3>1
        <4>3. QED
          BY <2>2, <4>1, <4>2
      <3>2. CASE ~(i <= Len(delivered))
        <4>1. i - Len(delivered) \in 1 .. L /\ Len(accepted) - L + (i - Len(delivered)) = i
          BY <1>3, <2>2, <3>2
        <4>2. QED
          BY <2>5, <3>2, <4>1 DEF contents
      <3>3. QED
        BY <3>1, <3>2
    <2>7. delivered \o contents = [i \in 1 .. Len(accepted) |-> Whole(accepted[i])]
      <3> DEFINE s == delivered \o contents
      <3>1. s = [i \in 1 .. Len(s) |-> s[i]]
        BY <2>5, IsASeqFunction
      <3>2. Len(s) = Len(accepted) /\ \A i \in 1 .. Len(accepted) : s[i] = Whole(accepted[i])
        BY <2>5, <2>6
      <3> HIDE DEF s
      <3>3. s = [i \in 1 .. Len(accepted) |-> Whole(accepted[i])]
        BY <3>1, <3>2
      <3>4. QED
        BY <3>3 DEF s
    <2>8. QED
      BY <1>3, <2>3, <2>7
  <1>7. HoldsNewest
    BY <1>1, <1>2, RestContents DEF HoldsNewest
  <1>8. QED
    BY <1>4, <1>5, <1>6, <1>7 DEF DeliveredIntact

\* With a mutex, or with a single consumer that the producer interrupts, for
\* any number of users and slots: elements come out whole, in order and once,
\* and a queue with a mutex keeps track of what it has accepted.
THEOREM SharedQueueIntact ==
  ASSUME SafeSharing
  PROVE  Spec => []DeliveredIntact
  <1>1. QueueInv /\ [Next]_vars => QueueInv'
    BY QueueInvStep
  <1>2. QED
    BY <1>1, QueueInvInit, QueueInvIntact, PTL DEF Spec

-----------------------------------------------------------------------------
(* The clients of a pool.                                                  *)

\* The records of the two tasks, which PoolTypeOK leaves open.
TasksType ==
    /\ http \in [op : {"idle", "add", "store_fd", "store_time", "remove",
                       "free", "forget", "close"},
                 fd : Fds \cup {Nowhere}, slot : ClientSlots \cup {0}]
    /\ server \in [loop : {"update", "broadcast"},
                   op : {"look", "late", "send", "give_up", "remove",
                         "free", "forget", "trigger_close"},
                   at : ClientSlots, fd : Fds \cup {Nowhere}, slot : ClientSlots \cup {0}]

PoolTypes == PoolTypeOK /\ TasksType

\* The HTTP server's task is busy with a session that is open.
BusyWithSession == ~HTTPIdle => http.fd \in sessions

\* A slot that has its descriptor; one just taken has its predecessor's until
\* StoreFd, unless the task that freed it has come round to forgetting that.
Filled(i) ==
    in_use[i] /\ client_fd[i] # Nowhere /\ ~(http.op = "store_fd" /\ http.slot = i)

FilledAreOpen == \A i \in ClientSlots : Filled(i) => client_fd[i] \in sessions

FilledDiffer ==
    \A i, j \in ClientSlots :
        Filled(i) /\ Filled(j) /\ i # j => client_fd[i] # client_fd[j]

\* Before its slot is filled and after it is freed, a session has no slot ...
WithoutSlot ==
    http.op \in {"add", "store_fd", "forget", "close"} =>
        \A i \in ClientSlots : Filled(i) => client_fd[i] # http.fd

\* ... and while it is being freed only that one.
OnlyThatSlot ==
    http.op = "free" =>
        \A i \in ClientSlots : Filled(i) /\ i # http.slot => client_fd[i] # http.fd

PoolInv ==
    /\ PoolTypes /\ BusyWithSession
    /\ FilledAreOpen /\ FilledDiffer /\ WithoutSlot /\ OnlyThatSlot

-----------------------------------------------------------------------------
(* The search for a slot.                                                  *)

\* A search over some slots finds one of them.  Slots are compared by the
\* intervals that end in them, which strict inclusion orders well.
LEMMA SearchFinds ==
  ASSUME NEW S \in SUBSET ClientSlots, S # {}
  PROVE  FirstOf(S) \in S /\ FirstOf(S) # 0
<1> DEFINE Heads == {1 .. i : i \in S}
<1>1. S \subseteq Nat /\ S \subseteq ClientSlots
  BY PoolAssumption DEF ClientSlots
<1>2. IsFiniteSet(ClientSlots)
  BY FS_Interval, PoolAssumption DEF ClientSlots
<1>3. IsWellFoundedOn(StrictSubsetOrdering(ClientSlots), SUBSET ClientSlots)
  BY <1>2, FS_StrictSubsetOrderingWellFounded, FS_FiniteSubsetsOfFinite
<1>4. \A i \in S : 1 .. i \in SUBSET ClientSlots
  BY PoolAssumption DEF ClientSlots
<1>5. PICK i \in S : \A j \in S : ~(<<1 .. j, 1 .. i>> \in StrictSubsetOrdering(ClientSlots))
  <2>1. Heads \subseteq SUBSET ClientSlots /\ Heads # {}
    BY <1>4
  <2>2. \E x \in Heads : \A y \in Heads : ~(<<y, x>> \in StrictSubsetOrdering(ClientSlots))
    <3> HIDE DEF Heads
    <3> QED BY <1>3, <2>1, WFMin
  <2>3. QED
    BY <2>2
<1>6. \A j \in S : i <= j
  <2>1. SUFFICES ASSUME NEW j \in S, j < i PROVE FALSE
    BY <1>1
  <2>2. 1 .. j \subseteq 1 .. i /\ i \in 1 .. i /\ i \notin 1 .. j
    BY <2>1, <1>1, PoolAssumption DEF ClientSlots
  <2>3. 1 .. j \in SUBSET ClientSlots
    BY <1>4
  <2>4. 1 .. i \in SUBSET ClientSlots
    BY <1>4
  <2>5. <<1 .. j, 1 .. i>> \in StrictSubsetOrdering(ClientSlots)
    BY <2>2, <2>3, <2>4 DEF StrictSubsetOrdering
  <2>6. QED
    BY <2>5, <1>5
<1>7. FirstOf(S) \in S
  BY <1>6 DEF FirstOf
<1>8. QED
  BY <1>7, PoolAssumption DEF ClientSlots

\* RemoveClient finds a slot of the session if there is one.
LEMMA SlotFound ==
  ASSUME NEW fd
  PROVE  /\ SlotOf(fd) = 0 => \A i \in ClientSlots : ~(in_use[i] /\ client_fd[i] = fd)
         /\ SlotOf(fd) # 0 => /\ SlotOf(fd) \in ClientSlots
                              /\ in_use[SlotOf(fd)] /\ client_fd[SlotOf(fd)] = fd
<1> DEFINE S == {i \in ClientSlots : in_use[i] /\ client_fd[i] = fd}
<1>1. S \in SUBSET ClientSlots /\ SlotOf(fd) = FirstOf(S)
  BY DEF SlotOf
<1>2. CASE S = {}
  <2>1. FirstOf(S) = 0
    BY <1>2 DEF FirstOf
  <2>2. QED
    BY <1>1, <1>2, <2>1
<1>3. CASE S # {}
  <2>1. FirstOf(S) \in S /\ FirstOf(S) # 0
    <3> HIDE DEF S
    <3> QED BY <1>1, <1>3, SearchFinds
  <2>2. QED
    BY <1>1, <2>1
<1>4. QED
  BY <1>2, <1>3

\* AddClient finds a free slot or none.
LEMMA FreeFound ==
  LET free == FirstOf({i \in ClientSlots : ~in_use[i]})
  IN  free # 0 => free \in ClientSlots /\ ~in_use[free]
<1> DEFINE S == {i \in ClientSlots : ~in_use[i]}
<1>1. S \in SUBSET ClientSlots
  OBVIOUS
<1>2. CASE S = {}
  BY <1>2 DEF FirstOf
<1>3. CASE S # {}
  <2>1. FirstOf(S) \in S
    <3> HIDE DEF S
    <3> QED BY <1>1, <1>3, SearchFinds
  <2>2. QED
    BY <2>1
<1>4. QED
  BY <1>2, <1>3

-----------------------------------------------------------------------------
(* The invariant.                                                          *)

\* A pool starts without sessions.
LEMMA PoolStarts == PoolInit => PoolInv
<1> SUFFICES ASSUME PoolInit PROVE PoolInv
  OBVIOUS
<1>1. PoolTypes
  BY PoolAssumption DEF PoolInit, PoolTypes, PoolTypeOK, TasksType, ClientSlots, FirstSlot
<1>2. QED
  BY <1>1 DEF PoolInit, PoolInv, BusyWithSession, HTTPIdle, FilledAreOpen, FilledDiffer,
     Filled, WithoutSlot, OnlyThatSlot

\* What a step of the other task may do to the slots: free one, or forget
\* its descriptor.
LEMMA SlotsOnlyEmptied ==
  ASSUME PoolInv, UNCHANGED <<sessions, http>>,
         \A i \in ClientSlots : /\ in_use'[i] => in_use[i]
                                /\ client_fd'[i] \in {client_fd[i], Nowhere}
  PROVE  /\ BusyWithSession'
         /\ FilledAreOpen' /\ FilledDiffer' /\ WithoutSlot' /\ OnlyThatSlot'
<1>1. \A i \in ClientSlots : Filled(i)' => Filled(i) /\ client_fd'[i] = client_fd[i]
  BY DEF Filled
<1>2. QED
  BY <1>1 DEF PoolInv, BusyWithSession, HTTPIdle, FilledAreOpen, FilledDiffer,
     WithoutSlot, OnlyThatSlot

\* The HTTP server's task leaves each slot to its session.
LEMMA HTTPKeepsInv ==
  ASSUME PoolInv,
         \/ Connect
         \/ \E fd \in Fds : EndSession(fd)
         \/ HTTPGoesOn
  PROVE  PoolInv'
<1> USE DEF HTTPDoes, slotVars, httpVars
<1> DEFINE Rest == /\ BusyWithSession'
                   /\ FilledAreOpen' /\ FilledDiffer' /\ WithoutSlot' /\ OnlyThatSlot'
<1>1. CASE Connect
  <2>1. PoolTypes'
    <3> PICK fd \in Fds \ sessions :
            /\ sessions' = sessions \cup {fd}
            /\ http' = [op |-> "add", fd |-> fd, slot |-> 0]
      BY <1>1 DEF Connect
    <3>1. PoolTypeOK'
      BY <1>1, PoolAssumption DEF Connect, PoolInv, PoolTypes, PoolTypeOK
    <3>2. TasksType'
      BY <1>1 DEF Connect, PoolInv, PoolTypes, TasksType
    <3>3. QED
      BY <3>1, <3>2 DEF PoolTypes
  <2>2. Rest
    BY <1>1 DEF Connect, PoolInv, PoolTypes, PoolTypeOK, TasksType, HTTPIdle,
       BusyWithSession, FilledAreOpen, FilledDiffer, Filled, WithoutSlot, OnlyThatSlot
  <2>3. QED
    BY <2>1, <2>2 DEF PoolInv
<1>2. CASE \E fd \in Fds : EndSession(fd)
  <2>1. PoolTypes'
    BY <1>2 DEF EndSession, PoolInv, PoolTypes, PoolTypeOK, TasksType, HTTPIdle
  <2>2. Rest
    BY <1>2 DEF EndSession, PoolInv, HTTPIdle,
       BusyWithSession, FilledAreOpen, FilledDiffer, Filled, WithoutSlot, OnlyThatSlot
  <2>3. QED
    BY <2>1, <2>2 DEF PoolInv
<1>3. CASE AddClient
  <2> DEFINE free == FirstOf({i \in ClientSlots : ~in_use[i]})
  <2>1. free # 0 => free \in ClientSlots /\ ~in_use[free]
    BY FreeFound
  <2> HIDE DEF free
  <2>2. /\ http.op = "add"
        /\ IF free = 0
           THEN HTTPDoes("remove") /\ UNCHANGED in_use
           ELSE /\ in_use' = [in_use EXCEPT ![free] = TRUE]
                /\ http' = [http EXCEPT !.op = "store_fd", !.slot = free]
        /\ UNCHANGED <<client_fd, outdated, closing, sessions, connects, server>>
    BY <1>3 DEF AddClient, free
  <2>3. PoolTypes'
    <3>1. CASE free = 0
      BY <2>2, <3>1 DEF PoolInv, PoolTypes, PoolTypeOK, TasksType
    <3>2. CASE free # 0
      BY ZenonT(40), <2>1, <2>2, <3>2 DEF PoolInv, PoolTypes, PoolTypeOK, TasksType
    <3>3. QED
      BY <3>1, <3>2
  <2>4. \A i \in ClientSlots : Filled(i)' => Filled(i)
    BY <2>1, <2>2 DEF PoolInv, PoolTypes, PoolTypeOK, TasksType, Filled
  <2>5. /\ http'.fd = http.fd /\ http'.op \in {"remove", "store_fd"}
        /\ UNCHANGED <<client_fd, sessions>> /\ http.op = "add"
    BY <2>2 DEF PoolInv, PoolTypes, TasksType
  <2>6. Rest
    BY <2>4, <2>5 DEF PoolInv, BusyWithSession, HTTPIdle, FilledAreOpen, FilledDiffer,
       WithoutSlot, OnlyThatSlot
  <2>7. QED
    BY <2>3, <2>6 DEF PoolInv
<1>4. CASE StoreFd
  <2>1. PoolTypes'
    BY <1>4 DEF StoreFd, PoolInv, PoolTypes, PoolTypeOK, TasksType, BusyWithSession, HTTPIdle
  <2>2. \A i \in ClientSlots : Filled(i)' =>
           \/ i = http.slot /\ client_fd'[i] = http.fd
           \/ i # http.slot /\ Filled(i) /\ client_fd'[i] = client_fd[i]
    BY <1>4 DEF StoreFd, PoolInv, PoolTypes, PoolTypeOK, TasksType, Filled
  <2>3. /\ http'.fd = http.fd /\ http'.op = "store_time" /\ http.op = "store_fd"
        /\ UNCHANGED sessions
    BY <1>4 DEF StoreFd, PoolInv, PoolTypes, TasksType
  <2>4. Rest
    BY <2>2, <2>3 DEF PoolInv, BusyWithSession, HTTPIdle, FilledAreOpen, FilledDiffer,
       WithoutSlot, OnlyThatSlot
  <2>5. QED
    BY <2>1, <2>4 DEF PoolInv
<1>5. CASE StoreTime
  <2>1. PoolTypes'
    BY <1>5 DEF StoreTime, PoolInv, PoolTypes, PoolTypeOK, TasksType
  <2>2. Rest
    BY <1>5 DEF StoreTime, PoolInv, PoolTypes, PoolTypeOK, TasksType, HTTPIdle,
       BusyWithSession, FilledAreOpen, FilledDiffer, Filled, WithoutSlot, OnlyThatSlot
  <2>3. QED
    BY <2>1, <2>2 DEF PoolInv
<1>6. CASE WSCloseFd
  <2>1. /\ SlotOf(http.fd) = 0 =>
              \A i \in ClientSlots : ~(in_use[i] /\ client_fd[i] = http.fd)
        /\ SlotOf(http.fd) # 0 => /\ SlotOf(http.fd) \in ClientSlots
                                  /\ in_use[SlotOf(http.fd)]
                                  /\ client_fd[SlotOf(http.fd)] = http.fd
    BY SlotFound
  <2>2. PoolTypes'
    BY ZenonT(40), <1>6, <2>1 DEF WSCloseFd, PoolInv, PoolTypes, PoolTypeOK, TasksType
  <2>3. http'.fd = http.fd /\ http.op = "remove" /\ UNCHANGED <<in_use, client_fd, sessions>>
    BY <1>6 DEF WSCloseFd, PoolInv, PoolTypes, TasksType
  <2>4. \/ http'.op = "close" /\ SlotOf(http.fd) = 0
        \/ http'.op = "free" /\ SlotOf(http.fd) # 0 /\ http'.slot = SlotOf(http.fd)
    <3>1. CASE SlotOf(http.fd) = 0
      BY <1>6, <3>1 DEF WSCloseFd, PoolInv, PoolTypes, TasksType
    <3>2. CASE SlotOf(http.fd) # 0
      BY <1>6, <2>1, <3>2 DEF WSCloseFd, PoolInv, PoolTypes, TasksType
    <3>3. QED
      BY <3>1, <3>2
  <2>5. \A i \in ClientSlots : Filled(i)' <=> Filled(i)
    BY <2>3, <2>4 DEF Filled
  <2>6. BusyWithSession' /\ FilledAreOpen' /\ FilledDiffer'
    BY <2>3, <2>4, <2>5 DEF PoolInv, BusyWithSession, HTTPIdle, FilledAreOpen, FilledDiffer
  <2>7. WithoutSlot'
    BY <2>1, <2>3, <2>4, <2>5 DEF WithoutSlot, Filled
  <2>8. OnlyThatSlot'
    <3>1. SUFFICES ASSUME http'.op = "free", NEW i \in ClientSlots, Filled(i), i # http'.slot
                   PROVE  client_fd[i] # http.fd
      BY <2>3, <2>5 DEF OnlyThatSlot
    <3>2. http'.slot \in ClientSlots /\ in_use[http'.slot] /\ client_fd[http'.slot] = http.fd
      BY <2>1, <2>4, <3>1
    <3>3. http.fd # Nowhere
      BY <2>3, PoolAssumption
         DEF PoolInv, PoolTypes, PoolTypeOK, BusyWithSession, HTTPIdle
    <3>4. Filled(http'.slot)
      BY <2>3, <3>2, <3>3 DEF Filled
    <3>5. QED
      BY <3>1, <3>2, <3>4 DEF PoolInv, FilledDiffer
  <2>9. QED
    BY <2>2, <2>6, <2>7, <2>8 DEF PoolInv
<1>7. CASE FreeClosed
  <2>1. PoolTypes'
    BY <1>7 DEF FreeClosed, PoolInv, PoolTypes, PoolTypeOK, TasksType
  <2>2. \A i \in ClientSlots : Filled(i)' => Filled(i) /\ i # http.slot
    BY <1>7 DEF FreeClosed, PoolInv, PoolTypes, PoolTypeOK, TasksType, Filled
  <2>3. /\ http'.fd = http.fd /\ http'.op = "forget" /\ http.op = "free"
        /\ UNCHANGED <<client_fd, sessions>>
    BY <1>7 DEF FreeClosed, PoolInv, PoolTypes, TasksType
  <2>4. Rest
    BY <2>2, <2>3 DEF PoolInv, BusyWithSession, HTTPIdle, FilledAreOpen, FilledDiffer,
       WithoutSlot, OnlyThatSlot
  <2>5. QED
    BY <2>1, <2>4 DEF PoolInv
<1>8. CASE ForgetClosed
  <2>1. PoolTypes'
    BY <1>8 DEF ForgetClosed, PoolInv, PoolTypes, PoolTypeOK, TasksType
  <2>2. \A i \in ClientSlots : Filled(i)' => Filled(i) /\ client_fd'[i] = client_fd[i]
    BY <1>8 DEF ForgetClosed, PoolInv, PoolTypes, PoolTypeOK, TasksType, Filled
  <2>3. /\ http'.fd = http.fd /\ http'.op = "close" /\ http.op = "forget"
        /\ UNCHANGED sessions
    BY <1>8 DEF ForgetClosed, PoolInv, PoolTypes, TasksType
  <2>4. Rest
    BY <2>2, <2>3 DEF PoolInv, BusyWithSession, HTTPIdle, FilledAreOpen, FilledDiffer,
       WithoutSlot, OnlyThatSlot
  <2>5. QED
    BY <2>1, <2>4 DEF PoolInv
<1>9. CASE CloseSocket
  <2>1. PoolTypes'
    BY <1>9 DEF CloseSocket, PoolInv, PoolTypes, PoolTypeOK, TasksType
  <2>2. \A i \in ClientSlots : Filled(i)' <=> Filled(i)
    BY <1>9 DEF CloseSocket, PoolInv, PoolTypes, TasksType, Filled
  <2>3. /\ http'.op = "idle" /\ http.op = "close" /\ UNCHANGED client_fd
        /\ sessions' = sessions \ {http.fd}
    BY <1>9 DEF CloseSocket, PoolInv, PoolTypes, TasksType
  <2>4. Rest
    BY <2>2, <2>3 DEF PoolInv, BusyWithSession, HTTPIdle, FilledAreOpen, FilledDiffer,
       WithoutSlot, OnlyThatSlot
  <2>5. QED
    BY <2>1, <2>4 DEF PoolInv
<1>10. QED
  BY <1>1, <1>2, <1>3, <1>4, <1>5, <1>6, <1>7, <1>8, <1>9 DEF HTTPGoesOn

\* So does the task that prunes and broadcasts.
LEMMA ServerKeepsInv ==
  ASSUME PoolInv, ServerGoesOn
  PROVE  PoolInv'
<1> USE DEF ServerDoes, ServerLeaves, slotVars, httpVars
<1>1. NextSlot \in [loop : {"update", "broadcast"}, op : {"look"}, at : ClientSlots,
                    fd : {Nowhere}, slot : {0}]
  BY PoolAssumption DEF PoolInv, PoolTypes, TasksType, NextSlot, FirstSlot, ClientSlots
<1>2. SlotOf(server.fd) \in ClientSlots \cup {0}
  BY SlotFound
<1>3. PoolTypes' /\ UNCHANGED <<sessions, http>>
  <2>1. CASE ReadTime
    BY <2>1, <1>1 DEF ReadTime, PoolInv, PoolTypes, PoolTypeOK, TasksType
  <2>2. CASE ReadInUse
    BY <2>2, <1>1 DEF ReadInUse, PoolInv, PoolTypes, PoolTypeOK, TasksType
  <2>3. CASE Send
    BY <2>3, <1>1 DEF Send, PoolInv, PoolTypes, PoolTypeOK, TasksType
  <2>4. CASE ReadFd
    BY <2>4 DEF ReadFd, PoolInv, PoolTypes, PoolTypeOK, TasksType
  <2>5. CASE RemoveClient
    BY ZenonT(40), <2>5, <1>2 DEF RemoveClient, PoolInv, PoolTypes, PoolTypeOK, TasksType
  <2>6. CASE FreeSlot
    BY <2>6 DEF FreeSlot, PoolInv, PoolTypes, PoolTypeOK, TasksType
  <2>7. CASE ForgetFd
    BY <2>7 DEF ForgetFd, PoolInv, PoolTypes, PoolTypeOK, TasksType
  <2>8. CASE TriggerClose
    BY <2>8, <1>1 DEF TriggerClose, PoolInv, PoolTypes, PoolTypeOK, TasksType
  <2>9. QED
    BY <2>1, <2>2, <2>3, <2>4, <2>5, <2>6, <2>7, <2>8 DEF ServerGoesOn
<1>4. \A i \in ClientSlots : /\ in_use'[i] => in_use[i]
                             /\ client_fd'[i] \in {client_fd[i], Nowhere}
  BY DEF ServerGoesOn, ReadTime, ReadInUse, Send, ReadFd, RemoveClient, FreeSlot,
     ForgetFd, TriggerClose, PoolInv, PoolTypes, PoolTypeOK
<1>5. QED
  BY <1>3, <1>4, SlotsOnlyEmptied DEF PoolInv

\* Together they keep the invariant, ...
LEMMA PoolKeepsInv == PoolInv /\ [PoolNext]_poolVars => PoolInv'
<1> SUFFICES ASSUME PoolInv, [PoolNext]_poolVars PROVE PoolInv'
  OBVIOUS
<1>1. CASE Connect \/ (\E fd \in Fds : EndSession(fd)) \/ HTTPGoesOn
  BY <1>1, HTTPKeepsInv
<1>2. CASE ServerGoesOn
  BY <1>2, ServerKeepsInv
<1>3. CASE UpdateActivityTimer \/ TimePasses \/ UNCHANGED poolVars
  <2>1. /\ UNCHANGED <<in_use, client_fd, closing, sessions, http, connects, server>>
        /\ outdated' \in [ClientSlots -> BOOLEAN]
    BY <1>3 DEF UpdateActivityTimer, TimePasses, poolVars, slotVars, httpVars,
       PoolInv, PoolTypes, PoolTypeOK
  <2>2. PoolTypes'
    BY <2>1 DEF PoolInv, PoolTypes, PoolTypeOK, TasksType
  <2>3. QED
    BY <2>1, <2>2, SlotsOnlyEmptied DEF PoolInv
<1>4. QED
  BY <1>1, <1>2, <1>3 DEF PoolNext

-----------------------------------------------------------------------------

\* ... which therefore always holds.
LEMMA PoolIsSound == PoolSpec => []PoolInv
<1>1. QED
  BY PoolStarts, PoolKeepsInv, PTL DEF PoolSpec

\* The types of the slots, the sessions and the two tasks (websocket_server.hh).
THEOREM PoolTypeCorrect == PoolSpec => []PoolTypeOK
<1>1. PoolInv => PoolTypeOK
  BY DEF PoolInv, PoolTypes
<1>2. QED
  BY <1>1, PoolIsSound, PTL

\* A slot in use has the descriptor of an open session that no other slot in use
\* has, whenever the HTTP server's task is between two handlers: AddClient and
\* RemoveClient of two tasks, without a lock, leave no slot behind that would
\* send one client's messages to another.
THEOREM SlotsBelongToSessions == PoolSpec => []SlotsOfSessions
<1>1. PoolInv => SlotsOfSessions
  <2> SUFFICES ASSUME PoolInv, HTTPIdle PROVE SlotsOfSessions
    BY DEF SlotsOfSessions
  <2>1. \A i \in ClientSlots : Filled(i) <=> in_use[i] /\ client_fd[i] # Nowhere
    BY DEF Filled, HTTPIdle
  <2>2. QED
    BY <2>1 DEF PoolInv, FilledAreOpen, FilledDiffer, SlotsOfSessions
<1>2. QED
  BY <1>1, PoolIsSound, PTL

-----------------------------------------------------------------------------
(* The reporting queues.                                                   *)

QueuesType ==
    /\ queued \in [Kinds -> Nat]
    /\ \A k \in Kinds : queued[k] <= Depth(k)
    /\ flushes \in Nat

\* As many queues are empty as iterations are over.
EmptiedInTurn ==
    /\ flushes > 1 => queued[1] = 0
    /\ flushes > 2 => queued[2] = 0
    /\ flushes > 3 => queued[3] = 0

FlushInv == QueuesType /\ EmptiedInTurn

-----------------------------------------------------------------------------
(* Arithmetic of a queue and an array.                                     *)

\* As many packets as the quotient says fit.
LEMMA QuotientFits ==
    ASSUME NEW a \in Nat, NEW b \in Nat \ {0}, NEW q \in Nat, q <= a \div b
    PROVE  q * b <= a
<1>1. a \div b \in Nat /\ (a \div b) * b <= a
  BY Z3
<1>2. q * b <= (a \div b) * b
  BY <1>1, Z3
<1>. QED  BY <1>1, <1>2, Z3

\* What does not fit is more than the quotient.
LEMMA QuotientBelow ==
    ASSUME NEW a \in Nat, NEW b \in Nat \ {0}, NEW q \in Nat, ~(q * b <= a)
    PROVE  a \div b <= q
<1>1. a \div b \in Nat /\ (a \div b) * b <= a
  BY Z3
<1>2. SUFFICES ASSUME q < a \div b PROVE FALSE
  BY <1>1, Z3
<1>3. q * b <= (a \div b) * b
  BY <1>1, <1>2, Z3
<1>. QED  BY <1>1, <1>3, Z3

LEMMA DepthNat == \A k \in Kinds : Depth(k) \in Nat /\ Size[k] \in Nat \ {0} /\ ArrayLen \in Nat
<1>. SUFFICES ASSUME NEW k \in Kinds PROVE Depth(k) \in Nat /\ Size[k] \in Nat \ {0} /\ ArrayLen \in Nat
  OBVIOUS
<1>1. Size[k] \in Nat \ {0} /\ ArrayLen \in Nat
  BY ReportingAssumption
<1>. QED  BY <1>1, Z3 DEF Depth

\* PackRawPacketsBuffer takes no more than there is, and no more than fits.
LEMMA PackedBounds ==
    ASSUME QueuesType, NEW k \in Kinds, NEW room \in Nat
    PROVE  /\ Packed(k, room) \in 0 .. queued[k]
           /\ Packed(k, room) * Size[k] \in 0 .. room
<1>1. Size[k] \in Nat \ {0} /\ queued[k] \in Nat
  BY DepthNat DEF QueuesType
<1>2. CASE queued[k] * Size[k] <= room
  <2>1. queued[k] * Size[k] \in Nat
    BY <1>1, Z3
  <2>. QED  BY <1>1, <1>2, <2>1 DEF Packed
<1>3. CASE ~(queued[k] * Size[k] <= room)
  <2>1. room \div Size[k] \in Nat /\ (room \div Size[k]) * Size[k] \in 0 .. room
    BY <1>1, Z3
  <2>2. room \div Size[k] <= queued[k]
    BY <1>1, <1>3, QuotientBelow
  <2>. QED  BY <1>1, <1>3, <2>1, <2>2 DEF Packed
<1>. QED  BY <1>2, <1>3

\* A queue that has the array to itself is emptied.
LEMMA AloneFits ==
    ASSUME QueuesType, NEW k \in Kinds
    PROVE  Packed(k, ArrayLen) = queued[k]
<1>1. ArrayLen \in Nat /\ Size[k] \in Nat \ {0} /\ queued[k] \in Nat /\ queued[k] <= ArrayLen \div Size[k]
  BY DepthNat DEF QueuesType, Depth
<1>2. queued[k] * Size[k] <= ArrayLen
  BY <1>1, QuotientFits
<1>. QED  BY <1>2 DEF Packed

LEMMA NothingPacked ==
    ASSUME QueuesType, NEW k \in Kinds, queued[k] = 0, NEW room \in Nat
    PROVE  Packed(k, room) = 0 /\ Packed(k, room) * Size[k] = 0
<1>1. Size[k] \in Nat
  BY DepthNat
<1>2. 0 * Size[k] = 0
  BY <1>1, Z3
<1>. QED  BY <1>2 DEF Packed
-----------------------------------------------------------------------------

\* One iteration of ForceFlushRawPackets.
LEMMA FlushStep == FlushInv /\ Flush => FlushInv'
<1>. SUFFICES ASSUME FlushInv, Flush PROVE FlushInv'
  OBVIOUS
<1>. DEFINE modeS == Packed(1, ArrayLen)
            room2 == ArrayLen - modeS * Size[1]
            adsb == Packed(2, room2)
            room3 == room2 - adsb * Size[2]
            uplink == Packed(3, room3)
<1>0. QueuesType /\ EmptiedInTurn
  BY DEF FlushInv
<1>1. /\ flushes \in Nat /\ flushes > 0 /\ flushes' = flushes + 1
      /\ queued' = [queued EXCEPT ![1] = @ - modeS, ![2] = @ - adsb, ![3] = @ - uplink]
  BY <1>0 DEF Flush, Flushing, QueuesType
<1>2. ArrayLen \in Nat /\ 1 \in Kinds /\ 2 \in Kinds /\ 3 \in Kinds
  BY DepthNat DEF Kinds
<1>3. modeS \in 0 .. queued[1] /\ modeS * Size[1] \in 0 .. ArrayLen
  BY <1>0, <1>2, PackedBounds
<1>4. room2 \in Nat
  <2>. HIDE DEF modeS
  <2>. QED  BY <1>2, <1>3
<1>5. adsb \in 0 .. queued[2] /\ adsb * Size[2] \in 0 .. room2
  BY <1>0, <1>2, <1>4, PackedBounds
<1>6. room3 \in Nat
  <2>. HIDE DEF adsb, room2
  <2>. QED  BY <1>4, <1>5
<1>7. uplink \in 0 .. queued[3]
  BY <1>0, <1>2, <1>6, PackedBounds
<1>8. /\ queued' \in [Kinds -> Nat]
      /\ queued'[1] = queued[1] - modeS /\ queued'[2] = queued[2] - adsb
      /\ queued'[3] = queued[3] - uplink
  <2>. HIDE DEF modeS, adsb, uplink
  <2>. QED  BY <1>0, <1>1, <1>2, <1>3, <1>5, <1>7 DEF QueuesType, Kinds
<1>9. \A k \in Kinds : queued'[k] <= queued[k]
  <2>. HIDE DEF modeS, adsb, uplink
  <2>. QED  BY <1>0, <1>2, <1>3, <1>5, <1>7, <1>8 DEF QueuesType, Kinds
<1>10. QueuesType'
  <2>1. \A k \in Kinds : queued'[k] <= Depth(k)
    BY <1>0, <1>8, <1>9, DepthNat DEF QueuesType
  <2>. QED  BY <1>1, <1>8, <2>1 DEF QueuesType, Depth
<1>11. queued'[1] = 0
  <2>1. modeS = queued[1] /\ queued[1] \in Nat
    BY <1>0, <1>2, AloneFits DEF QueuesType
  <2>. QED  BY <1>8, <2>1
<1>12. flushes > 1 => room2 = ArrayLen /\ queued'[2] = 0
  <2>. SUFFICES ASSUME flushes > 1 PROVE room2 = ArrayLen /\ queued'[2] = 0
    OBVIOUS
  <2>1. modeS * Size[1] = 0
    BY <1>0, <1>2, NothingPacked DEF EmptiedInTurn
  <2>2. room2 = ArrayLen
    BY <1>2, <2>1
  <2>3. adsb = queued[2] /\ queued[2] \in Nat
    BY <1>0, <1>2, <2>2, AloneFits DEF QueuesType
  <2>. QED  BY <1>8, <2>2, <2>3
<1>13. flushes > 2 => queued'[3] = 0
  <2>. SUFFICES ASSUME flushes > 2 PROVE queued'[3] = 0
    OBVIOUS
  <2>1. adsb * Size[2] = 0
    BY <1>0, <1>2, <1>4, NothingPacked DEF EmptiedInTurn
  <2>2. flushes > 1
    BY <1>1
  <2>3. room3 = ArrayLen
    <3>1. room2 = ArrayLen
      BY <1>12, <2>2
    <3>. QED  BY <1>2, <2>1, <3>1
  <2>4. uplink = queued[3] /\ queued[3] \in Nat
    BY <1>0, <1>2, <2>3, AloneFits DEF QueuesType
  <2>. QED  BY <1>8, <2>4
<1>14. EmptiedInTurn'
  <2>. HIDE DEF room2
  <2>. QED  BY <1>1, <1>11, <1>12, <1>13 DEF EmptiedInTurn
<1>. QED  BY <1>10, <1>14 DEF FlushInv

\* A queue that is filled while nothing is flushed.
LEMMA FillStep == FlushInv /\ (Ingest \/ EnqueuePending) => FlushInv'
<1>. SUFFICES ASSUME FlushInv, Ingest \/ EnqueuePending PROVE FlushInv'
  OBVIOUS
<1>0. QueuesType /\ flushes = 0
  BY DEF FlushInv, QueuesType, Ingest, EnqueuePending, Flushing
<1>1. flushes' \in {0, 1}
  BY <1>0 DEF Ingest, EnqueuePending
<1>2. queued' \in [Kinds -> Nat] /\ \A k \in Kinds : queued'[k] <= Depth(k)
  <2>0. /\ queued \in [Kinds -> Nat]
        /\ \A k \in Kinds : queued[k] <= Depth(k) /\ Depth(k) \in Nat
    BY <1>0, DepthNat DEF QueuesType
  <2>1. CASE queued' = queued
    BY <2>0, <2>1
  <2>2. ASSUME NEW n \in Nat, NEW i \in Kinds, n <= Depth(i), queued' = [queued EXCEPT ![i] = n]
        PROVE  queued' \in [Kinds -> Nat] /\ \A k \in Kinds : queued'[k] <= Depth(k)
    <3>1. queued' \in [Kinds -> Nat]
      BY <2>0, <2>2
    <3>2. ASSUME NEW k \in Kinds PROVE queued'[k] <= Depth(k)
      <4>1. queued'[k] = IF k = i THEN n ELSE queued[k]
        BY <2>0, <2>2
      <4>. QED  BY <2>0, <2>2, <4>1
    <3>. QED  BY <3>1, <3>2
  <2>3. CASE ingesting \in Kinds /\ queued[ingesting] # Depth(ingesting)
             /\ queued' = [queued EXCEPT ![ingesting] = @ + 1]
    <3>1. queued[ingesting] + 1 \in Nat /\ queued[ingesting] + 1 <= Depth(ingesting)
      BY <2>0, <2>3
    <3>. QED  BY <2>2, <2>3, <3>1
  <2>4. CASE queued' = [queued EXCEPT ![ingesting] = IF @ < Depth(ingesting) THEN @ + 1 ELSE @]
    <3>1. CASE ingesting \in Kinds
      <4>. DEFINE n == IF queued[ingesting] < Depth(ingesting) THEN queued[ingesting] + 1
                       ELSE queued[ingesting]
      <4>1. n \in Nat /\ n <= Depth(ingesting)
        BY <2>0, <3>1
      <4>2. queued' = [queued EXCEPT ![ingesting] = n]
        BY <2>4
      <4>. QED  BY <2>2, <3>1, <4>1, <4>2
    <3>2. CASE ingesting \notin Kinds
      <4>1. queued' = queued
        BY <2>0, <2>4, <3>2
      <4>. QED  BY <2>1, <4>1
    <3>. QED  BY <3>1, <3>2
  <2>. QED  BY <2>1, <2>3, <2>4 DEF Ingest, EnqueuePending
<1>3. QueuesType'
  BY <1>1, <1>2 DEF QueuesType, Depth
<1>. QED  BY <1>1, <1>3 DEF FlushInv, EmptiedInTurn

LEMMA FlushInvStep == FlushInv /\ [ReportingNext]_reportingVars => FlushInv'
<1>. SUFFICES ASSUME FlushInv, [ReportingNext]_reportingVars PROVE FlushInv'
  OBVIOUS
<1>1. CASE UNCHANGED <<queued, flushes>>
  BY <1>1 DEF FlushInv, QueuesType, EmptiedInTurn, Depth
<1>2. CASE Ingest \/ EnqueuePending
  BY <1>2, FillStep
<1>3. CASE FlushInTime \/ EndFlush
  <2>1. queued' = queued /\ flushes' \in {0, 1}
    BY <1>3 DEF FlushInTime, EndFlush
  <2>. QED  BY <2>1 DEF FlushInv, QueuesType, EmptiedInTurn, Depth
<1>4. CASE Flush
  BY <1>4, FlushStep
<1>5. BeginIngest \/ NextLoop \/ Prune \/ ChangeProtocol \/ IntervalPasses \/ UNCHANGED reportingVars
          => UNCHANGED <<queued, flushes>>
  BY DEF BeginIngest, NextLoop, Prune, ChangeProtocol, IntervalPasses, reportingVars, flushVars
<1>. QED  BY <1>1, <1>2, <1>3, <1>4, <1>5 DEF ReportingNext

LEMMA FlushInvInit == ReportingInit => FlushInv
<1>. SUFFICES ASSUME ReportingInit PROVE FlushInv
  OBVIOUS
<1>1. queued = [k \in Kinds |-> 0] /\ flushes = 0
  BY DEF ReportingInit
<1>2. QueuesType
  BY <1>1, DepthNat DEF QueuesType
<1>. QED  BY <1>1, <1>2 DEF FlushInv, EmptiedInTurn

-----------------------------------------------------------------------------

\* kMaxForceFlushIterations iterations always suffice: a flush ends with all
\* three queues empty, for packets and arrays of any size.
THEOREM FlushAlwaysMakesRoom == ReportingSpec => FlushMakesRoom
<1>1. FlushInv /\ [ReportingNext]_reportingVars =>
          [Flushing /\ flushes' = 0 => AllEmpty]_reportingVars
  <2>. SUFFICES ASSUME FlushInv, ReportingNext, Flushing, flushes' = 0 PROVE AllEmpty
    OBVIOUS
  <2>1. flushes \in Nat /\ flushes > 0
    BY DEF FlushInv, QueuesType, Flushing
  <2>2. EndFlush
    <3>1. flushes' # flushes
      BY <2>1
    <3>2. CASE Flush
      BY <2>1, <3>2 DEF Flush
    <3>. QED  BY <2>1, <3>1, <3>2
              DEF ReportingNext, BeginIngest, Ingest, EnqueuePending, NextLoop, FlushInTime,
                  Prune, ChangeProtocol, IntervalPasses, flushVars, Flushing
  <2>3. CASE flushes > MaxFlushes
    <3>1. flushes > 3
      BY <2>1, <2>3, ReportingAssumption
    <3>. QED  BY <2>1, <3>1 DEF FlushInv, EmptiedInTurn, AllEmpty, Kinds
  <2>. QED  BY <2>2, <2>3 DEF EndFlush
<1>. QED  BY <1>1, FlushInvInit, FlushInvStep, PTL DEF ReportingSpec, FlushMakesRoom

-----------------------------------------------------------------------------
(* Rounds.                                                                 *)

\* The snapshot names every aircraft of S.
Names(uids, S) == \A a \in S : \E i \in 1 .. Len(uids) : uids[i] = a

\* What of S stands below the index has been reported on.
Reports(uids, to, sofar, S) == \A i \in 1 .. Len(uids) : i <= to /\ uids[i] \in S => uids[i] \in sofar

RoundType ==
    /\ dict \subseteq Craft /\ stayed \subseteq dict
    /\ sinks \subseteq Protocols /\ active \subseteq Protocols
    /\ report_uids_ \in Seq(Craft)
    /\ report_index \in [Protocols -> Nat]
    /\ reported \in [Protocols -> SUBSET Craft]

RoundInv ==
    /\ RoundType
    /\ active # {} => Names(report_uids_, stayed)
    /\ \A p \in active : Reports(report_uids_, report_index[p], reported[p], stayed)

\* A snapshot lists the whole dictionary.
LEMMA SnapshotNamesAll ==
    ASSUME dict \subseteq Craft, NEW uids \in Snapshots
    PROVE  uids \in Seq(Craft) /\ Names(uids, dict)
<1>. DEFINE n == Cardinality(dict)
<1>1. IsFiniteSet(dict) /\ n \in Nat
  <2>1. IsFiniteSet(Craft)
    BY ReportingAssumption
  <2>2. IsFiniteSet(dict)
    BY <2>1, FS_Subset
  <2>. QED  BY <2>2, FS_CardinalityType
<1>2. uids \in [1 .. n -> dict] /\ \A i, j \in 1 .. n : uids[i] = uids[j] => i = j
  BY DEF Snapshots
<1>3. uids \in Injection(1 .. n, dict)
  BY <1>2 DEF Injection, IsInjective
<1>4. Cardinality(1 .. n) = n
  <2>. HIDE DEF n
  <2>1. Cardinality(1 .. n) = IF 1 > n THEN 0 ELSE n - 1 + 1
    BY <1>1, FS_Interval
  <2>. QED  BY <1>1, <2>1
<1>5. uids \in Surjection(1 .. n, dict)
  BY <1>1, <1>3, <1>4, FS_Injection
<1>6. uids \in [1 .. n -> Craft]
  BY <1>2
<1>7. uids \in Seq(Craft) /\ Len(uids) = n
  <2>. HIDE DEF n
  <2>1. uids \in Seq(Craft)
    BY <1>1, <1>6, SeqDef
  <2>2. DOMAIN uids = 1 .. n
    BY <1>6
  <2>. QED  BY <1>1, <2>1, <2>2, LenProperties
<1>8. \A a \in dict : \E i \in 1 .. n : uids[i] = a
  BY <1>5 DEF Surjection
<1>. QED  BY <1>7, <1>8 DEF Names

\* What one call of the reports is about: "acting" are in the round and at
\* "from" in the snapshot uids, have reported on sofar, and get to "to".
Call(acting, uids, from, sofar, to) ==
    /\ acting \subseteq sinks
    /\ acting # {} => Names(uids, stayed')
    /\ \A p \in acting : Reports(uids, from[p], sofar[p], stayed')
    /\ report_uids_' = uids
    /\ report_index' = to
    /\ reported' = [p \in Protocols |-> sofar[p] \cup Sent(uids, from[p], to[p])]
    /\ active' = {p \in acting : p \notin sinks \/ to[p] < Len(uids)}
    /\ \A p \in Protocols : EndsRound(p) => p \in acting

\* A flush makes a call, the first one of a round or another one.
LEMMA FlushCalls ==
    ASSUME RoundInv, Flush
    PROVE  /\ dict' = dict /\ sinks' = sinks /\ stayed' \in SUBSET dict
           /\ \E acting \in SUBSET Protocols, uids \in Seq(Craft),
                 from \in [Protocols -> Nat], sofar \in [Protocols -> SUBSET Craft] :
                 \E to \in Reached(acting, from, Len(uids)) : Call(acting, uids, from, sofar, to)
<1>0. RoundType /\ dict' = dict /\ sinks' = sinks /\ UpdateReporting
  BY DEF RoundInv, Flush
<1>1. CASE BeginsRound
  <2>1. PICK uids \in Snapshots : Advance(sinks, uids, FirstIndex, NoneReported)
    BY <1>0, <1>1 DEF UpdateReporting
  <2>2. stayed' = dict
    BY <1>0, <1>1 DEF UpdateReporting
  <2>3. uids \in Seq(Craft) /\ Names(uids, dict)
    BY <1>0, SnapshotNamesAll DEF RoundType
  <2>4. Len(uids) \in Nat
    BY <2>3, LenProperties
  <2>5. /\ FirstIndex \in [Protocols -> Nat] /\ NoneReported \in [Protocols -> SUBSET Craft]
        /\ \A p \in sinks : FirstIndex[p] = 0
    BY <1>0 DEF RoundType, FirstIndex, NoneReported
  <2>6. \A p \in sinks : Reports(uids, FirstIndex[p], NoneReported[p], stayed')
    BY <2>4, <2>5 DEF Reports
  <2>7. PICK to \in Reached(sinks, FirstIndex, Len(uids)) :
           /\ report_uids_' = uids
           /\ report_index' = to
           /\ reported' = [p \in Protocols |->
                             NoneReported[p] \cup Sent(uids, FirstIndex[p], to[p])]
           /\ active' = {p \in sinks : p \notin sinks \/ to[p] < Len(uids)}
    BY <2>1 DEF Advance
  <2>8. Names(uids, stayed') /\ \A p \in Protocols : EndsRound(p) => p \in sinks
    BY <2>2, <2>3 DEF EndsRound
  <2>9. Call(sinks, uids, FirstIndex, NoneReported, to)
    BY <2>6, <2>7, <2>8 DEF Call
  <2>10. sinks \in SUBSET Protocols
    BY <1>0 DEF RoundType
  <2>. HIDE DEF Call, FirstIndex, NoneReported
  <2>11. \E t \in Reached(sinks, FirstIndex, Len(uids)) : Call(sinks, uids, FirstIndex, NoneReported, t)
    BY <2>9
  <2>12. stayed' \in SUBSET dict
    BY <2>2
  <2>13. \E acting \in SUBSET Protocols, u \in Seq(Craft),
            from \in [Protocols -> Nat], sofar \in [Protocols -> SUBSET Craft] :
            \E t \in Reached(acting, from, Len(u)) : Call(acting, u, from, sofar, t)
    <3>. USE <2>3, <2>5, <2>10
    <3>. WITNESS sinks \in SUBSET Protocols, uids \in Seq(Craft),
                 FirstIndex \in [Protocols -> Nat], NoneReported \in [Protocols -> SUBSET Craft]
    <3>. QED  BY <2>11
  <2>. QED  BY <1>0, <2>12, <2>13
<1>2. CASE ~BeginsRound
  <2>1. Advance(StillActive, report_uids_, report_index, reported) /\ stayed' = stayed
    BY <1>0, <1>2 DEF UpdateReporting
  <2>2. StillActive \subseteq active /\ StillActive \subseteq sinks /\ StillActive \in SUBSET Protocols
    BY <1>0 DEF RoundType, StillActive
  <2>3. /\ StillActive # {} => Names(report_uids_, stayed')
        /\ \A p \in StillActive : Reports(report_uids_, report_index[p], reported[p], stayed')
    BY <2>1, <2>2 DEF RoundInv
  <2>4. PICK to \in Reached(StillActive, report_index, Len(report_uids_)) :
           /\ report_uids_' = report_uids_
           /\ report_index' = to
           /\ reported' = [p \in Protocols |->
                             reported[p] \cup Sent(report_uids_, report_index[p], to[p])]
           /\ active' = {p \in StillActive : p \notin sinks \/ to[p] < Len(report_uids_)}
    BY <2>1 DEF Advance
  <2>5. \A p \in Protocols : EndsRound(p) => p \in StillActive
    BY <1>2 DEF EndsRound, StillActive
  <2>6. Call(StillActive, report_uids_, report_index, reported, to)
    BY <2>2, <2>3, <2>4, <2>5 DEF Call
  <2>7. stayed' \in SUBSET dict
    BY <1>0, <2>1 DEF RoundType
  <2>8. /\ report_uids_ \in Seq(Craft) /\ report_index \in [Protocols -> Nat]
        /\ reported \in [Protocols -> SUBSET Craft]
    BY <1>0 DEF RoundType
  <2>9. \E acting \in SUBSET Protocols, u \in Seq(Craft),
           from \in [Protocols -> Nat], sofar \in [Protocols -> SUBSET Craft] :
           \E t \in Reached(acting, from, Len(u)) : Call(acting, u, from, sofar, t)
    <3>. HIDE DEF Call
    <3>1. \E t \in Reached(StillActive, report_index, Len(report_uids_)) :
             Call(StillActive, report_uids_, report_index, reported, t)
      BY <2>6
    <3>. USE <2>2, <2>8
    <3>. WITNESS StillActive \in SUBSET Protocols, report_uids_ \in Seq(Craft),
                 report_index \in [Protocols -> Nat], reported \in [Protocols -> SUBSET Craft]
    <3>. QED  BY <3>1
  <2>. QED  BY <1>0, <2>7, <2>9
<1>. QED  BY <1>1, <1>2

\* Whoever was in the round after a flush either is in it still or has
\* reported on all that stayed.
LEMMA RoundStep ==
    RoundInv /\ Flush => /\ RoundInv'
                         /\ \A p \in Protocols : EndsRound(p) => stayed' \subseteq reported'[p]
<1>. SUFFICES ASSUME RoundInv, Flush
              PROVE  /\ RoundInv'
                     /\ \A p \in Protocols : EndsRound(p) => stayed' \subseteq reported'[p]
  OBVIOUS
<1>0. dict' = dict /\ sinks' = sinks /\ stayed' \in SUBSET dict
  BY FlushCalls
<1>1. PICK acting \in SUBSET Protocols, uids \in Seq(Craft),
           from \in [Protocols -> Nat], sofar \in [Protocols -> SUBSET Craft] :
           \E to \in Reached(acting, from, Len(uids)) : Call(acting, uids, from, sofar, to)
  BY FlushCalls
<1>2. PICK to \in Reached(acting, from, Len(uids)) : Call(acting, uids, from, sofar, to)
  BY <1>1
<1>3. Len(uids) \in Nat
  BY LenProperties
<1>4. to \in [Protocols -> Nat]
  BY <1>3 DEF Reached
<1>5. reported' \in [Protocols -> SUBSET Craft]
  <2>1. \A i \in 1 .. Len(uids) : uids[i] \in Craft
    BY ElementOfSeq
  <2>2. \A p \in Protocols : \A i \in (from[p] + 1) .. to[p] : i \in 1 .. Len(uids)
    BY <1>3 DEF Reached
  <2>3. \A p \in Protocols : Sent(uids, from[p], to[p]) \subseteq Craft
    BY <2>1, <2>2 DEF Sent
  <2>. QED  BY <1>2, <2>3 DEF Call
<1>6. ASSUME NEW p \in acting PROVE Reports(uids, to[p], reported'[p], stayed')
  <2>. SUFFICES ASSUME NEW i \in 1 .. Len(uids), i <= to[p], uids[i] \in stayed'
                PROVE  uids[i] \in reported'[p]
    BY DEF Reports
  <2>1. p \in Protocols /\ from[p] \in Nat /\ to[p] \in Nat /\ i \in Nat
    BY <1>3, <1>4
  <2>2. CASE i <= from[p]
    <3>1. uids[i] \in sofar[p]
      BY <1>2, <2>2 DEF Call, Reports
    <3>. QED  BY <1>2, <2>1, <3>1 DEF Call
  <2>3. CASE ~(i <= from[p])
    <3>1. i \in (from[p] + 1) .. to[p]
      BY <2>1, <2>3
    <3>2. uids[i] \in dict
      BY <1>0
    <3>3. uids[i] \in Sent(uids, from[p], to[p])
      BY <3>1, <3>2 DEF Sent
    <3>. QED  BY <1>2, <2>1, <3>3 DEF Call
  <2>. QED  BY <2>2, <2>3
<1>7. ASSUME NEW p \in acting \ active' PROVE stayed' \subseteq reported'[p]
  <2>1. p \in Protocols /\ to[p] \in 0 .. Len(uids) /\ ~(to[p] < Len(uids))
    BY <1>2 DEF Reached, Call
  <2>2. to[p] = Len(uids)
    BY <1>3, <2>1
  <2>. SUFFICES ASSUME NEW a \in stayed' PROVE a \in reported'[p]
    OBVIOUS
  <2>3. PICK i \in 1 .. Len(uids) : uids[i] = a
    BY <1>2 DEF Names, Call
  <2>4. i <= to[p]
    BY <1>3, <2>2, <2>3
  <2>. QED  BY <1>6, <2>3, <2>4 DEF Reports
<1>8. RoundType'
  BY <1>0, <1>2, <1>4, <1>5 DEF RoundInv, RoundType, Call
<1>9. RoundInv'
  <2>1. active' \subseteq acting /\ report_uids_' = uids /\ report_index' = to
    BY <1>2 DEF Call
  <2>2. active' # {} => Names(report_uids_', stayed')
    BY <1>2, <2>1 DEF Call
  <2>3. \A p \in active' : Reports(report_uids_', report_index'[p], reported'[p], stayed')
    BY <1>6, <2>1
  <2>. QED  BY <1>8, <2>2, <2>3 DEF RoundInv, Names, Reports
<1>10. ASSUME NEW p \in Protocols, EndsRound(p) PROVE stayed' \subseteq reported'[p]
  <2>1. p \in acting \ active'
    BY <1>2, <1>10 DEF Call, EndsRound
  <2>. QED  BY <1>7, <2>1
<1>. QED  BY <1>9, <1>10

\* The dictionary changes: an aircraft that goes has not stayed.
LEMMA DictStep ==
    ASSUME RoundInv, NEW d \in SUBSET Craft, ChangeDict(d), UNCHANGED <<sinks, roundVars>>
    PROVE  RoundInv'
<1>1. dict' = d /\ stayed' = stayed \cap d
  BY DEF ChangeDict
<1>2. RoundType'
  BY <1>1 DEF RoundInv, RoundType, roundVars
<1>3. /\ report_uids_' = report_uids_ /\ active' = active /\ report_index' = report_index
      /\ reported' = reported
  BY DEF roundVars
<1>. QED  BY <1>1, <1>2, <1>3 DEF RoundInv, Names, Reports

LEMMA IngestedCraft ==
    ASSUME dict \subseteq Craft, NEW a \in Craft, NEW d \in Heard(a)
    PROVE  d \in SUBSET Craft
BY DEF Heard

LEMMA RoundInvStep == RoundInv /\ [ReportingNext]_reportingVars => RoundInv'
<1>. SUFFICES ASSUME RoundInv, [ReportingNext]_reportingVars PROVE RoundInv'
  OBVIOUS
<1>0. dict \subseteq Craft
  BY DEF RoundInv, RoundType
<1>1. CASE UNCHANGED <<dict, sinks, report_uids_, active, report_index, reported, stayed>>
  BY <1>1 DEF RoundInv, RoundType
<1>2. CASE Ingest
  <2>1. PICK d \in {dict} \cup UNION {Heard(a) : a \in Craft} : ChangeDict(d)
    BY <1>2 DEF Ingest
  <2>2. d \in SUBSET Craft
    BY <1>0, IngestedCraft
  <2>. QED  BY <1>2, <2>1, <2>2, DictStep DEF Ingest
<1>3. CASE Prune
  <2>1. PICK a \in dict : ChangeDict(dict \ {a})
    BY <1>3 DEF Prune
  <2>. QED  BY <1>0, <1>3, <2>1, DictStep DEF Prune
<1>4. CASE ChangeProtocol
  <2>1. /\ sinks' \subseteq Protocols
        /\ UNCHANGED <<dict, report_uids_, active, report_index, reported, stayed>>
    BY <1>4 DEF ChangeProtocol, roundVars
  <2>. QED  BY <2>1 DEF RoundInv, RoundType
<1>5. CASE Flush
  BY <1>5, RoundStep
<1>6. BeginIngest \/ EnqueuePending \/ NextLoop \/ FlushInTime \/ EndFlush \/ IntervalPasses
         \/ UNCHANGED reportingVars
      => UNCHANGED <<dict, sinks, report_uids_, active, report_index, reported, stayed>>
  BY DEF BeginIngest, EnqueuePending, NextLoop, FlushInTime, EndFlush, IntervalPasses,
         reportingVars, roundVars
<1>. QED  BY <1>1, <1>2, <1>3, <1>4, <1>5, <1>6 DEF ReportingNext

LEMMA RoundInvInit == ReportingInit => RoundInv
<1>. SUFFICES ASSUME ReportingInit PROVE RoundInv
  OBVIOUS
<1>1. << >> \in Seq(Craft)
  BY EmptySeq
<1>. QED  BY <1>1 DEF ReportingInit, RoundInv, RoundType, NoneReported

\* A protocol that ends its round has reported on every aircraft that was there
\* all the while, for any number of aircraft, protocols and calls, and whatever
\* part of the snapshot fits into the time of each.
THEOREM RoundsCoverTheDictionary == ReportingSpec => RoundCoversDictionary
<1>1. RoundInv /\ [ReportingNext]_reportingVars =>
          [\A p \in Protocols : EndsRound(p) => stayed' \subseteq reported'[p]]_reportingVars
  BY RoundStep DEF EndsRound
<1>. QED  BY <1>1, RoundInvInit, RoundInvStep, PTL DEF ReportingSpec, RoundCoversDictionary

-----------------------------------------------------------------------------
(* Types of the reporting queues and rounds.                               *)

IngestType ==
    /\ ingesting \in 0 .. 3 /\ pending \in BOOLEAN
    /\ pending => ingesting \in Kinds
    /\ flushes \in 0 .. MaxFlushes + 1

WalksWithin == \A p \in Protocols : report_index[p] \in 0 .. Len(report_uids_)

ReportingInv == FlushInv /\ RoundInv /\ IngestType /\ Cardinality(dict) <= MaxCraft /\ WalksWithin

LEMMA IngestTypeStep ==
  ASSUME IngestType, [ReportingNext]_reportingVars
  PROVE  IngestType'
<1>0. MaxFlushes \in Nat /\ MaxFlushes >= 3 /\ Kinds = {1, 2, 3}
  BY ReportingAssumption DEF Kinds
<1>1. CASE UNCHANGED <<ingesting, pending, flushes>>
  BY <1>1 DEF IngestType
<1>2. CASE BeginIngest \/ Ingest \/ EnqueuePending \/ NextLoop
  <2>1. CASE BeginIngest
    BY <1>0, <2>1 DEF BeginIngest, IngestType
  <2>2. CASE Ingest
    <3>1. /\ ingesting' = ingesting /\ ingesting \in Kinds
          /\ (pending' = TRUE /\ flushes' = 1) \/ UNCHANGED <<pending, flushes>>
      BY <2>2 DEF Ingest
    <3>2. 1 \in 0 .. MaxFlushes + 1
      BY <1>0
    <3>. QED
      BY <3>1, <3>2 DEF IngestType
  <2>3. CASE EnqueuePending
    BY <1>0, <2>3 DEF EnqueuePending, IngestType
  <2>4. CASE NextLoop
    <3>1. (ingesting + 1) % 4 \in 0 .. 3
      BY <1>0, <2>4 DEF NextLoop
    <3>. QED
      BY <2>4, <3>1 DEF NextLoop, IngestType
  <2>. QED
    BY <1>2, <2>1, <2>2, <2>3, <2>4
<1>3. CASE FlushInTime \/ Flush \/ EndFlush
  BY <1>0, <1>3 DEF FlushInTime, Flush, EndFlush, Flushing, IngestType
<1>4. CASE Prune \/ ChangeProtocol \/ IntervalPasses
  BY <1>1, <1>4 DEF Prune, ChangeProtocol, IntervalPasses, flushVars
<1>. QED
  BY <1>1, <1>2, <1>3, <1>4 DEF ReportingNext, reportingVars, flushVars

\* An aircraft heard comes in for another one when the dictionary is full.
LEMMA HeardFits ==
  ASSUME dict \subseteq Craft, Cardinality(dict) <= MaxCraft,
         NEW a \in Craft, NEW d \in Heard(a)
  PROVE  Cardinality(d) <= MaxCraft
<1>1. IsFiniteSet(dict) /\ MaxCraft \in Nat
  BY ReportingAssumption, FS_Subset
<1>2. Cardinality(dict) \in Nat
  BY <1>1, FS_CardinalityType
<1>3. CASE d = dict
  BY <1>3
<1>4. CASE a \notin dict /\ Cardinality(dict) < MaxCraft /\ d = dict \cup {a}
  <2>1. Cardinality(d) = Cardinality(dict) + 1
    BY <1>1, <1>4, FS_AddElement
  <2>. QED
    BY <1>1, <1>2, <1>4, <2>1
<1>5. CASE a \notin dict /\ \E b \in dict : d = (dict \ {b}) \cup {a}
  <2>1. PICK b \in dict : d = (dict \ {b}) \cup {a}
    BY <1>5
  <2>2. IsFiniteSet(dict \ {b}) /\ Cardinality(dict \ {b}) = Cardinality(dict) - 1
    BY <1>1, FS_RemoveElement
  <2>3. Cardinality(d) = Cardinality(dict \ {b}) + 1
    BY <1>5, <2>1, <2>2, FS_AddElement
  <2>. QED
    BY <1>1, <1>2, <2>2, <2>3
<1>. QED
  BY <1>3, <1>4, <1>5 DEF Heard

LEMMA CraftStep ==
  ASSUME dict \subseteq Craft, Cardinality(dict) <= MaxCraft, [ReportingNext]_reportingVars
  PROVE  Cardinality(dict') <= MaxCraft
<1>1. CASE dict' = dict
  BY <1>1
<1>2. CASE Ingest
  BY <1>2, HeardFits DEF Ingest, ChangeDict
<1>3. CASE Prune
  <2>1. PICK a \in dict : dict' = dict \ {a}
    BY <1>3 DEF Prune, ChangeDict
  <2>2. IsFiniteSet(dict)
    BY ReportingAssumption, FS_Subset
  <2>3. Cardinality(dict') = Cardinality(dict) - 1 /\ Cardinality(dict) \in Nat
    BY <2>1, <2>2, FS_RemoveElement, FS_CardinalityType
  <2>. QED
    BY <2>3, ReportingAssumption
<1>. QED
  BY <1>1, <1>2, <1>3 DEF ReportingNext, BeginIngest, EnqueuePending, NextLoop, FlushInTime, Flush,
       EndFlush, ChangeProtocol, IntervalPasses, reportingVars

\* No protocol passes the end of the snapshot, an old one or a new one.
LEMMA WalksStep ==
  ASSUME WalksWithin, [ReportingNext]_reportingVars
  PROVE  WalksWithin'
<1>1. CASE UNCHANGED <<report_uids_, report_index>>
  BY <1>1 DEF WalksWithin
<1>2. ASSUME NEW acting, NEW uids, NEW from, NEW sofar, Advance(acting, uids, from, sofar)
      PROVE  WalksWithin'
  <2>1. PICK to \in Reached(acting, from, Len(uids)) : report_uids_' = uids /\ report_index' = to
    BY <1>2 DEF Advance
  <2>2. to \in [Protocols -> 0 .. Len(uids)]
    BY <2>1 DEF Reached
  <2>. QED
    BY <2>1, <2>2 DEF WalksWithin
<1>3. CASE Flush
  BY <1>2, <1>3 DEF Flush, UpdateReporting
<1>. QED
  BY <1>1, <1>3 DEF ReportingNext, BeginIngest, Ingest, EnqueuePending, NextLoop, FlushInTime, Prune,
       EndFlush, ChangeProtocol, IntervalPasses, reportingVars, roundVars

LEMMA ReportingInvInit == ReportingInit => ReportingInv
<1>. SUFFICES ASSUME ReportingInit PROVE ReportingInv
  OBVIOUS
<1>1. IngestType
  <2>1. 0 \in 0 .. MaxFlushes + 1 /\ 0 \in 0 .. 3
    BY ReportingAssumption
  <2>. QED
    BY <2>1 DEF ReportingInit, IngestType
<1>2. Cardinality(dict) <= MaxCraft
  BY ReportingAssumption, FS_EmptySet DEF ReportingInit
<1>3. WalksWithin
  BY DEF ReportingInit, WalksWithin
<1>. QED
  BY <1>1, <1>2, <1>3, FlushInvInit, RoundInvInit DEF ReportingInv

LEMMA ReportingInvStep == ReportingInv /\ [ReportingNext]_reportingVars => ReportingInv'
  BY FlushInvStep, RoundInvStep, IngestTypeStep, CraftStep, WalksStep DEF ReportingInv, RoundInv, RoundType

LEMMA ReportingInvType == ReportingInv => ReportingTypeOK
<1>. SUFFICES ASSUME ReportingInv PROVE ReportingTypeOK
  OBVIOUS
<1>1. \A k \in Kinds : Depth(k) \in Nat /\ queued[k] \in 0 .. Depth(k)
  BY DepthNat DEF ReportingInv, FlushInv, QueuesType
<1>2. active \subseteq Protocols /\ sinks \subseteq Protocols
  BY DEF ReportingInv, RoundInv, RoundType
<1>. QED
  BY <1>1, <1>2 DEF ReportingInv, IngestType, WalksWithin, ReportingTypeOK

\* Every queue of reports stays within its array, a packet waits only inside a
\* loop over a kind, the dictionary within its capacity, and no protocol walks
\* past the end of the snapshot (comms_reporting.cc).
THEOREM ReportingTypes == ReportingSpec => []ReportingTypeOK
<1>. QED
  BY ReportingInvInit, ReportingInvStep, ReportingInvType, PTL DEF ReportingSpec

-----------------------------------------------------------------------------
(* The queue, the reports and the clients together.                        *)

\* The types of the shared queue need no discipline: whatever users do to each
\* other's calls, an index is a slot and a half is data.
LEMMA SharedTypes == Spec => []TypeOK
<1>1. Init => TypeOK /\ Histories
  BY QueueInvInit DEF QueueInv
<1>2. (TypeOK /\ Histories) /\ [Next]_vars => (TypeOK /\ Histories)'
  <2> SUFFICES ASSUME TypeOK, Histories, [Next]_vars PROVE TypeOK' /\ Histories'
    OBVIOUS
  <2>1. CASE Next
    BY <2>1, TypesKept DEF Next
  <2>2. CASE UNCHANGED vars
    BY <2>2 DEF vars, queue, locals, history, TypeOK, Histories
  <2>. QED
    BY <2>1, <2>2
<1>. QED
  BY <1>1, <1>2, PTL DEF Spec

\* A behaviour of the three moves each of them as it moves alone.
LEMMA PartsOfBoth ==
    /\ BothInit => Init /\ ReportingInit /\ PoolInit
    /\ [BothNext]_bothVars => [Next]_vars /\ [ReportingNext]_reportingVars /\ [PoolNext]_poolVars
  BY DEF BothInit, BothNext, bothVars

\* The types of the queue, of the reports and of the clients hold where they
\* are checked together, for every way of sharing the queue.
THEOREM BothTypes == BothSpec => []BothTypeOK
<1>1. BothSpec => Spec /\ ReportingSpec
  BY PartsOfBoth, PTL DEF BothSpec, Spec, ReportingSpec
<1>2. BothSpec => []PoolInv
  BY PartsOfBoth, PoolStarts, PoolKeepsInv, PTL DEF BothSpec
<1>3. TypeOK /\ ReportingTypeOK /\ PoolInv => BothTypeOK
  BY DEF BothTypeOK, PoolInv, PoolTypes
<1>. QED
  BY <1>1, <1>2, <1>3, SharedTypes, ReportingTypes, PTL
=============================================================================
