--------------------------- MODULE PFBQueueProofs ---------------------------
(***************************************************************************)
(* Proofs about PFBQueue for every element type, every buffer length that  *)
(* fits the index type, and both overwrite policies.                       *)
(***************************************************************************)
EXTENDS PFBQueue, SequenceTheorems, TLAPS

\* IncrementIndex is addition modulo the buffer length, once the sum cannot
\* overflow the index type: the single subtraction of line 200 is enough.
LEMMA IncrementWraps ==
    ASSUME NEW i \in Slots, NEW n \in 0 .. BufLen
    PROVE  /\ IncrementIndex(i, n) = IF i + n >= BufLen THEN i + n - BufLen
                                                       ELSE i + n
           /\ IncrementIndex(i, n) \in Slots
<1>1. i + n \in 0 .. IndexModulus - 1
  BY BufLenAssumption DEF Slots
<1>2. \A M \in Nat \ {0} : \A x \in 0 .. M - 1 : x % M = x
  OBVIOUS
<1>3. (i + n) % IndexModulus = i + n
  <2>1. IndexModulus \in Nat \ {0}
    BY BufLenAssumption
  <2> QED
    BY <1>1, <1>2, <2>1
<1>. QED
  BY <1>3, BufLenAssumption DEF IncrementIndex, Slots

\* What Length() returns never exceeds what the buffer holds, and it is where
\* the distance from head_ to tail_ around the ring.
LEMMA LengthBounds ==
    ASSUME TypeOK
    PROVE  /\ LengthUnlocked \in 0 .. BufLen
           /\ (LengthUnlocked = 0) <=> (head_ = tail_ /\ ~is_full_)
           /\ (LengthUnlocked = BufLen) <=> is_full_
           /\ tail_ = IncrementIndex(head_, LengthUnlocked)
<1>1. LengthUnlocked \in 0 .. BufLen
  BY BufLenAssumption DEF TypeOK, Slots, LengthUnlocked
<1>2. IncrementIndex(head_, LengthUnlocked) =
         IF head_ + LengthUnlocked >= BufLen THEN head_ + LengthUnlocked - BufLen
                                             ELSE head_ + LengthUnlocked
  BY <1>1, IncrementWraps DEF TypeOK
<1>. QED
  BY <1>1, <1>2, BufLenAssumption DEF TypeOK, Slots, LengthUnlocked

-----------------------------------------------------------------------------

LEMMA ReturnType ==
    ASSUME NEW ok \in BOOLEAN, NEW e \in Elements \cup {NoElement}
    PROVE  Return(ok, e) \in [ok : BOOLEAN, element : Elements \cup {NoElement}]
  BY DEF Return

LEMMA InitTypeOK == Init => TypeOK
<1>. SUFFICES ASSUME Init PROVE TypeOK
  OBVIOUS
<1>1. ret \in [ok : BOOLEAN, element : Elements \cup {NoElement}]
  BY ReturnType DEF Init
<1>2. 0 \in Slots
  BY BufLenAssumption DEF Slots
<1>3. buffer \in [Slots -> Elements \cup {NoElement}]
  BY DEF Init
<1>4. head_ \in Slots /\ tail_ \in Slots /\ is_full_ \in BOOLEAN /\ head_ = tail_
  BY <1>2 DEF Init
<1>. QED
  BY <1>1, <1>3, <1>4 DEF TypeOK

LEMMA NextTypeOK == TypeOK /\ [Next]_vars => TypeOK'
<1>. SUFFICES ASSUME TypeOK, [Next]_vars PROVE TypeOK'
  OBVIOUS
<1>. USE BufLenAssumption, OverwriteAssumption
<1>. DEFINE Results == [ok : BOOLEAN, element : Elements \cup {NoElement}]
<1>a. \A ok \in BOOLEAN, e \in Elements \cup {NoElement} : Return(ok, e) \in Results
  BY ReturnType
<1>b. IncrementIndex(head_, 1) \in Slots /\ IncrementIndex(tail_, 1) \in Slots
  BY IncrementWraps DEF TypeOK
<1>c. CASE Refuse
  BY <1>a, <1>c DEF Refuse, TypeOK
<1>1. ASSUME NEW e \in Elements, Enqueue(e) PROVE TypeOK'
  <2>1. CASE Store(e)
    <3>1. buffer' \in [Slots -> Elements \cup {NoElement}]
      BY <2>1 DEF Store, TypeOK
    <3>2. head_' \in Slots /\ tail_' \in Slots
      BY <2>1, <1>b DEF Store, TypeOK
    <3>3. is_full_' \in BOOLEAN /\ (is_full_' => head_' = tail_')
      BY <2>1, <1>b DEF Store, TypeOK
    <3>4. ret' \in Results
      BY <2>1, <1>a DEF Store
    <3>. QED
      BY <3>1, <3>2, <3>3, <3>4 DEF TypeOK
  <2>. QED
    BY <1>1, <1>c, <2>1 DEF Enqueue
<1>2. CASE Dequeue
  <2>1. CASE ~(head_ = tail_ /\ ~is_full_)
    <3>1. buffer[head_] \in Elements \cup {NoElement}
      BY DEF TypeOK
    <3>. QED
      BY <1>2, <1>a, <1>b, <1>c, <2>1, <3>1 DEF Dequeue, TypeOK
  <2>. QED
    BY <1>2, <1>c, <2>1 DEF Dequeue
<1>3. ASSUME NEW i \in Counts, Peek(i) PROVE TypeOK'
  <2>1. CASE i < LengthUnlocked
    <3>1. i \in 0 .. BufLen
      BY <2>1, LengthBounds DEF Counts
    <3>2. buffer[IncrementIndex(head_, i)] \in Elements \cup {NoElement}
      BY <3>1, IncrementWraps DEF TypeOK
    <3>3. Return(TRUE, buffer[IncrementIndex(head_, i)]) \in Results
      BY <1>a, <3>2
    <3>4. ~(i >= LengthUnlocked)
      BY <2>1, LengthBounds DEF Counts
    <3>5. ret' \in Results /\ UNCHANGED <<buffer, head_, tail_, is_full_>>
      BY <1>3, <3>3, <3>4 DEF Peek
    <3>. QED
      BY <3>5 DEF TypeOK
  <2>2. CASE ~(i < LengthUnlocked)
    BY <1>3, <1>c, <2>2 DEF Peek
  <2>. QED
    BY <2>1, <2>2
<1>4. ASSUME NEW n \in Counts, Discard(n) PROVE TypeOK'
  <2>1. CASE n <= LengthUnlocked
    <3>1. n \in 0 .. BufLen
      BY <2>1, LengthBounds DEF Counts
    <3>2. IncrementIndex(head_, n) \in Slots
      BY <3>1, IncrementWraps DEF TypeOK
    <3>3. n = 0 => IncrementIndex(head_, n) = head_
      BY <3>1, IncrementWraps DEF TypeOK, Slots
    <3>. QED
      BY ZenonT(40), <1>4, <1>a, <1>c, <2>1, <3>2, <3>3 DEF Discard, TypeOK, Refuse
  <2>2. CASE ~(n <= LengthUnlocked)
    BY <1>4, <1>c, <2>2 DEF Discard
  <2>. QED
    BY <2>1, <2>2
<1>5. CASE Clear
  <2>1. Return(TRUE, NoElement) \in Results
    BY <1>a
  <2>2. 0 \in Slots
    BY BufLenAssumption DEF Slots
  <2>. QED
    BY <1>5, <2>1, <2>2 DEF Clear, TypeOK
<1>6. CASE UNCHANGED vars
  BY <1>6 DEF vars, TypeOK
<1>. QED
  BY <1>1, <1>2, <1>3, <1>4, <1>5, <1>6 DEF Next

\* The indices always address a slot and is_full_ is set only where they meet,
\* for every buffer length and sequence of calls (lines 70-200).
THEOREM TypeCorrect == Spec => []TypeOK
  BY InitTypeOK, NextTypeOK, PTL DEF Spec
-----------------------------------------------------------------------------
(***************************************************************************)
(* The refinement.  The queue's elements are a window of the ring: L slots *)
(* from h on.  Every call moves one end of the window.                     *)
(***************************************************************************)

Values == Elements \cup {NoElement}

Window(b, h, L) == [i \in 1 .. L |-> b[IncrementIndex(h, i - 1)]]

\* A window is a sequence of the buffer's values.
LEMMA WindowIsSeq ==
    ASSUME NEW b \in [Slots -> Values], NEW h \in Slots, NEW L \in 0 .. BufLen
    PROVE  /\ Window(b, h, L) \in Seq(Values)
           /\ Len(Window(b, h, L)) = L
           /\ \A i \in 1 .. L : Window(b, h, L)[i] = b[IncrementIndex(h, i - 1)]
<1>1. \A i \in 1 .. L : i - 1 \in 0 .. BufLen
  BY BufLenAssumption
<1>2. \A i \in 1 .. L : b[IncrementIndex(h, i - 1)] \in Values
  BY <1>1, IncrementWraps
<1>3. L \in Nat
  BY BufLenAssumption
<1>4. Window(b, h, L) \in [1 .. L -> Values]
  BY <1>2 DEF Window
<1>. QED
  BY <1>3, <1>4 DEF Window

\* Moving n slots, then m more, is moving n + m slots.
LEMMA IncrementTwice ==
    ASSUME NEW h \in Slots, NEW n \in 0 .. BufLen, NEW m \in 0 .. BufLen,
           n + m <= BufLen
    PROVE  IncrementIndex(IncrementIndex(h, n), m) = IncrementIndex(h, n + m)
<1>. DEFINE k == IncrementIndex(h, n)
<1>1. k \in Slots /\ k = IF h + n >= BufLen THEN h + n - BufLen ELSE h + n
  BY IncrementWraps
<1>. HIDE DEF k
<1>2. IncrementIndex(k, m) = IF k + m >= BufLen THEN k + m - BufLen ELSE k + m
  BY <1>1, IncrementWraps
<1>3. n + m \in 0 .. BufLen
  BY BufLenAssumption
<1>4. IncrementIndex(h, n + m) =
        IF h + (n + m) >= BufLen THEN h + (n + m) - BufLen ELSE h + (n + m)
  BY <1>3, IncrementWraps
<1>. QED
  BY <1>1, <1>2, <1>4, BufLenAssumption DEF k, Slots

\* The slots of a window shorter than the ring are not the slot after it.
LEMMA TailOutsideWindow ==
    ASSUME NEW h \in Slots, NEW L \in 0 .. BufLen - 1, NEW j \in 0 .. BufLen - 1,
           j < L
    PROVE  IncrementIndex(h, j) # IncrementIndex(h, L)
<1>1. /\ IncrementIndex(h, j) = IF h + j >= BufLen THEN h + j - BufLen ELSE h + j
      /\ IncrementIndex(h, L) = IF h + L >= BufLen THEN h + L - BufLen ELSE h + L
  BY IncrementWraps, BufLenAssumption
<1>. QED
  BY <1>1, BufLenAssumption DEF Slots

\* The length is determined by where the indices are and by the flag.
LEMMA LengthUnique ==
    ASSUME NEW h \in Slots, NEW f \in BOOLEAN, NEW L \in 0 .. BufLen,
           f <=> L = BufLen
    PROVE  (IF f THEN BufLen
            ELSE IF h > IncrementIndex(h, L) THEN BufLen - (h - IncrementIndex(h, L))
            ELSE IncrementIndex(h, L) - h) = L
<1>1. IncrementIndex(h, L) = IF h + L >= BufLen THEN h + L - BufLen ELSE h + L
  BY IncrementWraps
<1>. QED
  BY <1>1, BufLenAssumption DEF Slots

\* Contents is the window the indices delimit.
LEMMA ContentsIsWindow ==
    /\ Contents = Window(buffer, head_, LengthUnlocked)
    /\ Contents' = Window(buffer', head_', LengthUnlocked')
  BY DEF Contents, Window

LEMMA ContentsIsSeq ==
    ASSUME TypeOK
    PROVE  /\ Contents \in Seq(Values)
           /\ Len(Contents) = LengthUnlocked
           /\ \A i \in 1 .. LengthUnlocked :
                 Contents[i] = buffer[IncrementIndex(head_, i - 1)]
<1>1. buffer \in [Slots -> Values] /\ head_ \in Slots
  BY DEF TypeOK, Values
<1>2. LengthUnlocked \in 0 .. BufLen
  BY LengthBounds
<1>. QED
  BY <1>1, <1>2, WindowIsSeq, ContentsIsWindow

\* Storing into a queue that is not full appends the element.
LEMMA StoreAppends ==
    ASSUME TypeOK, NEW e \in Elements, ~is_full_, Store(e)
    PROVE  /\ LengthUnlocked < BufLen
           /\ Contents' = Append(Contents, e)
<1>. DEFINE L == LengthUnlocked
<1>1. L \in 0 .. BufLen - 1 /\ tail_ = IncrementIndex(head_, L)
  BY LengthBounds, BufLenAssumption
<1>2. head_ \in Slots /\ tail_ \in Slots /\ buffer \in [Slots -> Values]
  BY DEF TypeOK, Values
<1>3. head_' = head_ /\ tail_' = IncrementIndex(head_, L + 1)
  <2>1. IncrementIndex(tail_, 1) = IncrementIndex(head_, L + 1)
    BY <1>1, <1>2, IncrementTwice, BufLenAssumption
  <2>. QED
    BY <2>1 DEF Store
<1>4. is_full_' \in BOOLEAN /\ (is_full_' <=> L + 1 = BufLen)
  <2>1. IncrementIndex(head_, L + 1) = head_ <=> L + 1 = BufLen
    <3>1. L + 1 \in 0 .. BufLen
      BY <1>1, BufLenAssumption
    <3>2. IncrementIndex(head_, L + 1) =
            IF head_ + (L + 1) >= BufLen THEN head_ + (L + 1) - BufLen
                                         ELSE head_ + (L + 1)
      BY <1>2, <3>1, IncrementWraps
    <3>. QED
      BY <1>1, <1>2, <3>2, BufLenAssumption DEF Slots
  <2>. QED
    BY <1>3, <2>1 DEF Store
<1>5. LengthUnlocked' = L + 1
  <2>1. L + 1 \in 0 .. BufLen
    BY <1>1, BufLenAssumption
  <2>. QED
    BY <1>2, <1>3, <1>4, <2>1, LengthUnique DEF LengthUnlocked
<1>6. buffer' = [buffer EXCEPT ![tail_] = e] /\ buffer' \in [Slots -> Values]
  BY <1>2 DEF Store, Values
<1>. HIDE DEF L
<1>7. /\ Contents' \in Seq(Values)
      /\ Len(Contents') = L + 1
      /\ \A i \in 1 .. L + 1 : Contents'[i] = buffer'[IncrementIndex(head_, i - 1)]
  <2>1. Contents' = Window(buffer', head_, L + 1)
    BY <1>3, <1>5, ContentsIsWindow
  <2>2. L + 1 \in 0 .. BufLen
    BY <1>1, BufLenAssumption
  <2>3. /\ Window(buffer', head_, L + 1) \in Seq(Values)
        /\ Len(Window(buffer', head_, L + 1)) = L + 1
        /\ \A i \in 1 .. L + 1 :
             Window(buffer', head_, L + 1)[i] = buffer'[IncrementIndex(head_, i - 1)]
    BY ZenonT(40), <1>2, <1>6, <2>2, WindowIsSeq
  <2>. QED
    BY <2>1, <2>3
<1>8. /\ Contents \in Seq(Values) /\ Len(Contents) = L
      /\ \A i \in 1 .. L : Contents[i] = buffer[IncrementIndex(head_, i - 1)]
  BY ContentsIsSeq DEF L
<1>9. e \in Values
  BY DEF Values
<1>10. /\ Append(Contents, e) \in Seq(Values)
       /\ Len(Append(Contents, e)) = L + 1
       /\ \A i \in 1 .. L : Append(Contents, e)[i] = Contents[i]
       /\ Append(Contents, e)[L + 1] = e
  BY <1>8, <1>9, AppendProperties
<1>11. \A i \in 1 .. L + 1 : Contents'[i] = Append(Contents, e)[i]
  <2>. SUFFICES ASSUME NEW i \in 1 .. L + 1
                PROVE  buffer'[IncrementIndex(head_, i - 1)] = Append(Contents, e)[i]
    BY <1>7
  <2>1. CASE i = L + 1
    <3>1. IncrementIndex(head_, i - 1) = tail_
      BY <1>1, <2>1
    <3>. QED
      BY <1>2, <1>6, <1>10, <2>1, <3>1
  <2>2. CASE i \in 1 .. L
    <3>1. i - 1 \in 0 .. BufLen - 1 /\ i - 1 < L /\ i - 1 \in 0 .. BufLen
      BY <1>1, <2>2, BufLenAssumption
    <3>2. IncrementIndex(head_, i - 1) # tail_
      BY <1>1, <1>2, <3>1, TailOutsideWindow
    <3>3. IncrementIndex(head_, i - 1) \in Slots
      BY <1>2, <3>1, IncrementWraps
    <3>4. buffer'[IncrementIndex(head_, i - 1)] = buffer[IncrementIndex(head_, i - 1)]
      BY <1>2, <1>6, <3>2, <3>3
    <3>. QED
      BY <1>8, <1>10, <2>2, <3>4
  <2>3. i = L + 1 \/ i \in 1 .. L
    BY <1>1, BufLenAssumption
  <2>. QED
    BY <2>1, <2>2, <2>3
<1>12. Contents' = Append(Contents, e)
  BY <1>7, <1>10, <1>11, SeqEqual
<1>. QED
  BY <1>1, <1>12, BufLenAssumption DEF L

\* Moving head_ by n slots drops the n oldest elements.
LEMMA AdvanceDrops ==
    ASSUME TypeOK, NEW n \in 0 .. LengthUnlocked,
           head_' = IncrementIndex(head_, n),
           is_full_' = (is_full_ /\ n = 0),
           UNCHANGED <<buffer, tail_>>
    PROVE  Contents' = SubSeq(Contents, n + 1, Len(Contents))
<1>. DEFINE L == LengthUnlocked
<1>1. /\ L \in 0 .. BufLen /\ tail_ = IncrementIndex(head_, L)
      /\ (L = BufLen) <=> is_full_
  BY LengthBounds
<1>2. head_ \in Slots /\ buffer \in [Slots -> Values]
  BY DEF TypeOK, Values
<1>3. n \in 0 .. BufLen /\ L - n \in 0 .. BufLen
  BY <1>1, BufLenAssumption
<1>4. head_' \in Slots
  BY <1>2, <1>3, IncrementWraps
<1>5. tail_' = IncrementIndex(head_', L - n)
  <2>1. n + (L - n) = L
    BY <1>1, <1>3
  <2>. QED
    BY <1>1, <1>2, <1>3, <2>1, IncrementTwice
<1>6. is_full_' \in BOOLEAN /\ (is_full_' <=> L - n = BufLen)
  <2>1. (L - n = BufLen) <=> (L = BufLen /\ n = 0)
    BY <1>1, <1>3, BufLenAssumption
  <2>. QED
    BY <1>1, <2>1
<1>. HIDE DEF L
<1>7. LengthUnlocked' = L - n
  <2>1. (IF is_full_' THEN BufLen
         ELSE IF head_' > IncrementIndex(head_', L - n)
              THEN BufLen - (head_' - IncrementIndex(head_', L - n))
         ELSE IncrementIndex(head_', L - n) - head_') = L - n
    BY <1>3, <1>4, <1>6, LengthUnique
  <2>. QED
    BY <1>5, <2>1 DEF LengthUnlocked
<1>8. /\ Contents' \in Seq(Values) /\ Len(Contents') = L - n
      /\ \A i \in 1 .. L - n : Contents'[i] = buffer[IncrementIndex(head_', i - 1)]
  <2>1. Contents' = Window(buffer, head_', L - n)
    BY <1>7, ContentsIsWindow
  <2>. QED
    BY <1>2, <1>3, <1>4, <2>1, WindowIsSeq
<1>9. /\ Contents \in Seq(Values) /\ Len(Contents) = L
      /\ \A i \in 1 .. L : Contents[i] = buffer[IncrementIndex(head_, i - 1)]
  BY ContentsIsSeq DEF L
<1>10. /\ SubSeq(Contents, n + 1, L) \in Seq(Values)
       /\ Len(SubSeq(Contents, n + 1, L)) = L - n
       /\ \A i \in 1 .. L - n : SubSeq(Contents, n + 1, L)[i] = Contents[n + i]
  <2>1. \A i \in n + 1 .. L : Contents[i] \in Values
    <3>1. \A i \in n + 1 .. L : i \in 1 .. L
      BY <1>1, <1>3
    <3>. QED
      BY <1>9, <3>1, ElementOfSeq
  <2>2. n + 1 \in Int /\ L \in Int
    BY <1>1, <1>3
  <2>3. /\ SubSeq(Contents, n + 1, L) \in Seq(Values)
        /\ Len(SubSeq(Contents, n + 1, L)) = IF n + 1 <= L THEN L - (n + 1) + 1 ELSE 0
        /\ \A i \in 1 .. L - (n + 1) + 1 :
              SubSeq(Contents, n + 1, L)[i] = Contents[(n + 1) + i - 1]
    BY <2>1, <2>2, SubSeqProperties
  <2>4. \A i \in 1 .. L - n : (n + 1) + i - 1 = n + i /\ i \in 1 .. L - (n + 1) + 1
    BY <1>1, <1>3
  <2>. QED
    BY <1>1, <1>3, <2>3, <2>4
<1>11. \A i \in 1 .. L - n : Contents'[i] = SubSeq(Contents, n + 1, L)[i]
  <2>. SUFFICES ASSUME NEW i \in 1 .. L - n
                PROVE  buffer[IncrementIndex(head_', i - 1)] = Contents[n + i]
    BY <1>8, <1>10
  <2>1. n + (i - 1) <= BufLen /\ i - 1 \in 0 .. BufLen /\ (n + i) - 1 = n + (i - 1)
    BY <1>1, <1>3, BufLenAssumption
  <2>2. n + i \in 1 .. L
    BY <1>1, <1>3
  <2>. QED
    BY <1>2, <1>3, <1>9, <2>1, <2>2, IncrementTwice
<1>. QED
  BY <1>8, <1>9, <1>10, <1>11, SeqEqual

\* Storing into a full queue gives up the oldest element.
LEMMA StoreOverwrites ==
    ASSUME TypeOK, NEW e \in Elements, is_full_, Store(e)
    PROVE  /\ LengthUnlocked = BufLen
           /\ Contents' = Append(Tail(Contents), e)
<1>1. head_ \in Slots /\ tail_ = head_ /\ buffer \in [Slots -> Values]
  BY DEF TypeOK, Values
<1>2. LengthUnlocked = BufLen
  BY LengthBounds
<1>3. /\ head_' = IncrementIndex(head_, 1) /\ tail_' = head_'
      /\ head_' \in Slots /\ is_full_'
  <2>1. IncrementIndex(head_, 1) \in Slots
    BY <1>1, IncrementWraps, BufLenAssumption
  <2>2. head_' = IncrementIndex(head_, 1) /\ tail_' = head_'
    BY <1>1 DEF Store
  <2>3. is_full_'
    BY <2>2 DEF Store
  <2>. QED
    BY <2>1, <2>2, <2>3
<1>4. LengthUnlocked' = BufLen
  BY <1>3 DEF LengthUnlocked
<1>5. buffer' = [buffer EXCEPT ![head_] = e] /\ buffer' \in [Slots -> Values]
  BY <1>1 DEF Store, Values
<1>6. /\ Contents' \in Seq(Values) /\ Len(Contents') = BufLen
      /\ \A i \in 1 .. BufLen : Contents'[i] = buffer'[IncrementIndex(head_', i - 1)]
  <2>1. Contents' = Window(buffer', head_', BufLen)
    BY <1>4, ContentsIsWindow
  <2>2. BufLen \in 0 .. BufLen
    BY BufLenAssumption
  <2>3. /\ Window(buffer', head_', BufLen) \in Seq(Values)
        /\ Len(Window(buffer', head_', BufLen)) = BufLen
        /\ \A i \in 1 .. BufLen :
             Window(buffer', head_', BufLen)[i] = buffer'[IncrementIndex(head_', i - 1)]
    BY ZenonT(40), <1>3, <1>5, <2>2, WindowIsSeq
  <2>. QED
    BY <2>1, <2>3
<1>7. \A i \in 1 .. BufLen : IncrementIndex(head_', i - 1) = IncrementIndex(head_, i)
  <2>. TAKE i \in 1 .. BufLen
  <2>1. 1 \in 0 .. BufLen /\ i - 1 \in 0 .. BufLen /\ 1 + (i - 1) = i /\ i <= BufLen
    BY BufLenAssumption
  <2>. QED
    BY <1>1, <1>3, <2>1, IncrementTwice
<1>8. /\ Contents \in Seq(Values) /\ Len(Contents) = BufLen
      /\ Contents # <<>>
      /\ \A i \in 1 .. BufLen : Contents[i] = buffer[IncrementIndex(head_, i - 1)]
  <2>1. /\ Contents \in Seq(Values) /\ Len(Contents) = BufLen
        /\ \A i \in 1 .. BufLen : Contents[i] = buffer[IncrementIndex(head_, i - 1)]
    BY <1>2, ContentsIsSeq
  <2>. QED
    BY <2>1, EmptySeq, BufLenAssumption
<1>9. e \in Values
  BY DEF Values
<1>10. /\ Tail(Contents) \in Seq(Values) /\ Len(Tail(Contents)) = BufLen - 1
       /\ \A i \in 1 .. BufLen - 1 : Tail(Contents)[i] = Contents[i + 1]
  BY <1>8, HeadTailProperties
<1>11. /\ Append(Tail(Contents), e) \in Seq(Values)
       /\ Len(Append(Tail(Contents), e)) = BufLen
       /\ \A i \in 1 .. BufLen - 1 : Append(Tail(Contents), e)[i] = Contents[i + 1]
       /\ Append(Tail(Contents), e)[BufLen] = e
  <2>1. /\ Append(Tail(Contents), e) \in Seq(Values)
        /\ Len(Append(Tail(Contents), e)) = (BufLen - 1) + 1
        /\ \A i \in 1 .. BufLen - 1 : Append(Tail(Contents), e)[i] = Tail(Contents)[i]
        /\ Append(Tail(Contents), e)[(BufLen - 1) + 1] = e
    BY <1>9, <1>10, AppendProperties
  <2>2. (BufLen - 1) + 1 = BufLen
    BY BufLenAssumption
  <2>. QED
    BY <1>10, <2>1, <2>2
<1>12. \A i \in 1 .. BufLen : Contents'[i] = Append(Tail(Contents), e)[i]
  <2>. SUFFICES ASSUME NEW i \in 1 .. BufLen
                PROVE  buffer'[IncrementIndex(head_, i)] = Append(Tail(Contents), e)[i]
    BY <1>6, <1>7
  <2>1. CASE i = BufLen
    <3>1. IncrementIndex(head_, i) = head_
      BY <1>1, <2>1, IncrementWraps, BufLenAssumption DEF Slots
    <3>. QED
      BY <1>1, <1>5, <1>11, <2>1, <3>1
  <2>2. CASE i \in 1 .. BufLen - 1
    <3>1. IncrementIndex(head_, 0) = head_
      BY <1>1, IncrementWraps, BufLenAssumption DEF Slots
    <3>2. 0 \in 0 .. BufLen - 1 /\ i \in 0 .. BufLen - 1 /\ 0 < i /\ i \in 0 .. BufLen
      BY <2>2, BufLenAssumption
    <3>3. IncrementIndex(head_, i) # head_ /\ IncrementIndex(head_, i) \in Slots
      BY <1>1, <3>1, <3>2, TailOutsideWindow, IncrementWraps
    <3>4. buffer'[IncrementIndex(head_, i)] = buffer[IncrementIndex(head_, i)]
      BY <1>1, <1>5, <3>3
    <3>5. i + 1 \in 1 .. BufLen /\ (i + 1) - 1 = i
      BY <2>2, BufLenAssumption
    <3>6. Contents[i + 1] = buffer[IncrementIndex(head_, i)]
      BY <1>8, <3>5
    <3>. QED
      BY <1>11, <2>2, <3>4, <3>6
  <2>3. i = BufLen \/ i \in 1 .. BufLen - 1
    BY BufLenAssumption
  <2>. QED
    BY <2>1, <2>2, <2>3
<1>13. Contents' = Append(Tail(Contents), e)
  BY <1>6, <1>11, <1>12, SeqEqual
<1>. QED
  BY <1>2, <1>13
-----------------------------------------------------------------------------
(***************************************************************************)
(* Each call of the ring buffer is the same call of the FIFO queue.        *)
(***************************************************************************)

LEMMA InitRefines == Init => FIFO!Init
<1>. SUFFICES ASSUME Init PROVE FIFO!Init
  OBVIOUS
<1>1. LengthUnlocked = 0
  BY DEF Init, LengthUnlocked
<1>2. Contents = <<>>
  BY <1>1 DEF Contents
<1>. QED
  BY <1>2 DEF Init, FIFO!Init, Return, FIFO!Return

LEMMA RefuseKeeps == Refuse => UNCHANGED Contents
  BY DEF Refuse, Contents, LengthUnlocked

LEMMA EnqueueRefines ==
    ASSUME TypeOK, NEW e \in Elements, Enqueue(e)
    PROVE  FIFO!Enqueue(e)
<1>0. called' = <<"Enqueue", e>>
  BY DEF Enqueue
<1>1. CASE is_full_ /\ ~OverwriteWhenFull
  <2>1. Refuse
    BY <1>1 DEF Enqueue
  <2>. QED
    BY <1>0, <1>1, <2>1, RefuseKeeps, LengthBounds, ContentsIsSeq
    DEF FIFO!Enqueue, Refuse, Return, FIFO!Return
<1>2. CASE is_full_ /\ OverwriteWhenFull
  <2>1. Store(e)
    BY <1>2 DEF Enqueue
  <2>. QED
    BY <1>0, <1>2, <2>1, StoreOverwrites, ContentsIsSeq
    DEF FIFO!Enqueue, Store, Return, FIFO!Return
<1>3. CASE ~is_full_
  <2>1. Store(e)
    BY <1>3 DEF Enqueue
  <2>. QED
    BY <1>0, <1>3, <2>1, StoreAppends, ContentsIsSeq
    DEF FIFO!Enqueue, Store, Return, FIFO!Return
<1>. QED
  BY <1>1, <1>2, <1>3

LEMMA DequeueRefines ==
    ASSUME TypeOK, Dequeue
    PROVE  FIFO!Dequeue
<1>0. called' = <<"Dequeue", NoElement>>
  BY DEF Dequeue
<1>1. CASE head_ = tail_ /\ ~is_full_
  <2>1. Refuse
    BY <1>1 DEF Dequeue
  <2>2. Contents = <<>>
    BY <1>1, LengthBounds, ContentsIsSeq, EmptySeq
  <2>. QED
    BY <1>0, <2>1, <2>2, RefuseKeeps DEF FIFO!Dequeue, Refuse, Return, FIFO!Return
<1>2. CASE ~(head_ = tail_ /\ ~is_full_)
  <2>1. /\ ret' = Return(TRUE, buffer[head_])
        /\ head_' = IncrementIndex(head_, 1)
        /\ is_full_' = FALSE
        /\ UNCHANGED <<buffer, tail_>>
    BY <1>2 DEF Dequeue
  <2>2. LengthUnlocked \in 0 .. BufLen /\ LengthUnlocked # 0
    BY <1>2, LengthBounds
  <2>3. 1 \in 0 .. LengthUnlocked /\ 1 \in 1 .. LengthUnlocked
    BY <2>2, BufLenAssumption
  <2>4. is_full_' = (is_full_ /\ 1 = 0)
    <3>1. 1 # 0
      OBVIOUS
    <3>. QED
      BY <2>1, <3>1, Zenon
  <2>5. Contents' = SubSeq(Contents, 1 + 1, Len(Contents))
    BY <2>1, <2>3, <2>4, AdvanceDrops
  <2>6. Contents \in Seq(Values) /\ Contents # <<>>
    BY <2>2, ContentsIsSeq, EmptySeq
  <2>7. Contents' = Tail(Contents)
    BY <2>5, <2>6, TailIsSubSeq
  <2>8. Head(Contents) = buffer[head_]
    <3>1. Contents[1] = buffer[IncrementIndex(head_, 1 - 1)]
      BY <2>3, ContentsIsSeq
    <3>2. IncrementIndex(head_, 0) = head_
      BY IncrementWraps, BufLenAssumption DEF TypeOK, Slots
    <3>. QED
      BY <2>6, <3>1, <3>2
  <2>. QED
    BY <1>0, <2>1, <2>6, <2>7, <2>8 DEF FIFO!Dequeue, Return, FIFO!Return
<1>. QED
  BY <1>1, <1>2

LEMMA PeekRefines ==
    ASSUME TypeOK, NEW i \in Counts, Peek(i)
    PROVE  FIFO!Peek(i)
<1>0. called' = <<"Peek", i>>
  BY DEF Peek
<1>1. i \in Nat /\ LengthUnlocked \in 0 .. BufLen /\ Len(Contents) = LengthUnlocked
  BY LengthBounds, ContentsIsSeq, BufLenAssumption DEF Counts
<1>2. CASE i >= LengthUnlocked
  <2>1. Refuse
    <3>1. ~(i < LengthUnlocked)
      BY <1>1, <1>2, BufLenAssumption
    <3>. QED
      BY <3>1 DEF Peek
  <2>2. ~(i < Len(Contents))
    BY <1>1, <1>2, BufLenAssumption
  <2>. QED
    BY <1>0, <2>1, <2>2, RefuseKeeps DEF FIFO!Peek, Refuse, Return, FIFO!Return
<1>3. CASE i < LengthUnlocked
  <2>1. /\ ret' = Return(TRUE, buffer[IncrementIndex(head_, i)])
        /\ UNCHANGED <<buffer, head_, tail_, is_full_>>
    <3>1. ~(i >= LengthUnlocked)
      BY <1>1, <1>3, BufLenAssumption
    <3>. QED
      BY <3>1 DEF Peek
  <2>2. UNCHANGED Contents
    BY <2>1 DEF Contents, LengthUnlocked
  <2>3. i + 1 \in 1 .. LengthUnlocked /\ (i + 1) - 1 = i
    BY <1>1, <1>3, BufLenAssumption
  <2>4. Contents[i + 1] = buffer[IncrementIndex(head_, i)]
    BY <2>3, ContentsIsSeq
  <2>. QED
    BY <1>0, <1>1, <1>3, <2>1, <2>2, <2>4 DEF FIFO!Peek, Return, FIFO!Return
<1>. QED
  BY <1>1, <1>2, <1>3, BufLenAssumption

LEMMA DiscardRefines ==
    ASSUME TypeOK, NEW n \in Counts, Discard(n)
    PROVE  FIFO!Discard(n)
<1>0. called' = <<"Discard", n>>
  BY DEF Discard
<1>1. n \in Nat /\ LengthUnlocked \in 0 .. BufLen /\ Len(Contents) = LengthUnlocked
  BY LengthBounds, ContentsIsSeq, BufLenAssumption DEF Counts
<1>2. CASE n > LengthUnlocked
  <2>1. Refuse
    <3>1. ~(n <= LengthUnlocked)
      BY <1>1, <1>2, BufLenAssumption
    <3>. QED
      BY <3>1 DEF Discard
  <2>. QED
    BY <1>0, <1>1, <1>2, <2>1, RefuseKeeps DEF FIFO!Discard, Refuse, Return, FIFO!Return
<1>3. CASE n <= LengthUnlocked
  <2>1. /\ head_' = IncrementIndex(head_, n)
        /\ is_full_' = (is_full_ /\ n = 0)
        /\ ret' = Return(TRUE, NoElement)
        /\ UNCHANGED <<buffer, tail_>>
    <3>1. ~(n > LengthUnlocked)
      BY <1>1, <1>3, BufLenAssumption
    <3>. QED
      BY <3>1 DEF Discard
  <2>2. n \in 0 .. LengthUnlocked
    BY <1>1, <1>3, BufLenAssumption
  <2>3. Contents' = SubSeq(Contents, n + 1, Len(Contents))
    BY <2>1, <2>2, AdvanceDrops
  <2>. QED
    BY <1>0, <1>1, <1>3, <2>1, <2>3 DEF FIFO!Discard, Return, FIFO!Return
<1>. QED
  BY <1>1, <1>2, <1>3, BufLenAssumption

LEMMA ClearRefines ==
    ASSUME Clear PROVE FIFO!Clear
<1>0. called' = <<"Clear", NoElement>>
  BY DEF Clear
<1>1. LengthUnlocked' = 0
  BY DEF Clear, LengthUnlocked
<1>2. Contents' = <<>>
  BY <1>1 DEF Contents
<1>. QED
  BY <1>0, <1>2 DEF Clear, FIFO!Clear, Return, FIFO!Return

LEMMA NextRefines == TypeOK /\ [Next]_vars => [FIFO!Next]_FIFO!vars
<1>. SUFFICES ASSUME TypeOK, [Next]_vars PROVE [FIFO!Next]_FIFO!vars
  OBVIOUS
<1>1. ASSUME NEW e \in Elements, Enqueue(e) PROVE FIFO!Next
  BY <1>1, EnqueueRefines DEF FIFO!Next
<1>2. CASE Dequeue
  BY <1>2, DequeueRefines DEF FIFO!Next
<1>3. ASSUME NEW i \in Counts, Peek(i) PROVE FIFO!Next
  BY <1>3, PeekRefines DEF FIFO!Next
<1>4. ASSUME NEW n \in Counts, Discard(n) PROVE FIFO!Next
  BY <1>4, DiscardRefines DEF FIFO!Next
<1>5. CASE Clear
  BY <1>5, ClearRefines DEF FIFO!Next
<1>6. CASE UNCHANGED vars
  BY <1>6 DEF vars, FIFO!vars, Contents, LengthUnlocked
<1>. QED
  BY <1>1, <1>2, <1>3, <1>4, <1>5, <1>6 DEF Next

\* Every PFBQueue behaves as a bounded FIFO queue, with any element type and
\* buffer length: nothing is lost, repeated or reordered when the indices wrap.
THEOREM Refinement == Spec => ImplementsFIFO
  BY TypeCorrect, InitRefines, NextRefines, PTL DEF Spec, ImplementsFIFO, FIFO!Spec

-----------------------------------------------------------------------------

\* Only what Enqueue was given ever reaches the queue.
LEMMA FIFOKeepsElements ==
    ASSUME Contents \in Seq(Elements), [FIFO!Next]_FIFO!vars
    PROVE  Contents' \in Seq(Elements)
<1>1. CASE UNCHANGED Contents
  BY <1>1
<1>2. ASSUME NEW e \in Elements, FIFO!Enqueue(e) PROVE Contents' \in Seq(Elements)
  <2>1. CASE Contents' = Append(Contents, e)
    BY <2>1, AppendProperties
  <2>2. CASE Contents' = Append(Tail(Contents), e) /\ Len(Contents) = BufLen
    <3>1. Contents # <<>>
      BY <2>2, EmptySeq, BufLenAssumption
    <3>. QED
      BY <2>2, <3>1, HeadTailProperties, AppendProperties
  <2>. QED
    BY <1>1, <1>2, <2>1, <2>2 DEF FIFO!Enqueue
<1>3. CASE FIFO!Dequeue
  BY <1>3, HeadTailProperties DEF FIFO!Dequeue
<1>4. ASSUME NEW n \in Counts, FIFO!Discard(n) PROVE Contents' \in Seq(Elements)
  <2>1. CASE Contents' = SubSeq(Contents, n + 1, Len(Contents))
    <3>1. n + 1 \in Int /\ Len(Contents) \in Nat /\ n \in Nat
      BY LenProperties DEF Counts
    <3>2. \A i \in n + 1 .. Len(Contents) : Contents[i] \in Elements
      <4>1. \A i \in n + 1 .. Len(Contents) : i \in 1 .. Len(Contents)
        BY <3>1
      <4>. QED
        BY <4>1, ElementOfSeq
    <3>. QED
      BY <2>1, <3>1, <3>2, SubSeqProperties
  <2>. QED
    BY <1>1, <1>4, <2>1 DEF FIFO!Discard
<1>5. CASE FIFO!Clear
  BY <1>5, EmptySeq DEF FIFO!Clear
<1>6. ASSUME NEW i \in Counts, FIFO!Peek(i) PROVE Contents' \in Seq(Elements)
  BY <1>1, <1>6 DEF FIFO!Peek
<1>. QED
  BY <1>1, <1>2, <1>3, <1>4, <1>5, <1>6 DEF FIFO!Next, FIFO!vars

\* No call hands out a slot that was never written (lines 99-128), for every
\* buffer length.
THEOREM WrittenSlots == Spec => []OnlyWrittenSlots
<1>1. Init => Contents \in Seq(Elements)
  <2>1. Init => Contents = <<>>
    BY InitRefines DEF FIFO!Init
  <2>. QED
    BY <2>1, EmptySeq
<1>2. Contents \in Seq(Elements) /\ TypeOK /\ [Next]_vars => (Contents \in Seq(Elements))'
  BY NextRefines, FIFOKeepsElements
<1>3. Contents \in Seq(Elements) => OnlyWrittenSlots
  BY LenProperties, ElementOfSeq DEF OnlyWrittenSlots
<1>. QED
  BY <1>1, <1>2, <1>3, TypeCorrect, PTL DEF Spec
=============================================================================
