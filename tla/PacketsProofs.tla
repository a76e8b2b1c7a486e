---------------------------- MODULE PacketsProofs ----------------------------
(***************************************************************************)
(* Packets on the ESP32 and on core 1, for any lengths of the queues and   *)
(* any numbers of packets, state machines and aircraft.                    *)
(*                                                                         *)
(* The feeds get the packets of a kind in the order the RP2040 sent them.  *)
(* A packet waits in the server's queue, in the array being sent, in the   *)
(* scratch buffer or in the feeds' queue: the numbers rise at each of the  *)
(* four places, and between any two of them that can hold packets at once  *)
(* all are below.  Every call moves a section of one place behind another. *)
(*                                                                         *)
(* Core 0 is given one copy of a transmission.  The receiver is followed   *)
(* from the ms a transmission begins to its last copy: the copies are      *)
(* stamped in that ms or in the next, those in the queue rise, and once    *)
(* one was passed on, one is remembered that is not later than those to    *)
(* come.  Nothing overtakes: a copy of a later transmission takes the      *)
(* place in last_demod_ only when no earlier one is left.                  *)
(***************************************************************************)
EXTENDS MCPackets, PFBQueueProofs, UATReceiverProofs,
        FiniteSetTheorems, WellFoundedInduction

-----------------------------------------------------------------------------
(* The feeds.                                                              *)


Numbered == Nat \X Nat
Nums == {num \in [PacketKinds -> 0 .. CellsPerArray] : Cardinal(num) <= CellsPerArray}
Array == [num : Nums, cells : [Cells -> Numbered]]

FeedTypes ==
    /\ arrived \in [PacketKinds -> Nat] /\ \A k \in PacketKinds : arrived[k] <= MaxPackets[k]
    /\ in_queue \in [PacketKinds -> Seq(Numbered)] /\ \A k \in PacketKinds : Len(in_queue[k]) <= InLen[k]
    /\ carried \in Array /\ scratch \in Array
    /\ wanQueue \in Seq(Array) /\ Len(wanQueue) <= WANQueueLen
    /\ slots_used \in 0 .. WANQueueLen
    /\ stage \in {"idle", "flush", "send"}
    /\ wanTask \in {"waiting", "receiving"} /\ hasIP \in BOOLEAN
    /\ fed \in [PacketKinds -> Nat]

\* What the server's loop relies on: its reading is not below what the queue
\* holds, and a scratch buffer that has data waits for a queue half full.
Forwarding ==
    /\ stage = "idle" => carried = NoArray
    /\ stage # "idle" => Cardinal(carried.num) > 0 /\ Len(wanQueue) <= slots_used
    /\ stage = "send" /\ ~QueueHalfFull => scratch = NoArray

\* The packets of a kind in an array and in a queue, by their numbers.
NumbersIn(a, k) == {a.cells[c][2] : c \in Span(a, k)}
NumbersOf(q) == {q[x][2] : x \in DOMAIN q}

Lower(S, T) == \A m \in S, n \in T : m < n

\* Each is of kind k and above the last that was fed, and they rise.
Sorted(a, k, from, to) ==
    \A c \in Span(a, k) :
        /\ a.cells[c][1] = k /\ from < a.cells[c][2] /\ a.cells[c][2] <= to
        /\ \A d \in Span(a, k) : c < d => a.cells[c][2] < a.cells[d][2]
SortedQueue(q, k, from, to) ==
    \A x \in DOMAIN q :
        /\ q[x][1] = k /\ from < q[x][2] /\ q[x][2] <= to
        /\ \A y \in DOMAIN q : x < y => q[x][2] < q[y][2]

\* The arrays of the feeds' queue, each below those behind it and below S.
SortedArrays(w, k, from, to) ==
    \A i \in DOMAIN w :
        /\ Sorted(w[i], k, from, to)
        /\ \A j \in DOMAIN w : i < j => Lower(NumbersIn(w[i], k), NumbersIn(w[j], k))
AllLower(w, k, S) == \A i \in DOMAIN w : Lower(NumbersIn(w[i], k), S)

Way(w, s, c, q, k, from, to) ==
    /\ SortedArrays(w, k, from, to)
    /\ Sorted(s, k, from, to) /\ Sorted(c, k, from, to) /\ SortedQueue(q, k, from, to)
    /\ AllLower(w, k, NumbersIn(s, k)) /\ AllLower(w, k, NumbersIn(c, k)) /\ AllLower(w, k, NumbersOf(q))
    /\ Lower(NumbersIn(s, k), NumbersIn(c, k)) /\ Lower(NumbersIn(s, k), NumbersOf(q))
    /\ Lower(NumbersIn(c, k), NumbersOf(q))

Ways(k) ==
    /\ fed[k] <= arrived[k]
    /\ Way(wanQueue, scratch, carried, in_queue[k], k, fed[k], arrived[k])

FeedInv == FeedTypes /\ Forwarding /\ \A k \in PacketKinds : Ways(k)

-----------------------------------------------------------------------------
(* Arrays and their sections.                                              *)

LEMMA SizesAre ==
  /\ CellsPerArray \in Nat \ {0} /\ WANQueueLen \in Nat \ {0}
  /\ \A k \in PacketKinds : InLen[k] \in Nat \ {0} /\ MaxPackets[k] \in Nat
  BY FeedAssumption

LEMMA KindsOfPackets ==
  1 \in PacketKinds /\ 2 \in PacketKinds /\ 3 \in PacketKinds /\ \A k \in PacketKinds : k \in {1, 2, 3}
  BY DEF PacketKinds

LEMMA BeforeIs ==
  ASSUME NEW num \in [PacketKinds -> Nat]
  PROVE  /\ num[1] \in Nat /\ num[2] \in Nat /\ num[3] \in Nat
         /\ Before(num, 1) = 0 /\ Before(num, 2) = num[1] /\ Before(num, 3) = num[1] + num[2]
         /\ Cardinal(num) = num[1] + num[2] + num[3]
         /\ \A k \in PacketKinds : Before(num, k) \in Nat /\ Before(num, k) + num[k] <= Cardinal(num)
         /\ \A k \in PacketKinds : num[k] <= Cardinal(num)
  <1>1. num[1] \in Nat /\ num[2] \in Nat /\ num[3] \in Nat
    BY KindsOfPackets
  <1>2. /\ Before(num, 1) = 0 /\ Before(num, 2) = num[1] /\ Before(num, 3) = num[1] + num[2]
        /\ Cardinal(num) = num[1] + num[2] + num[3]
    BY <1>1 DEF Before, Cardinal
  <1>3. ASSUME NEW k \in PacketKinds
        PROVE  Before(num, k) \in Nat /\ Before(num, k) + num[k] <= Cardinal(num) /\ num[k] <= Cardinal(num)
    <2>1. k = 1 \/ k = 2 \/ k = 3
      BY KindsOfPackets
    <2>. QED
      BY <1>1, <1>2, <2>1
  <1>. QED
    BY <1>1, <1>2, <1>3

LEMMA ArrayIs ==
  ASSUME NEW a \in Array
  PROVE  /\ a.num \in [PacketKinds -> Nat] /\ Cardinal(a.num) <= CellsPerArray
         /\ a.num \in [PacketKinds -> 0 .. CellsPerArray]
         /\ a.cells \in [Cells -> Numbered]
         /\ \A k \in PacketKinds :
               /\ a.num[k] \in Nat /\ Before(a.num, k) \in Nat
               /\ \A c \in Span(a, k) : c \in Cells /\ a.cells[c] \in Numbered /\ a.cells[c][2] \in Nat
  <1>1. /\ a.num \in [PacketKinds -> 0 .. CellsPerArray] /\ Cardinal(a.num) <= CellsPerArray
        /\ a.cells \in [Cells -> Numbered]
    BY DEF Array, Nums
  <1>2. a.num \in [PacketKinds -> Nat]
    BY <1>1
  <1>3. ASSUME NEW k \in PacketKinds
        PROVE  /\ a.num[k] \in Nat /\ Before(a.num, k) \in Nat
               /\ \A c \in Span(a, k) : c \in Cells /\ a.cells[c] \in Numbered /\ a.cells[c][2] \in Nat
    <2>1. /\ a.num[k] \in Nat /\ Before(a.num, k) \in Nat /\ Cardinal(a.num) \in Nat
          /\ Before(a.num, k) + a.num[k] <= Cardinal(a.num)
      BY <1>2, BeforeIs
    <2>2. \A c \in Span(a, k) : c \in Cells
      BY <1>1, <2>1, SizesAre DEF Span, Cells
    <2>3. \A p \in Numbered : p[2] \in Nat
      BY DEF Numbered
    <2>. QED
      BY <1>1, <2>1, <2>2, <2>3
  <1>. QED
    BY <1>1, <1>2, <1>3

LEMMA NothingInNoArray ==
  /\ NoArray \in Array /\ Cardinal(NoArray.num) = 0
  /\ \A k \in PacketKinds : NumbersIn(NoArray, k) = {} /\ \A from, to : Sorted(NoArray, k, from, to)
  <1>1. NoArray.num = NoneOf /\ NoneOf \in [PacketKinds -> Nat] /\ \A k \in PacketKinds : NoneOf[k] = 0
    BY DEF NoArray, NoneOf
  <1>2. Cardinal(NoneOf) = 0
    BY <1>1, BeforeIs, KindsOfPackets
  <1>3. NoArray \in Array
    <2>1. NoneOf \in [PacketKinds -> 0 .. CellsPerArray]
      BY SizesAre DEF NoneOf
    <2>2. NoneOf \in Nums
      BY <1>2, <2>1, SizesAre DEF Nums
    <2>3. [c \in Cells |-> NoPacket] \in [Cells -> Numbered]
      BY DEF NoPacket, Numbered
    <2>. QED
      BY <2>2, <2>3 DEF Array, NoArray
  <1>4. ASSUME NEW k \in PacketKinds PROVE Span(NoArray, k) = {}
    <2>1. Before(NoneOf, k) \in Nat
      BY <1>1, BeforeIs
    <2>2. NoArray.num[k] = 0
      BY <1>1
    <2>. QED
      BY <1>1, <2>1, <2>2 DEF Span
  <1>. QED
    BY <1>1, <1>2, <1>3, <1>4 DEF NumbersIn, Sorted

\* The section of a kind in m is that in a followed by that in b.
Joins(m, a, b, k) ==
    \E mid, i, j \in Int : \A c \in Span(m, k) :
        IF c <= mid THEN i + c \in Span(a, k) /\ m.cells[c] = a.cells[i + c]
                    ELSE j + c \in Span(b, k) /\ m.cells[c] = b.cells[j + c]

LEMMA CopiedIs ==
  ASSUME NEW cells \in [Cells -> Numbered], NEW source \in [Cells -> Numbered], NEW to \in Nat, NEW at \in Nat,
         NEW n \in Nat, to + n <= CellsPerArray, at + n <= CellsPerArray
  PROVE  /\ Copied(cells, to, source, at, n) \in [Cells -> Numbered]
         /\ \A c \in Cells : Copied(cells, to, source, at, n)[c] =
               IF to < c /\ c <= to + n THEN source[at + c - to] ELSE cells[c]
  <1>1. \A c \in Cells : c \in to + 1 .. to + n <=> to < c /\ c <= to + n
    BY DEF Cells
  <1>2. \A c \in Cells : to < c /\ c <= to + n => at + c - to \in Cells
    BY SizesAre DEF Cells
  <1>. QED
    BY <1>1, <1>2 DEF Copied

\* However many packets of which kinds two arrays hold, merging them puts each
\* section of the one in front of that of the other.
LEMMA MergedJoins ==
  ASSUME NEW dst \in Array, NEW src \in Array, Mergeable(dst, src)
  PROVE  /\ Merged(dst, src) \in Array
         /\ Cardinal(Merged(dst, src).num) = Cardinal(dst.num) + Cardinal(src.num)
         /\ \A k \in PacketKinds : Joins(Merged(dst, src), dst, src, k)
  <1> DEFINE m == Merged(dst, src)
             d1 == dst.num[1]
             d2 == dst.num[2]
             d3 == dst.num[3]
             s1 == src.num[1]
             s2 == src.num[2]
             s3 == src.num[3]
             u == d1 + s1 + d2
  <1>1. /\ dst.num \in [PacketKinds -> Nat] /\ src.num \in [PacketKinds -> Nat]
        /\ dst.cells \in [Cells -> Numbered] /\ src.cells \in [Cells -> Numbered]
    BY ArrayIs
  <1>2. d1 \in Nat /\ d2 \in Nat /\ d3 \in Nat /\ s1 \in Nat /\ s2 \in Nat /\ s3 \in Nat
    BY <1>1, KindsOfPackets
  <1>3. /\ m.num = MergedNum(dst, src)
        /\ m.num \in [PacketKinds -> Nat]
        /\ m.num[1] = d1 + s1 /\ m.num[2] = d2 + s2 /\ m.num[3] = d3 + s3
    <2>1. m.num = MergedNum(dst, src)
      BY DEF Merged
    <2>2. MergedNum(dst, src) \in [PacketKinds -> Nat]
      BY <1>1 DEF MergedNum
    <2>3. /\ MergedNum(dst, src)[1] = d1 + s1 /\ MergedNum(dst, src)[2] = d2 + s2
          /\ MergedNum(dst, src)[3] = d3 + s3
      BY KindsOfPackets DEF MergedNum
    <2> HIDE DEF m
    <2>. QED
      BY <2>1, <2>2, <2>3
  <1>4. Cardinal(m.num) <= CellsPerArray
    BY <1>3 DEF Mergeable
  <1>5. Cardinal(m.num) = (d1 + s1) + (d2 + s2) + (d3 + s3)
    <2>1. Cardinal(m.num) = m.num[1] + m.num[2] + m.num[3]
      BY <1>3, BeforeIs
    <2>. QED
      BY <1>3, <2>1
  <1>6. Cardinal(dst.num) = d1 + d2 + d3 /\ Cardinal(src.num) = s1 + s2 + s3
    BY <1>1, BeforeIs
  <1>7. /\ m.cells \in [Cells -> Numbered]
        /\ \A c \in 1 .. d1 : m.cells[c] = dst.cells[c]
        /\ \A c \in d1 + 1 .. d1 + s1 : m.cells[c] = src.cells[c - d1]
        /\ \A c \in d1 + s1 + 1 .. u : m.cells[c] = dst.cells[c - s1]
        /\ \A c \in u + 1 .. u + s2 : m.cells[c] = src.cells[s1 + c - u]
        /\ \A c \in u + s2 + 1 .. u + s2 + d3 : m.cells[c] = dst.cells[c - s1 - s2]
        /\ \A c \in u + s2 + d3 + 1 .. u + s2 + d3 + s3 :
              m.cells[c] = src.cells[s1 + s2 + c - (u + s2 + d3)]
    <2> DEFINE a == Copied(dst.cells, d1 + s1, dst.cells, d1, d2 + d3)
               b == Copied(a, d1, src.cells, 0, s1)
               x == Copied(b, u + s2, b, u, d3)
               d == Copied(x, u, src.cells, s1, s2)
               e == Copied(d, u + s2 + d3, src.cells, s1 + s2, s3)
    <2>1. m.cells = e
      BY DEF Merged
    <2>2. (d1 + s1) + (d2 + s2) + (d3 + s3) <= CellsPerArray
      BY <1>4, <1>5
    <2> HIDE DEF m, d1, d2, d3, s1, s2, s3
    <2>3. /\ e \in [Cells -> Numbered]
          /\ \A c \in 1 .. d1 : e[c] = dst.cells[c]
          /\ \A c \in d1 + 1 .. d1 + s1 : e[c] = src.cells[c - d1]
          /\ \A c \in d1 + s1 + 1 .. u : e[c] = dst.cells[c - s1]
          /\ \A c \in u + 1 .. u + s2 : e[c] = src.cells[s1 + c - u]
          /\ \A c \in u + s2 + 1 .. u + s2 + d3 : e[c] = dst.cells[c - s1 - s2]
          /\ \A c \in u + s2 + d3 + 1 .. u + s2 + d3 + s3 :
                e[c] = src.cells[s1 + s2 + c - (u + s2 + d3)]
      <3> HIDE DEF u, a, b, x, d, e
      <3>1. u = d1 + s1 + d2 /\ u \in Nat /\ CellsPerArray \in Nat
        BY <1>2, SizesAre DEF u
      <3>2. /\ a \in [Cells -> Numbered]
            /\ \A c \in Cells : a[c] = IF d1 + s1 < c /\ c <= d1 + s1 + (d2 + d3)
                                       THEN dst.cells[d1 + c - (d1 + s1)] ELSE dst.cells[c]
        <4> DEFINE to == d1 + s1
                   n == d2 + d3
        <4>1. to \in Nat /\ n \in Nat /\ to + n <= CellsPerArray /\ d1 + n <= CellsPerArray
          BY <1>2, <2>2, <3>1
        <4>2. a = Copied(dst.cells, to, dst.cells, d1, n)
          BY DEF a
        <4> HIDE DEF to, n
        <4>3. /\ a \in [Cells -> Numbered]
              /\ \A c \in Cells : a[c] = IF to < c /\ c <= to + n
                                         THEN dst.cells[d1 + c - to] ELSE dst.cells[c]
          <5>1. /\ Copied(dst.cells, to, dst.cells, d1, n) \in [Cells -> Numbered]
                /\ \A c \in Cells : Copied(dst.cells, to, dst.cells, d1, n)[c] =
                      IF to < c /\ c <= to + n THEN dst.cells[d1 + c - to] ELSE dst.cells[c]
            BY <1>1, <1>2, <4>1, CopiedIs
          <5>. QED
            BY <4>2, <5>1, Zenon
        <4>. QED
          BY <4>3 DEF to, n
      <3>3. /\ b \in [Cells -> Numbered]
            /\ \A c \in Cells : b[c] = IF d1 < c /\ c <= d1 + s1 THEN src.cells[0 + c - d1] ELSE a[c]
        <4>1. 0 \in Nat /\ d1 + s1 <= CellsPerArray /\ 0 + s1 <= CellsPerArray
          BY <1>2, <2>2, <3>1
        <4>. QED
          BY <1>1, <1>2, <3>2, <4>1, CopiedIs DEF b
      <3>4. /\ x \in [Cells -> Numbered]
            /\ \A c \in Cells : x[c] = IF u + s2 < c /\ c <= u + s2 + d3
                                       THEN b[u + c - (u + s2)] ELSE b[c]
        <4> DEFINE to == u + s2
        <4>1. to \in Nat /\ to + d3 <= CellsPerArray /\ u + d3 <= CellsPerArray
          BY <1>2, <2>2, <3>1
        <4>2. x = Copied(b, to, b, u, d3)
          BY DEF x
        <4> HIDE DEF to
        <4>3. /\ x \in [Cells -> Numbered]
              /\ \A c \in Cells : x[c] = IF to < c /\ c <= to + d3 THEN b[u + c - to] ELSE b[c]
          BY <1>2, <3>1, <3>3, <4>1, <4>2, CopiedIs
        <4>. QED
          BY <4>3 DEF to
      <3>5. /\ d \in [Cells -> Numbered]
            /\ \A c \in Cells : d[c] = IF u < c /\ c <= u + s2 THEN src.cells[s1 + c - u] ELSE x[c]
        <4>1. u + s2 <= CellsPerArray /\ s1 + s2 <= CellsPerArray
          BY <1>2, <2>2, <3>1
        <4>. QED
          BY <1>1, <1>2, <3>1, <3>4, <4>1, CopiedIs DEF d
      <3>6. /\ e \in [Cells -> Numbered]
            /\ \A c \in Cells : e[c] = IF u + s2 + d3 < c /\ c <= u + s2 + d3 + s3
                                       THEN src.cells[s1 + s2 + c - (u + s2 + d3)] ELSE d[c]
        <4>1. u + s2 + d3 + s3 <= CellsPerArray /\ s1 + s2 + s3 <= CellsPerArray /\ u + s2 + d3 \in Nat
              /\ s1 + s2 \in Nat
          BY <1>2, <2>2, <3>1
        <4>. QED
          BY <1>1, <1>2, <3>5, <4>1, CopiedIs DEF e
      <3>7. \A c : c \in Cells <=> c \in Int /\ 1 <= c /\ c <= CellsPerArray
        BY <3>1 DEF Cells
      <3>8. ASSUME NEW c \in 1 .. d1 PROVE e[c] = dst.cells[c]
        <4>1. c \in Cells /\ ~(d1 + s1 < c) /\ ~(d1 < c) /\ ~(u + s2 < c) /\ ~(u < c) /\ ~(u + s2 + d3 < c)
          BY <1>2, <2>2, <3>1, <3>7
        <4>2. e[c] = d[c] /\ d[c] = x[c]
          BY <3>5, <3>6, <4>1, Zenon
        <4>3. x[c] = b[c] /\ b[c] = a[c] /\ a[c] = dst.cells[c]
          BY <3>2, <3>3, <3>4, <4>1, Zenon
        <4>. QED
          BY <4>2, <4>3
      <3>9. ASSUME NEW c \in d1 + 1 .. d1 + s1 PROVE e[c] = src.cells[c - d1]
        <4>1. c \in Cells /\ d1 < c /\ c <= d1 + s1 /\ ~(u + s2 < c) /\ ~(u < c) /\ ~(u + s2 + d3 < c)
          BY <1>2, <2>2, <3>1, <3>7
        <4>2. e[c] = d[c] /\ d[c] = x[c]
          BY <3>5, <3>6, <4>1, Zenon
        <4>3. x[c] = b[c] /\ b[c] = src.cells[0 + c - d1]
          BY <3>3, <3>4, <4>1, Zenon
        <4>4. 0 + c - d1 = c - d1
          BY <1>2
        <4>. QED
          BY <4>2, <4>3, <4>4, Zenon
      <3>10. ASSUME NEW c \in d1 + s1 + 1 .. u PROVE e[c] = dst.cells[c - s1]
        <4>1. /\ c \in Cells /\ d1 + s1 < c /\ c <= d1 + s1 + (d2 + d3) /\ ~(c <= d1 + s1)
              /\ ~(u + s2 < c) /\ ~(u < c) /\ ~(u + s2 + d3 < c)
          BY <1>2, <2>2, <3>1, <3>7
        <4>2. e[c] = d[c] /\ d[c] = x[c]
          BY <3>5, <3>6, <4>1, Zenon
        <4>3. x[c] = b[c] /\ b[c] = a[c]
          BY <3>3, <3>4, <4>1, Zenon
        <4>4. a[c] = dst.cells[d1 + c - (d1 + s1)]
          BY <3>2, <4>1, Zenon
        <4>5. d1 + c - (d1 + s1) = c - s1
          BY <1>2, <2>2, <3>1, <3>7
        <4>. QED
          BY <4>2, <4>3, <4>4, <4>5, Zenon
      <3>11. ASSUME NEW c \in u + 1 .. u + s2 PROVE e[c] = src.cells[s1 + c - u]
        <4>1. c \in Cells /\ u < c /\ c <= u + s2 /\ ~(u + s2 + d3 < c)
          BY <1>2, <2>2, <3>1, <3>7
        <4>. QED
          BY <3>5, <3>6, <4>1, Zenon
      <3>12. ASSUME NEW c \in u + s2 + 1 .. u + s2 + d3 PROVE e[c] = dst.cells[c - s1 - s2]
        <4>1. /\ c \in Cells /\ u + s2 < c /\ c <= u + s2 + d3 /\ ~(c <= u + s2) /\ ~(u + s2 + d3 < c)
          BY <1>2, <2>2, <3>1, <3>7
        <4>2. e[c] = d[c] /\ d[c] = x[c]
          BY <3>5, <3>6, <4>1, Zenon
        <4>3. x[c] = b[u + c - (u + s2)]
          BY <3>4, <4>1, Zenon
        <4>4. /\ u + c - (u + s2) = c - s2 /\ c - s2 \in Cells /\ d1 + s1 < c - s2
              /\ c - s2 <= d1 + s1 + (d2 + d3) /\ ~(c - s2 <= d1 + s1)
          BY <1>2, <2>2, <3>1, <3>7
        <4>5. b[c - s2] = a[c - s2]
          BY <3>3, <4>4, Zenon
        <4>6. a[c - s2] = dst.cells[d1 + (c - s2) - (d1 + s1)]
          BY <3>2, <4>4, Zenon
        <4>7. d1 + (c - s2) - (d1 + s1) = c - s1 - s2
          BY <1>2, <2>2, <3>1, <3>7
        <4>. QED
          BY <4>2, <4>3, <4>4, <4>5, <4>6, <4>7, Zenon
      <3>13. ASSUME NEW c \in u + s2 + d3 + 1 .. u + s2 + d3 + s3
             PROVE  e[c] = src.cells[s1 + s2 + c - (u + s2 + d3)]
        <4>1. c \in Cells /\ u + s2 + d3 < c /\ c <= u + s2 + d3 + s3
          BY <1>2, <2>2, <3>1, <3>7
        <4>. QED
          BY <3>6, <4>1, Zenon
      <3>. QED
        BY <3>6, <3>8, <3>9, <3>10, <3>11, <3>12, <3>13
    <2> HIDE DEF e
    <2>. QED
      BY <2>1, <2>3
  <1>8. m \in Array
    <2>1. m.num \in [PacketKinds -> 0 .. CellsPerArray]
      <3>1. \A k \in PacketKinds : m.num[k] \in Nat /\ m.num[k] <= Cardinal(m.num)
        BY <1>3, BeforeIs
      <3>2. Cardinal(m.num) \in Nat
        BY <1>2, <1>5
      <3>. QED
        BY <1>3, <1>4, <3>1, <3>2, SizesAre
    <2>2. m = [num |-> m.num, cells |-> m.cells]
      BY DEF Merged
    <2>. QED
      BY <1>4, <1>7, <2>1, <2>2 DEF Array, Nums
  <1>9. \A k \in PacketKinds : Joins(m, dst, src, k)
    <2> HIDE DEF m
    <2>1. /\ Before(dst.num, 1) = 0 /\ Before(dst.num, 2) = d1 /\ Before(dst.num, 3) = d1 + d2
          /\ Before(src.num, 1) = 0 /\ Before(src.num, 2) = s1 /\ Before(src.num, 3) = s1 + s2
          /\ Before(m.num, 1) = 0 /\ Before(m.num, 2) = d1 + s1
          /\ Before(m.num, 3) = (d1 + s1) + (d2 + s2)
      BY <1>1, <1>3, BeforeIs
    <2> HIDE DEF d1, d2, d3, s1, s2, s3, u
    <2>2. u = d1 + s1 + d2
      BY DEF u
    <2>3. Joins(m, dst, src, 1)
      <3>1. /\ Span(dst, 1) = 1 .. d1 /\ Span(src, 1) = 1 .. s1 /\ Span(m, 1) = 1 .. d1 + s1
        <4>1. dst.num[1] = d1 /\ src.num[1] = s1 /\ m.num[1] = d1 + s1
          BY <1>3 DEF d1, s1
        <4>2. /\ Span(dst, 1) = 0 + 1 .. 0 + d1 /\ Span(src, 1) = 0 + 1 .. 0 + s1
              /\ Span(m, 1) = 0 + 1 .. 0 + (d1 + s1)
          BY <4>1, <2>1, Zenon DEF Span
        <4>3. /\ 0 + 1 .. 0 + d1 = 1 .. d1 /\ 0 + 1 .. 0 + s1 = 1 .. s1
              /\ 0 + 1 .. 0 + (d1 + s1) = 1 .. d1 + s1
          BY <1>2, SMT
        <4>. QED
          BY <4>2, <4>3, Zenon
      <3>2. \A c \in Span(m, 1) :
               IF c <= d1 THEN 0 + c \in Span(dst, 1) /\ m.cells[c] = dst.cells[0 + c]
                          ELSE -d1 + c \in Span(src, 1) /\ m.cells[c] = src.cells[-d1 + c]
        <4> SUFFICES ASSUME NEW c \in 1 .. d1 + s1
                     PROVE IF c <= d1 THEN 0 + c \in 1 .. d1 /\ m.cells[c] = dst.cells[0 + c]
                           ELSE -d1 + c \in 1 .. s1 /\ m.cells[c] = src.cells[-d1 + c]
          BY <3>1, Zenon
        <4>1. CASE c <= d1
          <5>1. c \in 1 .. d1 /\ 0 + c = c
            BY <1>2, <4>1
          <5>. QED
            BY <1>7, <4>1, <5>1
        <4>2. CASE ~(c <= d1)
          <5>1. c \in d1 + 1 .. d1 + s1 /\ -d1 + c \in 1 .. s1 /\ -d1 + c = c - d1
            BY <1>2, <4>2
          <5>. QED
            BY <1>7, <4>2, <5>1
        <4>. QED
          BY <4>1, <4>2
      <3>3. d1 \in Int /\ 0 \in Int /\ -d1 \in Int
        BY <1>2
      <3>. QED
        BY <3>2, <3>3 DEF Joins
    <2>4. Joins(m, dst, src, 2)
      <3>1. /\ Span(dst, 2) = d1 + 1 .. d1 + d2 /\ Span(src, 2) = s1 + 1 .. s1 + s2
            /\ Span(m, 2) = d1 + s1 + 1 .. d1 + s1 + (d2 + s2)
        BY <1>2, <1>3, <2>1 DEF Span, d2, s2
      <3>2. \A c \in Span(m, 2) :
               IF c <= u THEN -s1 + c \in Span(dst, 2) /\ m.cells[c] = dst.cells[-s1 + c]
                         ELSE s1 - u + c \in Span(src, 2) /\ m.cells[c] = src.cells[s1 - u + c]
        <4> SUFFICES ASSUME NEW c \in d1 + s1 + 1 .. d1 + s1 + (d2 + s2)
                     PROVE IF c <= u THEN -s1 + c \in d1 + 1 .. d1 + d2 /\ m.cells[c] = dst.cells[-s1 + c]
                           ELSE s1 - u + c \in s1 + 1 .. s1 + s2 /\ m.cells[c] = src.cells[s1 - u + c]
          BY <3>1, Zenon
        <4>1. CASE c <= u
          <5>1. c \in d1 + s1 + 1 .. u /\ -s1 + c \in d1 + 1 .. d1 + d2 /\ -s1 + c = c - s1
            BY <1>2, <2>2, <4>1
          <5>. QED
            BY <1>7, <4>1, <5>1
        <4>2. CASE ~(c <= u)
          <5>1. c \in u + 1 .. u + s2 /\ s1 - u + c \in s1 + 1 .. s1 + s2 /\ s1 - u + c = s1 + c - u
            BY <1>2, <2>2, <4>2
          <5>. QED
            BY <1>7, <4>2, <5>1
        <4>. QED
          BY <4>1, <4>2
      <3>3. u \in Int /\ -s1 \in Int /\ s1 - u \in Int
        BY <1>2, <2>2
      <3>. QED
        BY <3>2, <3>3 DEF Joins
    <2>5. Joins(m, dst, src, 3)
      <3> DEFINE v == u + s2 + d3
      <3>1. /\ Span(dst, 3) = d1 + d2 + 1 .. d1 + d2 + d3 /\ Span(src, 3) = s1 + s2 + 1 .. s1 + s2 + s3
            /\ Span(m, 3) = (d1 + s1) + (d2 + s2) + 1 .. (d1 + s1) + (d2 + s2) + (d3 + s3)
        BY <1>2, <1>3, <2>1 DEF Span, d3, s3
      <3>2. \A c \in Span(m, 3) :
               IF c <= v THEN -s1 - s2 + c \in Span(dst, 3) /\ m.cells[c] = dst.cells[-s1 - s2 + c]
                         ELSE s1 + s2 - v + c \in Span(src, 3) /\ m.cells[c] = src.cells[s1 + s2 - v + c]
        <4> SUFFICES ASSUME NEW c \in (d1 + s1) + (d2 + s2) + 1 .. (d1 + s1) + (d2 + s2) + (d3 + s3)
                     PROVE IF c <= v
                           THEN -s1 - s2 + c \in d1 + d2 + 1 .. d1 + d2 + d3
                                /\ m.cells[c] = dst.cells[-s1 - s2 + c]
                           ELSE s1 + s2 - v + c \in s1 + s2 + 1 .. s1 + s2 + s3
                                /\ m.cells[c] = src.cells[s1 + s2 - v + c]
          BY <3>1, Zenon
        <4>1. CASE c <= v
          <5>1. /\ c \in u + s2 + 1 .. u + s2 + d3 /\ -s1 - s2 + c \in d1 + d2 + 1 .. d1 + d2 + d3
                /\ -s1 - s2 + c = c - s1 - s2
            BY <1>2, <2>2, <4>1
          <5>. QED
            BY <1>7, <4>1, <5>1
        <4>2. CASE ~(c <= v)
          <5>1. /\ c \in u + s2 + d3 + 1 .. u + s2 + d3 + s3
                /\ s1 + s2 - v + c \in s1 + s2 + 1 .. s1 + s2 + s3
                /\ s1 + s2 - v + c = s1 + s2 + c - (u + s2 + d3)
            BY <1>2, <2>2, <4>2
          <5>. QED
            BY <1>7, <4>2, <5>1
        <4>. QED
          BY <4>1, <4>2
      <3>3. v \in Int /\ -s1 - s2 \in Int /\ s1 + s2 - v \in Int
        BY <1>2, <2>2
      <3> HIDE DEF v
      <3>. QED
        BY <3>2, <3>3 DEF Joins
    <2>. QED
      BY <2>3, <2>4, <2>5, KindsOfPackets
  <1>. QED
    BY <1>2, <1>5, <1>6, <1>8, <1>9

-----------------------------------------------------------------------------
(* What the order of packets survives.                                     *)

LEMMA JoinedSections ==
  ASSUME NEW m \in Array, NEW a \in Array, NEW b \in Array, NEW k \in PacketKinds, Joins(m, a, b, k),
         NEW from \in Nat, NEW to \in Nat, Sorted(a, k, from, to), Sorted(b, k, from, to),
         Lower(NumbersIn(a, k), NumbersIn(b, k))
  PROVE  Sorted(m, k, from, to) /\ NumbersIn(m, k) \subseteq NumbersIn(a, k) \cup NumbersIn(b, k)
  <1>1. PICK mid \in Int, i \in Int, j \in Int : \A c \in Span(m, k) :
           IF c <= mid THEN i + c \in Span(a, k) /\ m.cells[c] = a.cells[i + c]
                       ELSE j + c \in Span(b, k) /\ m.cells[c] = b.cells[j + c]
    BY DEF Joins
  <1>2. \A c \in Span(m, k) : c \in Int
    BY ArrayIs DEF Span
  <1>3. \A x \in Span(a, k), y \in Span(b, k) : a.cells[x][2] < b.cells[y][2]
    BY DEF Lower, NumbersIn
  <1>4. ASSUME NEW c \in Span(m, k)
        PROVE  /\ m.cells[c][1] = k /\ from < m.cells[c][2] /\ m.cells[c][2] <= to
               /\ m.cells[c][2] \in NumbersIn(a, k) \cup NumbersIn(b, k)
               /\ \A d \in Span(m, k) : c < d => m.cells[c][2] < m.cells[d][2]
    <2>1. CASE c <= mid
      <3>1. i + c \in Span(a, k) /\ m.cells[c] = a.cells[i + c]
        BY <1>1, <2>1
      <3>2. ASSUME NEW d \in Span(m, k), c < d PROVE m.cells[c][2] < m.cells[d][2]
        <4>1. CASE d <= mid
          <5>1. i + d \in Span(a, k) /\ m.cells[d] = a.cells[i + d]
            BY <1>1, <4>1
          <5>2. i + c < i + d
            BY <1>2, <3>2
          <5>. QED
            BY <3>1, <5>1, <5>2 DEF Sorted
        <4>2. CASE ~(d <= mid)
          <5>1. j + d \in Span(b, k) /\ m.cells[d] = b.cells[j + d]
            BY <1>1, <4>2
          <5>. QED
            BY <1>3, <3>1, <5>1
        <4>. QED
          BY <4>1, <4>2
      <3>. QED
        BY <3>1, <3>2 DEF Sorted, NumbersIn
    <2>2. CASE ~(c <= mid)
      <3>1. j + c \in Span(b, k) /\ m.cells[c] = b.cells[j + c]
        BY <1>1, <2>2
      <3>2. ASSUME NEW d \in Span(m, k), c < d PROVE m.cells[c][2] < m.cells[d][2]
        <4>1. ~(d <= mid) /\ j + c < j + d
          BY <1>2, <2>2, <3>2
        <4>2. j + d \in Span(b, k) /\ m.cells[d] = b.cells[j + d]
          BY <1>1, <4>1
        <4>. QED
          BY <3>1, <4>1, <4>2 DEF Sorted
      <3>. QED
        BY <3>1, <3>2 DEF Sorted, NumbersIn
    <2>. QED
      BY <2>1, <2>2
  <1>. QED
    BY <1>4 DEF Sorted, NumbersIn

\* The part of a queue that is not below the first n.
Rest(q, n) == SubSeq(q, n + 1, Len(q))

LEMMA RestIs ==
  ASSUME NEW q \in Seq(Numbered), NEW n \in 0 .. Len(q)
  PROVE  /\ Rest(q, n) \in Seq(Numbered) /\ Len(Rest(q, n)) <= Len(q)
         /\ \A i \in DOMAIN Rest(q, n) : n + i \in DOMAIN q /\ Rest(q, n)[i] = q[n + i] /\ i \in Nat /\ i > 0
  <1>1. Len(q) \in Nat /\ DOMAIN q = 1 .. Len(q) /\ \A i \in 1 .. Len(q) : q[i] \in Numbered
    BY LenProperties, ElementOfSeq
  <1>2. \A i \in n + 1 .. Len(q) : q[i] \in Numbered
    BY <1>1
  <1>3. n + 1 \in Int /\ Len(q) \in Int
    BY <1>1
  <1>4. /\ SubSeq(q, n + 1, Len(q)) \in Seq(Numbered)
        /\ Len(SubSeq(q, n + 1, Len(q))) = IF n + 1 <= Len(q) THEN Len(q) - (n + 1) + 1 ELSE 0
        /\ \A i \in 1 .. Len(q) - (n + 1) + 1 : SubSeq(q, n + 1, Len(q))[i] = q[n + 1 + i - 1]
    BY <1>2, <1>3, SubSeqProperties
  <1>5. /\ Rest(q, n) \in Seq(Numbered)
        /\ Len(Rest(q, n)) = IF n + 1 <= Len(q) THEN Len(q) - (n + 1) + 1 ELSE 0
        /\ \A i \in 1 .. Len(q) - (n + 1) + 1 : Rest(q, n)[i] = q[n + 1 + i - 1]
    BY <1>4 DEF Rest
  <1>6. DOMAIN Rest(q, n) = 1 .. Len(Rest(q, n))
    BY <1>5, LenProperties
  <1>8. Len(Rest(q, n)) \in Nat
    BY <1>5, LenProperties
  <1>9. /\ Len(Rest(q, n)) <= Len(q)
        /\ \A i \in 1 .. Len(Rest(q, n)) :
              /\ i \in 1 .. Len(q) - (n + 1) + 1 /\ n + 1 + i - 1 = n + i /\ n + i \in 1 .. Len(q)
              /\ i \in Nat /\ i > 0
    <2> DEFINE l == Len(q)
               r == Len(Rest(q, n))
    <2>1. (n + 1 <= l => r = l - (n + 1) + 1) /\ (~(n + 1 <= l) => r = 0)
      BY <1>5, Zenon
    <2>2. l \in Nat /\ r \in Nat /\ n \in 0 .. l
      BY <1>1, <1>8
    <2> HIDE DEF l, r
    <2>3. /\ r <= l
          /\ \A i \in 1 .. r : /\ i \in 1 .. l - (n + 1) + 1 /\ n + 1 + i - 1 = n + i /\ n + i \in 1 .. l
                              /\ i \in Nat /\ i > 0
      BY <2>1, <2>2
    <2>. QED
      BY <2>3 DEF l, r
  <1>10. \A i \in 1 .. Len(Rest(q, n)) : Rest(q, n)[i] = q[n + i]
    BY <1>5, <1>9, Zenon
  <1>. QED
    BY <1>1, <1>5, <1>6, <1>9, <1>10

\* What is packed goes in front of what stays in the queue.
LEMMA TakenIs ==
  ASSUME FeedTypes
  PROVE  Taken \in Nums /\ \A k \in PacketKinds : Taken[k] \in 0 .. Len(in_queue[k])
  <1> DEFINE n1 == AtMost(Len(in_queue[1]), CellsPerArray)
             n2 == AtMost(Len(in_queue[2]), CellsPerArray - n1)
             n3 == AtMost(Len(in_queue[3]), CellsPerArray - n1 - n2)
  <1>1. /\ Len(in_queue[1]) \in Nat /\ Len(in_queue[2]) \in Nat /\ Len(in_queue[3]) \in Nat
        /\ CellsPerArray \in Nat
    BY KindsOfPackets, SizesAre, LenProperties DEF FeedTypes
  <1>2. \A x, n \in Nat : AtMost(x, n) \in 0 .. x /\ AtMost(x, n) <= n
    BY DEF AtMost
  <1>3. n1 \in 0 .. Len(in_queue[1]) /\ n1 <= CellsPerArray
    BY <1>1, <1>2, Zenon
  <1>4. n2 \in 0 .. Len(in_queue[2]) /\ n1 + n2 <= CellsPerArray
    <2>1. CellsPerArray - n1 \in Nat
      BY <1>1, <1>3
    <2>2. n2 \in 0 .. Len(in_queue[2]) /\ n2 <= CellsPerArray - n1
      BY <1>1, <1>2, <2>1, Zenon
    <2> HIDE DEF n1, n2
    <2>. QED
      BY <1>1, <1>3, <2>2
  <1>5. n3 \in 0 .. Len(in_queue[3]) /\ n1 + n2 + n3 <= CellsPerArray
    <2>1. CellsPerArray - n1 - n2 \in Nat
      <3> HIDE DEF n1, n2
      <3>. QED
        BY <1>1, <1>3, <1>4
    <2>2. n3 \in 0 .. Len(in_queue[3]) /\ n3 <= CellsPerArray - n1 - n2
      BY <1>1, <1>2, <2>1, Zenon
    <2> HIDE DEF n1, n2, n3
    <2>. QED
      BY <1>1, <1>3, <1>4, <2>2
  <1>6. Taken = <<n1, n2, n3>>
    BY DEF Taken
  <1> HIDE DEF n1, n2, n3
  <1>7. n1 \in 0 .. CellsPerArray /\ n2 \in 0 .. CellsPerArray /\ n3 \in 0 .. CellsPerArray
    BY <1>1, <1>3, <1>4, <1>5
  <1>8. Taken[1] = n1 /\ Taken[2] = n2 /\ Taken[3] = n3
    BY <1>6
  <1>9. Taken \in [PacketKinds -> 0 .. CellsPerArray]
    BY <1>6, <1>7 DEF PacketKinds
  <1>10. Cardinal(Taken) <= CellsPerArray
    <2>1. Cardinal(Taken) = n1 + n2 + n3
      BY <1>1, <1>8, <1>9, BeforeIs
    <2>. QED
      BY <1>5, <2>1
  <1>11. \A k \in PacketKinds : Taken[k] \in 0 .. Len(in_queue[k])
    <2>1. \A k \in PacketKinds : k = 1 \/ k = 2 \/ k = 3
      BY KindsOfPackets
    <2>2. Taken[1] \in 0 .. Len(in_queue[1]) /\ Taken[2] \in 0 .. Len(in_queue[2]) /\ Taken[3] \in 0 .. Len(in_queue[3])
      BY <1>3, <1>4, <1>5, <1>8
    <2>. QED
      BY <2>1, <2>2, Zenon
  <1>. QED
    BY <1>9, <1>10, <1>11 DEF Nums

LEMMA PackedIs ==
  ASSUME FeedTypes, NEW num \in Nums, \A k \in PacketKinds : num[k] \in 0 .. Len(in_queue[k])
  PROVE  /\ PackedArray(num) \in Array /\ PackedArray(num).num = num
         /\ \A k \in PacketKinds : \E off \in Int : \A c \in Span(PackedArray(num), k) :
               off + c \in 1 .. num[k] /\ PackedArray(num).cells[c] = in_queue[k][off + c]
  <1> DEFINE n1 == num[1]
             n2 == num[2]
             n3 == num[3]
             p1 == SubSeq(in_queue[1], 1, num[1])
             p2 == SubSeq(in_queue[2], 1, num[2])
             p3 == SubSeq(in_queue[3], 1, num[3])
             ps == p1 \o p2 \o p3
             a == PackedArray(num)
  <1>0. \A n \in Nat : \A q \in Seq(Numbered) : n \in 0 .. Len(q) =>
           /\ SubSeq(q, 1, n) \in Seq(Numbered) /\ Len(SubSeq(q, 1, n)) = n
           /\ \A i \in 1 .. n : SubSeq(q, 1, n)[i] = q[i]
    <2> SUFFICES ASSUME NEW n \in Nat, NEW q \in Seq(Numbered), n \in 0 .. Len(q)
                 PROVE  /\ SubSeq(q, 1, n) \in Seq(Numbered) /\ Len(SubSeq(q, 1, n)) = n
                        /\ \A i \in 1 .. n : SubSeq(q, 1, n)[i] = q[i]
      OBVIOUS
    <2>1. Len(q) \in Nat /\ \A i \in 1 .. Len(q) : q[i] \in Numbered
      BY LenProperties, ElementOfSeq
    <2>2. \A i \in 1 .. n : q[i] \in Numbered
      BY <2>1
    <2>3. 1 \in Int /\ n \in Int
      OBVIOUS
    <2>4. /\ SubSeq(q, 1, n) \in Seq(Numbered)
          /\ Len(SubSeq(q, 1, n)) = IF 1 <= n THEN n - 1 + 1 ELSE 0
          /\ \A i \in 1 .. n - 1 + 1 : SubSeq(q, 1, n)[i] = q[1 + i - 1]
      BY <2>2, <2>3, SubSeqProperties
    <2>. QED
      BY <2>4
  <1>1. /\ in_queue[1] \in Seq(Numbered) /\ in_queue[2] \in Seq(Numbered) /\ in_queue[3] \in Seq(Numbered)
        /\ num \in [PacketKinds -> Nat] /\ num \in [PacketKinds -> 0 .. CellsPerArray]
        /\ Cardinal(num) <= CellsPerArray
        /\ n1 \in Nat /\ n2 \in Nat /\ n3 \in Nat /\ CellsPerArray \in Nat
        /\ n1 \in 0 .. Len(in_queue[1]) /\ n2 \in 0 .. Len(in_queue[2]) /\ n3 \in 0 .. Len(in_queue[3])
    <2>1. num \in [PacketKinds -> 0 .. CellsPerArray] /\ Cardinal(num) <= CellsPerArray
      BY DEF Nums
    <2>2. num \in [PacketKinds -> Nat]
      BY <2>1
    <2>. QED
      BY <2>1, <2>2, KindsOfPackets, SizesAre DEF FeedTypes
  <1>2. /\ p1 \in Seq(Numbered) /\ Len(p1) = n1 /\ \A i \in 1 .. n1 : p1[i] = in_queue[1][i]
        /\ p2 \in Seq(Numbered) /\ Len(p2) = n2 /\ \A i \in 1 .. n2 : p2[i] = in_queue[2][i]
        /\ p3 \in Seq(Numbered) /\ Len(p3) = n3 /\ \A i \in 1 .. n3 : p3[i] = in_queue[3][i]
    BY <1>0, <1>1
  <1> HIDE DEF p1, p2, p3, n1, n2, n3
  <1>3. /\ p1 \o p2 \in Seq(Numbered) /\ Len(p1 \o p2) = n1 + n2
        /\ \A i \in 1 .. n1 + n2 : (p1 \o p2)[i] = IF i <= n1 THEN p1[i] ELSE p2[i - n1]
    <2>1. p1 \in Seq(Numbered) /\ Len(p1) = n1 /\ p2 \in Seq(Numbered) /\ Len(p2) = n2
      BY <1>2
    <2>2. /\ p1 \o p2 \in Seq(Numbered) /\ Len(p1 \o p2) = Len(p1) + Len(p2)
          /\ \A i \in 1 .. Len(p1) + Len(p2) :
                (p1 \o p2)[i] = IF i <= Len(p1) THEN p1[i] ELSE p2[i - Len(p1)]
      BY <2>1, ConcatProperties
    <2>. QED
      BY <2>1, <2>2, Zenon
  <1>4. /\ ps \in Seq(Numbered) /\ Len(ps) = n1 + n2 + n3
        /\ \A i \in 1 .. n1 + n2 + n3 :
              ps[i] = IF i <= n1 + n2 THEN (p1 \o p2)[i] ELSE p3[i - (n1 + n2)]
    <2> DEFINE p12 == p1 \o p2
               n12 == n1 + n2
    <2> HIDE DEF p12, n12
    <2>1. p12 \in Seq(Numbered) /\ Len(p12) = n12 /\ p3 \in Seq(Numbered) /\ Len(p3) = n3
      BY <1>2, <1>3 DEF p12, n12
    <2>2. /\ p12 \o p3 \in Seq(Numbered) /\ Len(p12 \o p3) = Len(p12) + Len(p3)
          /\ \A i \in 1 .. Len(p12) + Len(p3) :
                (p12 \o p3)[i] = IF i <= Len(p12) THEN p12[i] ELSE p3[i - Len(p12)]
      BY <2>1, ConcatProperties
    <2>. QED
      BY <2>1, <2>2, Zenon DEF p12, n12
  <1>5. a.num = num /\ a.cells = [c \in Cells |-> IF c \in DOMAIN ps THEN ps[c] ELSE NoPacket]
        /\ a = [num |-> num, cells |-> [c \in Cells |-> IF c \in DOMAIN ps THEN ps[c] ELSE NoPacket]]
    BY DEF PackedArray, p1, p2, p3
  <1> HIDE DEF ps, a
  <1>6. DOMAIN ps = 1 .. n1 + n2 + n3
    BY <1>4, LenProperties
  <1>7. a \in Array
    <2>1. \A c \in Cells : (IF c \in DOMAIN ps THEN ps[c] ELSE NoPacket) \in Numbered
      BY <1>4, <1>6, ElementOfSeq DEF NoPacket, Numbered
    <2>2. a.cells \in [Cells -> Numbered]
      BY <1>5, <2>1
    <2>. QED
      BY <1>5, <2>2 DEF Array
  <1>8. /\ num[1] = n1 /\ num[2] = n2 /\ num[3] = n3
        /\ Cardinal(num) = n1 + n2 + n3 /\ Before(num, 1) = 0 /\ Before(num, 2) = n1
        /\ Before(num, 3) = n1 + n2
    BY <1>1, BeforeIs DEF n1, n2, n3
  <1>9. \A c \in 1 .. n1 + n2 + n3 : a.cells[c] = ps[c]
    <2>1. \A c \in 1 .. n1 + n2 + n3 : c \in Cells
      BY <1>1, <1>8 DEF Cells
    <2>. QED
      BY <1>5, <1>6, <2>1
  <1>10. \A c \in Span(a, 1) : 0 + c \in 1 .. n1 /\ a.cells[c] = in_queue[1][0 + c]
    <2>0. Span(a, 1) = 1 .. n1
      BY <1>1, <1>5, <1>8 DEF Span
    <2> SUFFICES ASSUME NEW c \in 1 .. n1
                 PROVE 0 + c \in 1 .. n1 /\ a.cells[c] = in_queue[1][0 + c]
      BY <2>0, Zenon
    <2>1. /\ c \in 1 .. n1 + n2 + n3 /\ c <= n1 + n2 /\ c <= n1
          /\ c \in 1 .. n1 + n2 /\ 0 + c = c
      BY <1>1
    <2>2. a.cells[c] = ps[c] /\ ps[c] = (p1 \o p2)[c]
      BY <1>4, <1>9, <2>1, Zenon
    <2>3. (p1 \o p2)[c] = p1[c] /\ p1[c] = in_queue[1][c]
      BY <1>2, <1>3, <2>1, Zenon
    <2>. QED
      BY <2>1, <2>2, <2>3
  <1>11. \A c \in Span(a, 2) : -n1 + c \in 1 .. n2 /\ a.cells[c] = in_queue[2][-n1 + c]
    <2> SUFFICES ASSUME NEW c \in n1 + 1 .. n1 + n2
                 PROVE -n1 + c \in 1 .. n2 /\ a.cells[c] = in_queue[2][-n1 + c]
      BY <1>1, <1>5, <1>8 DEF Span
    <2>1. /\ c \in 1 .. n1 + n2 + n3 /\ c <= n1 + n2 /\ ~(c <= n1)
          /\ c \in 1 .. n1 + n2 /\ -n1 + c = c - n1 /\ -n1 + c \in 1 .. n2
      BY <1>1
    <2>2. a.cells[c] = ps[c] /\ ps[c] = (p1 \o p2)[c]
      BY <1>4, <1>9, <2>1, Zenon
    <2>3. (p1 \o p2)[c] = p2[c - n1]
      BY <1>3, <2>1, Zenon
    <2>. QED
      BY <1>2, <2>1, <2>2, <2>3
  <1>12. \A c \in Span(a, 3) : -(n1 + n2) + c \in 1 .. n3
                               /\ a.cells[c] = in_queue[3][-(n1 + n2) + c]
    <2> SUFFICES ASSUME NEW c \in n1 + n2 + 1 .. n1 + n2 + n3
                 PROVE -(n1 + n2) + c \in 1 .. n3
                       /\ a.cells[c] = in_queue[3][-(n1 + n2) + c]
      BY <1>1, <1>5, <1>8 DEF Span
    <2>1. /\ c \in 1 .. n1 + n2 + n3 /\ ~(c <= n1 + n2)
          /\ -(n1 + n2) + c = c - (n1 + n2) /\ -(n1 + n2) + c \in 1 .. n3
      BY <1>1
    <2>2. a.cells[c] = ps[c] /\ ps[c] = p3[c - (n1 + n2)]
      BY <1>4, <1>9, <2>1, Zenon
    <2>. QED
      BY <1>2, <2>1, <2>2
  <1>13. ASSUME NEW k \in PacketKinds
         PROVE  \E off \in Int : \A c \in Span(a, k) :
                   off + c \in 1 .. num[k] /\ a.cells[c] = in_queue[k][off + c]
    <2>1. 0 \in Int /\ -n1 \in Int /\ -(n1 + n2) \in Int
      BY <1>1
    <2>2. CASE k = 1
      BY <1>10, <1>8, <2>1, <2>2
    <2>3. CASE k = 2
      BY <1>11, <1>8, <2>1, <2>3
    <2>4. CASE k = 3
      BY <1>12, <1>8, <2>1, <2>4
    <2>. QED
      BY <2>2, <2>3, <2>4, KindsOfPackets
  <1>. QED
    BY <1>5, <1>7, <1>13 DEF a

\* The last packet of a section is above all others of it.
LEMMA LastIs ==
  ASSUME NEW a \in Array, NEW k \in PacketKinds, NEW otherwise \in Nat
  PROVE  \/ Span(a, k) = {} /\ LastOf(Section(a, k), k, otherwise) = otherwise
         \/ \E c \in Span(a, k) :
               /\ LastOf(Section(a, k), k, otherwise) = a.cells[c][2]
               /\ \A d \in Span(a, k) : d <= c
  <1> DEFINE b == Before(a.num, k)
             n == a.num[k]
             sec == Section(a, k)
  <1>1. /\ a.cells \in [Cells -> Numbered] /\ b \in Nat /\ n \in Nat /\ b + n <= Cardinal(a.num)
        /\ Cardinal(a.num) <= CellsPerArray /\ CellsPerArray \in Nat /\ Cardinal(a.num) \in Int
    BY ArrayIs, BeforeIs, SizesAre
  <1>2. Span(a, k) = b + 1 .. b + n
    BY DEF Span
  <1>3. sec = SubSeq(a.cells, b + 1, b + n)
    BY DEF Section
  <1> HIDE DEF b, n, sec
  <1>4. b + n \in Int /\ b + n <= CellsPerArray /\ b + 1 \in Int /\ b + 1 >= 1
    BY <1>1
  <1>5. a.cells \in Seq(Numbered)
    BY <1>1 DEF Cells
  <1>6. \A i \in b + 1 .. b + n : a.cells[i] \in Numbered
    BY <1>1, <1>4 DEF Cells
  <1> DEFINE lo == b + 1
             hi == b + n
  <1>7. /\ lo \in Int /\ hi \in Int /\ \A i \in lo .. hi : a.cells[i] \in Numbered
        /\ sec = SubSeq(a.cells, lo, hi)
    BY <1>3, <1>4, <1>6
  <1>10. lo = b + 1 /\ hi = b + n
    OBVIOUS
  <1> HIDE DEF lo, hi
  <1>11. /\ sec \in Seq(Numbered)
         /\ Len(sec) = IF lo <= hi THEN hi - lo + 1 ELSE 0
         /\ \A i \in 1 .. hi - lo + 1 : sec[i] = a.cells[lo + i - 1]
    BY <1>7, SubSeqProperties
  <1>8. CASE n = 0
    <2>1. Len(sec) = 0
      BY <1>1, <1>8, <1>10, <1>11
    <2>2. sec = <<>>
      BY <1>11, <2>1, EmptySeq
    <2>3. Span(a, k) = {}
      BY <1>1, <1>2, <1>8
    <2>. QED
      BY <2>2, <2>3 DEF LastOf, sec
  <1>9. CASE n # 0
    <2>1. lo <= hi /\ hi - lo + 1 = n /\ n \in 1 .. n /\ lo + n - 1 = b + n
      BY <1>1, <1>9, <1>10
    <2>2. Len(sec) = n /\ sec[n] = a.cells[b + n]
      BY <1>11, <2>1, Zenon
    <2>3. sec # <<>>
      BY <1>9, <2>2, EmptySeq
    <2>4. b + n \in Span(a, k) /\ \A d \in Span(a, k) : d <= b + n
      BY <1>1, <1>2, <1>9
    <2>. QED
      BY <2>2, <2>3, <2>4 DEF LastOf, sec
  <1>. QED
    BY <1>8, <1>9

LEMMA NumbersAre ==
  ASSUME NEW k \in PacketKinds
  PROVE  /\ \A a \in Array : NumbersIn(a, k) \subseteq Nat
         /\ \A q \in Seq(Numbered) : NumbersOf(q) \subseteq Nat
  <1>1. \A a \in Array : NumbersIn(a, k) \subseteq Nat
    BY ArrayIs DEF NumbersIn
  <1>2. \A p \in Numbered : p[2] \in Nat
    BY DEF Numbered
  <1>3. \A q \in Seq(Numbered) : \A x \in DOMAIN q : q[x] \in Numbered
    BY LenProperties, ElementOfSeq
  <1>. QED
    BY <1>1, <1>2, <1>3 DEF NumbersOf

\* More may have arrived, and more been fed, than an order was stated for.
LEMMA SortedMore ==
  ASSUME NEW a \in Array, NEW k \in PacketKinds, NEW from \in Nat, NEW to \in Nat, NEW since \in Nat,
         NEW more \in Nat, Sorted(a, k, from, to), to <= more, \A n \in NumbersIn(a, k) : since < n
  PROVE  Sorted(a, k, since, more)
  <1>1. \A c \in Span(a, k) : a.cells[c][2] \in Nat /\ a.cells[c][2] \in NumbersIn(a, k)
    BY ArrayIs DEF NumbersIn
  <1>. QED
    BY <1>1 DEF Sorted

LEMMA SortedQueueMore ==
  ASSUME NEW q \in Seq(Numbered), NEW k \in PacketKinds, NEW from \in Nat, NEW to \in Nat, NEW since \in Nat,
         NEW more \in Nat, SortedQueue(q, k, from, to), to <= more, \A n \in NumbersOf(q) : since < n
  PROVE  SortedQueue(q, k, since, more)
  <1>1. \A x \in DOMAIN q : q[x] \in Numbered /\ q[x][2] \in NumbersOf(q)
    BY LenProperties, ElementOfSeq DEF NumbersOf
  <1>2. \A p \in Numbered : p[2] \in Nat
    BY DEF Numbered
  <1>. QED
    BY <1>1, <1>2 DEF SortedQueue

LEMMA SortedArraysMore ==
  ASSUME NEW w \in Seq(Array), NEW k \in PacketKinds, NEW from \in Nat, NEW to \in Nat, NEW since \in Nat,
         NEW more \in Nat, SortedArrays(w, k, from, to), to <= more,
         \A i \in DOMAIN w : \A n \in NumbersIn(w[i], k) : since < n
  PROVE  SortedArrays(w, k, since, more)
  <1>1. \A i \in DOMAIN w : w[i] \in Array
    BY LenProperties, ElementOfSeq
  <1>2. \A i \in DOMAIN w : Sorted(w[i], k, since, more)
    BY <1>1, SortedMore DEF SortedArrays
  <1>. QED
    BY <1>2 DEF SortedArrays

\* An array put behind the others.
LEMMA AppendedArray ==
  ASSUME NEW w \in Seq(Array), NEW a \in Array, NEW k \in PacketKinds, NEW from \in Nat, NEW to \in Nat,
         SortedArrays(w, k, from, to), Sorted(a, k, from, to), AllLower(w, k, NumbersIn(a, k))
  PROVE  /\ Append(w, a) \in Seq(Array) /\ Len(Append(w, a)) = Len(w) + 1
         /\ SortedArrays(Append(w, a), k, from, to)
         /\ \A S : AllLower(w, k, S) /\ Lower(NumbersIn(a, k), S) => AllLower(Append(w, a), k, S)
  <1> DEFINE l == Len(w)
             v == Append(w, a)
  <1>1. /\ v \in Seq(Array) /\ Len(v) = l + 1 /\ l \in Nat /\ DOMAIN w = 1 .. l
        /\ \A i \in 1 .. l : v[i] = w[i]
    BY AppendProperties, LenProperties
  <1>2. v[l + 1] = a /\ DOMAIN v = 1 .. l + 1
    BY <1>1, AppendProperties, LenProperties
  <1> HIDE DEF v, l
  <1>3. \A i \in DOMAIN v : \/ i \in DOMAIN w /\ v[i] = w[i] /\ i < l + 1
                            \/ i = l + 1 /\ v[i] = a
    BY <1>1, <1>2
  <1>4. \A i \in DOMAIN v : Sorted(v[i], k, from, to)
    BY <1>3 DEF SortedArrays
  <1>5. ASSUME NEW i \in DOMAIN v, NEW j \in DOMAIN v, i < j
        PROVE  Lower(NumbersIn(v[i], k), NumbersIn(v[j], k))
    <2>1. i \in DOMAIN w /\ v[i] = w[i]
      BY <1>1, <1>2, <1>3, <1>5
    <2>2. CASE j \in DOMAIN w /\ v[j] = w[j]
      BY <1>5, <2>1, <2>2 DEF SortedArrays
    <2>3. CASE j = l + 1 /\ v[j] = a
      BY <2>1, <2>3 DEF AllLower
    <2>. QED
      BY <1>3, <2>2, <2>3
  <1>6. \A S : AllLower(w, k, S) /\ Lower(NumbersIn(a, k), S) => AllLower(v, k, S)
    BY <1>3 DEF AllLower
  <1>7. Len(v) = Len(w) + 1
    BY <1>1 DEF l
  <1>. QED
    BY <1>1, <1>4, <1>5, <1>6, <1>7 DEF SortedArrays, v

\* The first array of the queue, and the others.
LEMMA FirstArray ==
  ASSUME NEW w \in Seq(Array), w # <<>>, NEW k \in PacketKinds, NEW from \in Nat, NEW to \in Nat,
         SortedArrays(w, k, from, to)
  PROVE  /\ Head(w) \in Array /\ Tail(w) \in Seq(Array) /\ Len(Tail(w)) = Len(w) - 1
         /\ Sorted(Head(w), k, from, to) /\ SortedArrays(Tail(w), k, from, to)
         /\ \A i \in DOMAIN Tail(w) : Lower(NumbersIn(Head(w), k), NumbersIn(Tail(w)[i], k))
         /\ \A S : AllLower(w, k, S) => Lower(NumbersIn(Head(w), k), S) /\ AllLower(Tail(w), k, S)
  <1>1. /\ Head(w) \in Array /\ Tail(w) \in Seq(Array) /\ Len(Tail(w)) = Len(w) - 1
        /\ \A i \in 1 .. Len(Tail(w)) : Tail(w)[i] = w[i + 1]
    BY HeadTailProperties
  <1>2. Len(w) \in Nat \ {0} /\ DOMAIN w = 1 .. Len(w) /\ DOMAIN Tail(w) = 1 .. Len(Tail(w))
    BY <1>1, EmptySeq, LenProperties
  <1>3. 1 \in DOMAIN w /\ Head(w) = w[1]
    BY <1>2
  <1>4. \A i \in DOMAIN Tail(w) : i + 1 \in DOMAIN w /\ Tail(w)[i] = w[i + 1] /\ 1 < i + 1
    BY <1>1, <1>2
  <1>5. \A i, j \in DOMAIN Tail(w) : i < j => i + 1 < j + 1
    BY <1>2
  <1>6. Sorted(Head(w), k, from, to) /\ \A i \in DOMAIN Tail(w) : Sorted(Tail(w)[i], k, from, to)
    BY <1>3, <1>4 DEF SortedArrays
  <1>7. \A i, j \in DOMAIN Tail(w) : i < j => Lower(NumbersIn(Tail(w)[i], k), NumbersIn(Tail(w)[j], k))
    BY <1>4, <1>5 DEF SortedArrays
  <1>8. \A i \in DOMAIN Tail(w) : Lower(NumbersIn(Head(w), k), NumbersIn(Tail(w)[i], k))
    BY <1>3, <1>4 DEF SortedArrays
  <1>9. \A S : AllLower(w, k, S) => Lower(NumbersIn(Head(w), k), S) /\ AllLower(Tail(w), k, S)
    BY <1>3, <1>4 DEF AllLower
  <1>. QED
    BY <1>1, <1>6, <1>7, <1>8, <1>9 DEF SortedArrays

-----------------------------------------------------------------------------
(* The steps.                                                              *)

WayTypes(k) ==
    /\ fed[k] \in Nat /\ arrived[k] \in Nat /\ arrived[k] <= MaxPackets[k]
    /\ in_queue[k] \in Seq(Numbered) /\ Len(in_queue[k]) <= InLen[k]
    /\ wanQueue \in Seq(Array) /\ scratch \in Array /\ carried \in Array

LEMMA WayTypesAre ==
  ASSUME FeedTypes, NEW k \in PacketKinds
  PROVE  WayTypes(k)
  BY DEF FeedTypes, WayTypes

\* What is below a set is below a part of it.
LEMMA LowerPart ==
  ASSUME NEW S, NEW T, T \subseteq S
  PROVE  /\ \A U : Lower(U, S) => Lower(U, T)
         /\ \A U : Lower(S, U) => Lower(T, U)
         /\ \A w, k : AllLower(w, k, S) => AllLower(w, k, T)
  BY DEF Lower, AllLower

LEMMA NothingLower ==
  /\ \A S : Lower(S, {}) /\ Lower({}, S)
  /\ \A w, k : AllLower(w, k, {})
  /\ \A k, S, from, to : AllLower(<<>>, k, S) /\ SortedArrays(<<>>, k, from, to)
  /\ \A k, from, to : SortedQueue(<<>>, k, from, to) /\ NumbersOf(<<>>) = {}
  <1>1. DOMAIN <<>> = {}
    OBVIOUS
  <1>. QED
    BY <1>1 DEF Lower, AllLower, SortedArrays, SortedQueue, NumbersOf

\* A packet in no station has a number above those that have been fed, or
\* arrived since.
LEMMA WayBounds ==
  ASSUME FeedTypes, NEW k \in PacketKinds, Ways(k)
  PROVE  /\ \A i \in DOMAIN wanQueue : \A n \in NumbersIn(wanQueue[i], k) : fed[k] < n /\ n <= arrived[k]
         /\ \A n \in NumbersIn(scratch, k) : fed[k] < n /\ n <= arrived[k]
         /\ \A n \in NumbersIn(carried, k) : fed[k] < n /\ n <= arrived[k]
         /\ \A n \in NumbersOf(in_queue[k]) : fed[k] < n /\ n <= arrived[k]
  BY DEF Ways, Way, SortedArrays, Sorted, SortedQueue, NumbersIn, NumbersOf

\* However an order is stated, it only depends on the stations.
LEMMA WaysStay ==
  ASSUME NEW k \in PacketKinds, Ways(k),
         UNCHANGED <<wanQueue, scratch, carried, in_queue[k], fed[k], arrived[k]>>
  PROVE  Ways(k)'
  BY DEF Ways, Way, AllLower, SortedArrays, Sorted, SortedQueue, Lower, NumbersIn, NumbersOf, Span

LEMMA EnqueuedIs ==
  ASSUME FeedTypes, NEW num \in [PacketKinds -> 0 .. CellsPerArray], NEW k \in PacketKinds
  PROVE  Enqueued(num, k) \in 0 .. num[k] /\ Len(in_queue[k]) + Enqueued(num, k) <= InLen[k]
  <1>1. num[k] \in Nat /\ Len(in_queue[k]) \in Nat /\ InLen[k] \in Nat /\ Len(in_queue[k]) <= InLen[k]
    BY SizesAre, LenProperties DEF FeedTypes
  <1>2. \A x, l, r \in Nat : l <= r =>
           /\ AtMost(x, r - l) \in 0 .. x /\ l + AtMost(x, r - l) <= r
           /\ 0 \in 0 .. x /\ l + 0 <= r
    BY DEF AtMost
  <1>3. Enqueued(num, k) = 0 \/ Enqueued(num, k) = AtMost(num[k], InLen[k] - Len(in_queue[k]))
    BY DEF Enqueued, Room
  <1>. QED
    BY <1>1, <1>2, <1>3, Zenon

\* New packets come behind all others of their kind.
LEMMA QueuedBehind ==
  ASSUME NEW q \in Seq(Numbered), NEW k \in PacketKinds, NEW from \in Nat, NEW to \in Nat, NEW e \in Nat,
         NEW more \in Nat, to + e <= more, from <= to, SortedQueue(q, k, from, to)
  PROVE  LET new == q \o [i \in 1 .. e |-> <<k, to + i>>]
         IN  /\ new \in Seq(Numbered) /\ Len(new) = Len(q) + e
             /\ SortedQueue(new, k, from, more)
             /\ \A n \in NumbersOf(new) : n \in NumbersOf(q) \/ (n \in Nat /\ to < n)
  <1> DEFINE t == [i \in 1 .. e |-> <<k, to + i>>]
             new == q \o t
             l == Len(q)
  <1>0. k \in Nat
    BY DEF PacketKinds
  <1>1. t \in Seq(Numbered) /\ Len(t) = e /\ \A i \in 1 .. e : t[i] = <<k, to + i>>
    <2>1. \A i \in 1 .. e : <<k, to + i>> \in Numbered
      BY <1>0 DEF Numbered
    <2>2. t \in [1 .. e -> Numbered]
      BY <2>1
    <2> HIDE DEF t
    <2>3. t \in Seq(Numbered) /\ Len(t) = e
      BY <2>2
    <2>. QED
      BY <2>3 DEF t
  <1> HIDE DEF t
  <1>2. /\ new \in Seq(Numbered) /\ Len(new) = l + e
        /\ \A i \in 1 .. l + e : new[i] = IF i <= l THEN q[i] ELSE t[i - l]
    <2>1. /\ new \in Seq(Numbered) /\ Len(new) = Len(q) + Len(t)
          /\ \A i \in 1 .. Len(q) + Len(t) : new[i] = IF i <= Len(q) THEN q[i] ELSE t[i - Len(q)]
      BY <1>1, ConcatProperties
    <2>. QED
      BY <1>1, <2>1, Zenon
  <1>3. l \in Nat /\ DOMAIN q = 1 .. l /\ DOMAIN new = 1 .. l + e
    BY <1>2, LenProperties
  <1>4. \A i \in DOMAIN q : q[i] \in Numbered /\ q[i][2] \in Nat
    <2>1. \A i \in DOMAIN q : q[i] \in Numbered
      BY LenProperties, ElementOfSeq
    <2>2. \A p \in Numbered : p[2] \in Nat
      BY DEF Numbered
    <2>. QED
      BY <2>1, <2>2
  <1>5. Len(new) = Len(q) + e
    BY <1>2 DEF l
  <1> HIDE DEF new, l
  <1>6. \A i \in DOMAIN new : \/ i \in DOMAIN q /\ i <= l /\ new[i] = q[i]
                              \/ i > l /\ i - l \in 1 .. e /\ new[i] = <<k, to + (i - l)>>
    <2> SUFFICES ASSUME NEW i \in 1 .. l + e
                 PROVE \/ i \in 1 .. l /\ i <= l /\ new[i] = q[i]
                       \/ i > l /\ i - l \in 1 .. e /\ new[i] = <<k, to + (i - l)>>
      BY <1>3, Zenon
    <2>1. \/ i \in 1 .. l /\ i <= l
          \/ i > l /\ ~(i <= l) /\ i - l \in 1 .. e
      BY <1>3, SMT
    <2>2. new[i] = IF i <= l THEN q[i] ELSE t[i - l]
      BY <1>2
    <2>3. \A j \in 1 .. e : t[j] = <<k, to + j>>
      BY <1>1
    <2>. QED
      BY <2>1, <2>2, <2>3
  <1>7. ASSUME NEW x \in DOMAIN new
        PROVE  /\ new[x][1] = k /\ from < new[x][2] /\ new[x][2] <= more
               /\ new[x][2] \in NumbersOf(q) \/ (new[x][2] \in Nat /\ to < new[x][2])
               /\ \A y \in DOMAIN new : x < y => new[x][2] < new[y][2]
    <2>1. CASE x \in DOMAIN q /\ x <= l /\ new[x] = q[x]
      <3>1. /\ new[x][1] = k /\ from < new[x][2] /\ new[x][2] <= to /\ new[x][2] \in Nat
            /\ new[x][2] \in NumbersOf(q)
        BY <1>4, <2>1 DEF SortedQueue, NumbersOf
      <3>2. ASSUME NEW y \in DOMAIN new, x < y PROVE new[x][2] < new[y][2]
        <4>1. CASE y \in DOMAIN q /\ new[y] = q[y]
          BY <2>1, <3>2, <4>1 DEF SortedQueue
        <4>2. CASE y - l \in 1 .. e /\ new[y] = <<k, to + (y - l)>>
          BY <3>1, <4>2
        <4>. QED
          BY <1>6, <4>1, <4>2
      <3>. QED
        BY <3>1, <3>2
    <2>2. CASE x > l /\ x - l \in 1 .. e /\ new[x] = <<k, to + (x - l)>>
      <3>1. /\ new[x][1] = k /\ new[x][2] = to + (x - l) /\ x - l \in 1 .. e
        BY <2>2
      <3>2. from < new[x][2] /\ new[x][2] <= more /\ new[x][2] \in Nat /\ to < new[x][2]
        BY <3>1
      <3>3. ASSUME NEW y \in DOMAIN new, x < y PROVE new[x][2] < new[y][2]
        <4>1. y > l
          BY <1>3, <2>2, <3>3
        <4>2. new[y][2] = to + (y - l) /\ y - l \in 1 .. e
          BY <1>3, <1>6, <4>1
        <4>3. x - l < y - l
          BY <1>3, <3>3
        <4>. QED
          BY <3>1, <4>2, <4>3
      <3>. QED
        BY <3>1, <3>2, <3>3
    <2>. QED
      BY <1>6, <2>1, <2>2
  <1>. QED
    BY <1>2, <1>5, <1>7 DEF SortedQueue, NumbersOf, new, t

LEMMA UnpackKeeps ==
  ASSUME FeedInv, Unpack
  PROVE  FeedInv'
  <1>1. FeedTypes /\ Forwarding
    BY DEF FeedInv
  <1>2. PICK num \in [PacketKinds -> 0 .. CellsPerArray] :
           /\ \A k \in PacketKinds : arrived[k] + num[k] <= MaxPackets[k]
           /\ arrived' = [k \in PacketKinds |-> arrived[k] + num[k]]
           /\ in_queue' = [k \in PacketKinds |->
                 in_queue[k] \o [i \in 1 .. Enqueued(num, k) |-> <<k, arrived[k] + i>>]]
    BY DEF Unpack
  <1>3. UNCHANGED <<carried, slots_used, stage, scratch, wanQueue, wanTask, hasIP, fed>>
    BY DEF Unpack, serverVars
  <1>4. ASSUME NEW k \in PacketKinds
        PROVE  /\ arrived'[k] \in Nat /\ arrived'[k] <= MaxPackets[k] /\ arrived[k] <= arrived'[k]
               /\ in_queue'[k] \in Seq(Numbered) /\ Len(in_queue'[k]) <= InLen[k]
               /\ SortedQueue(in_queue'[k], k, fed[k], arrived'[k])
               /\ \A n \in NumbersOf(in_queue'[k]) :
                     n \in NumbersOf(in_queue[k]) \/ (n \in Nat /\ arrived[k] < n)
    <2> DEFINE e == Enqueued(num, k)
    <2>1. WayTypes(k) /\ Ways(k)
      BY <1>1, WayTypesAre DEF FeedInv
    <2>2. /\ arrived'[k] = arrived[k] + num[k] /\ num[k] \in Nat /\ arrived[k] \in Nat
          /\ arrived[k] + num[k] <= MaxPackets[k]
      BY <1>2, <2>1 DEF WayTypes
    <2>3. e \in 0 .. num[k] /\ Len(in_queue[k]) + e <= InLen[k]
      BY <1>1, EnqueuedIs
    <2>4. in_queue'[k] = in_queue[k] \o [i \in 1 .. e |-> <<k, arrived[k] + i>>]
      BY <1>2
    <2> HIDE DEF e
    <2>5. /\ e \in Nat /\ arrived[k] + e <= arrived'[k] /\ arrived'[k] \in Nat /\ arrived[k] <= arrived'[k]
      BY <2>2, <2>3
    <2>6. in_queue[k] \in Seq(Numbered) /\ fed[k] \in Nat /\ fed[k] <= arrived[k]
          /\ SortedQueue(in_queue[k], k, fed[k], arrived[k])
      BY <2>1 DEF WayTypes, Ways, Way
    <2>7. LET new == in_queue[k] \o [i \in 1 .. e |-> <<k, arrived[k] + i>>]
          IN  /\ new \in Seq(Numbered) /\ Len(new) = Len(in_queue[k]) + e
              /\ SortedQueue(new, k, fed[k], arrived'[k])
              /\ \A n \in NumbersOf(new) : n \in NumbersOf(in_queue[k]) \/ (n \in Nat /\ arrived[k] < n)
      BY <2>2, <2>5, <2>6, QueuedBehind
    <2>. QED
      BY <2>2, <2>3, <2>4, <2>5, <2>7
  <1>5. FeedTypes'
    <2>1. arrived' \in [PacketKinds -> Nat] /\ in_queue' \in [PacketKinds -> Seq(Numbered)]
      <3>1. arrived' = [k \in PacketKinds |-> arrived'[k]] /\ in_queue' = [k \in PacketKinds |-> in_queue'[k]]
        BY <1>2
      <3>. QED
        BY <1>4, <3>1
    <2>. QED
      BY <1>1, <1>3, <1>4, <2>1 DEF FeedTypes
  <1>6. Forwarding'
    BY <1>1, <1>3 DEF Forwarding, QueueHalfFull
  <1>7. ASSUME NEW k \in PacketKinds PROVE Ways(k)'
    <2>1. WayTypes(k) /\ Ways(k)
      BY <1>1, WayTypesAre DEF FeedInv
    <2>2. /\ Way(wanQueue, scratch, carried, in_queue[k], k, fed[k], arrived[k]) /\ fed[k] <= arrived[k]
          /\ fed[k] \in Nat /\ arrived[k] \in Nat /\ wanQueue \in Seq(Array) /\ scratch \in Array
          /\ carried \in Array
      BY <2>1 DEF Ways, WayTypes
    <2>3. /\ SortedArrays(wanQueue, k, fed[k], arrived'[k]) /\ Sorted(scratch, k, fed[k], arrived'[k])
          /\ Sorted(carried, k, fed[k], arrived'[k])
      BY <1>1, <1>4, <2>1, <2>2, WayBounds, SortedMore, SortedArraysMore DEF Way
    <2>4. ASSUME NEW S, \A n \in S : n \in Nat /\ n <= arrived[k], Lower(S, NumbersOf(in_queue[k]))
          PROVE  Lower(S, NumbersOf(in_queue'[k]))
      <3> SUFFICES ASSUME NEW m \in S, NEW n \in NumbersOf(in_queue'[k]) PROVE m < n
        BY DEF Lower
      <3>1. n \in NumbersOf(in_queue[k]) \/ (n \in Nat /\ arrived[k] < n)
        BY <1>4
      <3>2. CASE n \in NumbersOf(in_queue[k])
        BY <2>4, <3>2 DEF Lower
      <3>3. CASE n \in Nat /\ arrived[k] < n
        BY <2>2, <2>4, <3>3
      <3>. QED
        BY <3>1, <3>2, <3>3
    <2>5. /\ Lower(NumbersIn(scratch, k), NumbersOf(in_queue'[k]))
          /\ Lower(NumbersIn(carried, k), NumbersOf(in_queue'[k]))
      BY <1>1, <2>1, <2>2, <2>4, WayBounds, NumbersAre DEF Way
    <2>6. AllLower(wanQueue, k, NumbersOf(in_queue'[k]))
      <3>1. \A i \in DOMAIN wanQueue : wanQueue[i] \in Array
        BY <2>2, LenProperties, ElementOfSeq
      <3>2. ASSUME NEW i \in DOMAIN wanQueue
            PROVE  Lower(NumbersIn(wanQueue[i], k), NumbersOf(in_queue'[k]))
        BY <1>1, <2>1, <2>2, <2>4, <3>1, WayBounds, NumbersAre DEF Way, AllLower
      <3>. QED
        BY <3>2 DEF AllLower
    <2>7. Way(wanQueue, scratch, carried, in_queue'[k], k, fed[k], arrived'[k])
      BY <1>4, <2>2, <2>3, <2>5, <2>6 DEF Way
    <2>8. fed[k] <= arrived'[k]
      BY <1>4, <2>2
    <2>. QED
      BY <1>3, <2>7, <2>8 DEF Ways
  <1>. QED
    BY <1>5, <1>6, <1>7 DEF FeedInv

\* What is packed of a kind is the front of its queue.
LEMMA PackedOrder ==
  ASSUME FeedTypes, NEW k \in PacketKinds, NEW from \in Nat, NEW to \in Nat,
         SortedQueue(in_queue[k], k, from, to)
  PROVE  LET p == PackedArray(Taken)
             q == in_queue[k]
             rest == Rest(q, Taken[k])
         IN  /\ Sorted(p, k, from, to) /\ SortedQueue(rest, k, from, to)
             /\ NumbersIn(p, k) \subseteq NumbersOf(q) /\ NumbersOf(rest) \subseteq NumbersOf(q)
             /\ Lower(NumbersIn(p, k), NumbersOf(rest))
  <1> DEFINE p == PackedArray(Taken)
             q == in_queue[k]
             n == Taken[k]
             rest == Rest(q, n)
  <1>1. q \in Seq(Numbered) /\ Len(q) \in Nat /\ DOMAIN q = 1 .. Len(q) /\ n \in 0 .. Len(q)
    BY TakenIs, LenProperties DEF FeedTypes
  <1>2. p \in Array /\ \E off \in Int : \A c \in Span(p, k) : off + c \in 1 .. n /\ p.cells[c] = q[off + c]
    BY TakenIs, PackedIs
  <1>3. PICK off \in Int : \A c \in Span(p, k) : off + c \in 1 .. n /\ p.cells[c] = q[off + c]
    BY <1>2
  <1> HIDE DEF p, q, n
  <1>4. /\ rest \in Seq(Numbered)
        /\ \A i \in DOMAIN rest : n + i \in DOMAIN q /\ rest[i] = q[n + i] /\ i \in Nat /\ i > 0
    BY <1>1, RestIs
  <1> HIDE DEF rest
  <1>5. \A x \in DOMAIN q :
           /\ q[x][1] = k /\ from < q[x][2] /\ q[x][2] <= to
           /\ \A y \in DOMAIN q : x < y => q[x][2] < q[y][2]
    BY DEF SortedQueue, q
  <1>6. \A c \in Span(p, k) : c \in Int /\ off + c \in DOMAIN q /\ p.cells[c] = q[off + c] /\ off + c <= n
    <2>1. \A c \in Span(p, k) : c \in Int
      BY <1>2, ArrayIs DEF Span
    <2>. QED
      BY <1>1, <1>3, <2>1
  <1>7. Sorted(p, k, from, to)
    <2>1. \A c, d \in Span(p, k) : c < d => off + c < off + d
      BY <1>6
    <2>. QED
      BY <1>5, <1>6, <2>1 DEF Sorted
  <1>8. SortedQueue(rest, k, from, to)
    <2>1. \A x, y \in DOMAIN rest : x < y => n + x < n + y
      BY <1>1, <1>4
    <2>. QED
      BY <1>4, <1>5, <2>1 DEF SortedQueue
  <1>9. NumbersIn(p, k) \subseteq NumbersOf(q) /\ NumbersOf(rest) \subseteq NumbersOf(q)
    BY <1>4, <1>6 DEF NumbersIn, NumbersOf
  <1>10. Lower(NumbersIn(p, k), NumbersOf(rest))
    <2>1. \A c \in Span(p, k), i \in DOMAIN rest : off + c < n + i
      BY <1>1, <1>4, <1>6
    <2>2. \A c \in Span(p, k), i \in DOMAIN rest : p.cells[c][2] < rest[i][2]
      BY <1>4, <1>5, <1>6, <2>1
    <2>. QED
      BY <2>2 DEF Lower, NumbersIn, NumbersOf
  <1>. QED
    BY <1>7, <1>8, <1>9, <1>10 DEF p, q, n, rest

LEMMA PackKeeps ==
  ASSUME FeedInv, Pack
  PROVE  FeedInv'
  <1>1. FeedTypes /\ Forwarding
    BY DEF FeedInv
  <1>2. /\ stage = "idle" /\ Cardinal(Taken) > 0
        /\ in_queue' = [k \in PacketKinds |-> Rest(in_queue[k], Taken[k])]
        /\ UNCHANGED <<arrived, scratch, wanQueue, wanTask, hasIP, fed>>
    BY DEF Pack, Rest
  <1>3. Taken \in Nums /\ \A k \in PacketKinds : Taken[k] \in 0 .. Len(in_queue[k])
    BY <1>1, TakenIs
  <1>4. /\ in_queue' \in [PacketKinds -> Seq(Numbered)]
        /\ \A k \in PacketKinds : Len(in_queue'[k]) <= InLen[k] /\ in_queue'[k] = Rest(in_queue[k], Taken[k])
    <2>1. ASSUME NEW k \in PacketKinds
          PROVE  /\ Rest(in_queue[k], Taken[k]) \in Seq(Numbered)
                 /\ Len(Rest(in_queue[k], Taken[k])) <= InLen[k]
      <3>1. WayTypes(k) /\ Taken[k] \in 0 .. Len(in_queue[k])
        BY <1>1, <1>3, WayTypesAre
      <3>2. /\ Rest(in_queue[k], Taken[k]) \in Seq(Numbered)
            /\ Len(Rest(in_queue[k], Taken[k])) <= Len(in_queue[k])
        BY <3>1, RestIs DEF WayTypes
      <3>3. Len(Rest(in_queue[k], Taken[k])) \in Nat /\ Len(in_queue[k]) \in Nat /\ InLen[k] \in Nat
            /\ Len(in_queue[k]) <= InLen[k]
        BY <3>1, <3>2, LenProperties, SizesAre DEF WayTypes
      <3>. QED
        BY <3>2, <3>3
    <2>. QED
      BY <1>2, <2>1
  <1>5. CASE hasIP
    <2>1. carried' = PackedArray(Taken) /\ slots_used' = Len(wanQueue) /\ stage' = "flush"
      BY <1>5 DEF Pack
    <2>2. PackedArray(Taken) \in Array /\ PackedArray(Taken).num = Taken
      BY <1>1, <1>3, PackedIs
    <2>3. FeedTypes'
      <3>1. Len(wanQueue) \in 0 .. WANQueueLen
        BY <1>1, LenProperties, SizesAre DEF FeedTypes
      <3>. QED
        BY <1>1, <1>2, <1>4, <2>1, <2>2, <3>1 DEF FeedTypes
    <2>4. Forwarding'
      <3>1. Len(wanQueue) <= Len(wanQueue)
        BY <1>1, LenProperties DEF FeedTypes
      <3>. QED
        BY <1>2, <2>1, <2>2, <3>1 DEF Forwarding
    <2>5. ASSUME NEW k \in PacketKinds PROVE Ways(k)'
      <3> DEFINE p == PackedArray(Taken)
                 q == in_queue[k]
                 rest == Rest(q, Taken[k])
      <3>1. WayTypes(k) /\ Ways(k)
        BY <1>1, WayTypesAre DEF FeedInv
      <3>2. Way(wanQueue, scratch, carried, q, k, fed[k], arrived[k])
        BY <3>1 DEF Ways
      <3>3. /\ Sorted(p, k, fed[k], arrived[k]) /\ SortedQueue(rest, k, fed[k], arrived[k])
            /\ NumbersIn(p, k) \subseteq NumbersOf(q) /\ NumbersOf(rest) \subseteq NumbersOf(q)
            /\ Lower(NumbersIn(p, k), NumbersOf(rest))
        BY <1>1, <3>1, <3>2, PackedOrder DEF Way, WayTypes
      <3> HIDE DEF p, q, rest
      <3>4. /\ AllLower(wanQueue, k, NumbersIn(p, k)) /\ AllLower(wanQueue, k, NumbersOf(rest))
            /\ Lower(NumbersIn(scratch, k), NumbersIn(p, k)) /\ Lower(NumbersIn(scratch, k), NumbersOf(rest))
        BY <3>2, <3>3, LowerPart DEF Way
      <3>5. Way(wanQueue, scratch, p, rest, k, fed[k], arrived[k])
        BY <3>2, <3>3, <3>4 DEF Way
      <3>6. carried' = p /\ in_queue'[k] = rest
        BY <1>4, <2>1 DEF p, q, rest
      <3>. QED
        BY <1>2, <3>1, <3>5, <3>6 DEF Ways
    <2>. QED
      BY <2>3, <2>4, <2>5 DEF FeedInv
  <1>6. CASE ~hasIP
    <2>1. UNCHANGED <<carried, slots_used, stage>>
      BY <1>6 DEF Pack
    <2>2. FeedTypes' /\ Forwarding'
      BY <1>1, <1>2, <1>4, <2>1 DEF FeedTypes, Forwarding, QueueHalfFull
    <2>3. ASSUME NEW k \in PacketKinds PROVE Ways(k)'
      <3> DEFINE q == in_queue[k]
                 rest == Rest(q, Taken[k])
      <3>1. WayTypes(k) /\ Ways(k)
        BY <1>1, WayTypesAre DEF FeedInv
      <3>2. Way(wanQueue, scratch, carried, q, k, fed[k], arrived[k])
        BY <3>1 DEF Ways
      <3>3. SortedQueue(rest, k, fed[k], arrived[k]) /\ NumbersOf(rest) \subseteq NumbersOf(q)
        BY <1>1, <3>1, <3>2, PackedOrder DEF Way, WayTypes
      <3> HIDE DEF q, rest
      <3>4. /\ AllLower(wanQueue, k, NumbersOf(rest)) /\ Lower(NumbersIn(carried, k), NumbersOf(rest))
            /\ Lower(NumbersIn(scratch, k), NumbersOf(rest))
        BY <3>2, <3>3, LowerPart DEF Way
      <3>5. Way(wanQueue, scratch, carried, rest, k, fed[k], arrived[k])
        BY <3>2, <3>3, <3>4 DEF Way
      <3>6. in_queue'[k] = rest
        BY <1>4 DEF q, rest
      <3>. QED
        BY <1>2, <2>1, <3>1, <3>5, <3>6 DEF Ways
    <2>. QED
      BY <2>2, <2>3 DEF FeedInv
  <1>. QED
    BY <1>5, <1>6

LEMMA OpportuneFlushKeeps ==
  ASSUME FeedInv, OpportuneFlush
  PROVE  FeedInv'
  <1>1. FeedTypes /\ Forwarding
    BY DEF FeedInv
  <1>2. /\ stage = "flush" /\ stage' = "send"
        /\ UNCHANGED <<arrived, in_queue, carried, wanTask, hasIP, fed>>
    BY DEF OpportuneFlush
  <1>3. CASE scratch # NoArray /\ ~QueueHalfFull
    <2>1. wanQueue' = Append(wanQueue, scratch) /\ scratch' = NoArray /\ slots_used' = slots_used + 1
      BY <1>3 DEF OpportuneFlush
    <2>2. /\ Len(wanQueue) <= slots_used /\ slots_used \in Nat /\ slots_used + 1 <= WANQueueLen
          /\ Len(wanQueue) \in Nat /\ WANQueueLen \in Nat
      BY <1>1, <1>2, <1>3, LenProperties, SizesAre DEF Forwarding, FeedTypes, QueueHalfFull
    <2>3. wanQueue' \in Seq(Array) /\ Len(wanQueue') = Len(wanQueue) + 1
      BY <1>1, <2>1, AppendProperties DEF FeedTypes
    <2>4. Len(wanQueue') <= slots_used' /\ Len(wanQueue') <= WANQueueLen /\ slots_used' \in 0 .. WANQueueLen
      BY <2>1, <2>2, <2>3
    <2>5. FeedTypes'
      BY <1>1, <1>2, <2>1, <2>3, <2>4, NothingInNoArray DEF FeedTypes
    <2>6. Forwarding'
      BY <1>1, <1>2, <2>1, <2>4 DEF Forwarding
    <2>7. ASSUME NEW k \in PacketKinds PROVE Ways(k)'
      <3>1. WayTypes(k) /\ Ways(k)
        BY <1>1, WayTypesAre DEF FeedInv
      <3>2. /\ Way(wanQueue, scratch, carried, in_queue[k], k, fed[k], arrived[k])
            /\ wanQueue \in Seq(Array) /\ scratch \in Array /\ fed[k] \in Nat /\ arrived[k] \in Nat
        BY <3>1 DEF Ways, WayTypes
      <3>3. /\ SortedArrays(wanQueue', k, fed[k], arrived[k])
            /\ AllLower(wanQueue', k, NumbersIn(carried, k)) /\ AllLower(wanQueue', k, NumbersOf(in_queue[k]))
        BY <2>1, <3>2, AppendedArray DEF Way
      <3>4. Way(wanQueue', NoArray, carried, in_queue[k], k, fed[k], arrived[k])
        BY <3>2, <3>3, NothingInNoArray, NothingLower DEF Way
      <3>. QED
        BY <1>2, <2>1, <3>1, <3>4 DEF Ways
    <2>. QED
      BY <2>5, <2>6, <2>7 DEF FeedInv
  <1>4. CASE ~(scratch # NoArray /\ ~QueueHalfFull)
    <2>1. UNCHANGED <<wanQueue, scratch, slots_used>>
      BY <1>4 DEF OpportuneFlush
    <2>2. FeedTypes'
      BY <1>1, <1>2, <2>1 DEF FeedTypes
    <2>3. Forwarding'
      BY <1>1, <1>2, <1>4, <2>1 DEF Forwarding, QueueHalfFull
    <2>4. ASSUME NEW k \in PacketKinds PROVE Ways(k)'
      BY <1>2, <2>1, WaysStay DEF FeedInv
    <2>. QED
      BY <2>2, <2>3, <2>4 DEF FeedInv
  <1>. QED
    BY <1>3, <1>4

\* Nothing changes that the server's loop relies on: it is done.
LEMMA SendTypes ==
  ASSUME FeedInv, Send, wanQueue' \in Seq(Array), Len(wanQueue') <= WANQueueLen, scratch' \in Array
  PROVE  FeedTypes' /\ Forwarding'
  <1>1. /\ stage' = "idle" /\ carried' = NoArray /\ slots_used' = 0
        /\ UNCHANGED <<arrived, in_queue, wanTask, hasIP, fed>>
    BY DEF Send
  <1>2. 0 \in 0 .. WANQueueLen
    BY SizesAre
  <1>. QED
    BY <1>1, <1>2, NothingInNoArray DEF FeedInv, FeedTypes, Forwarding

LEMMA SendKeeps ==
  ASSUME FeedInv, Send
  PROVE  FeedInv'
  <1>1. FeedTypes /\ Forwarding
    BY DEF FeedInv
  <1>2. /\ stage = "send" /\ stage' = "idle" /\ carried' = NoArray
        /\ UNCHANGED <<arrived, in_queue, wanTask, hasIP, fed>>
    BY DEF Send
  <1>3. /\ wanQueue \in Seq(Array) /\ Len(wanQueue) <= WANQueueLen /\ Len(wanQueue) \in Nat
        /\ scratch \in Array /\ carried \in Array /\ WANQueueLen \in Nat \ {0}
    BY <1>1, LenProperties, SizesAre DEF FeedTypes
  <1>4. ASSUME NEW k \in PacketKinds
        PROVE  /\ Way(wanQueue, scratch, carried, in_queue[k], k, fed[k], arrived[k])
               /\ fed[k] \in Nat /\ arrived[k] \in Nat /\ fed[k] <= arrived[k]
    BY <1>1, WayTypesAre DEF FeedInv, Ways, WayTypes
  <1>5. ASSUME NEW k \in PacketKinds,
               Way(wanQueue', scratch', NoArray, in_queue[k], k, fed[k], arrived[k])
        PROVE  Ways(k)'
    BY <1>2, <1>4, <1>5 DEF Ways
  <1>6. CASE Merge
    <2>1. Mergeable(scratch, carried) /\ scratch' = Merged(scratch, carried) /\ UNCHANGED wanQueue
      BY <1>6 DEF Merge
    <2>2. scratch' \in Array /\ \A k \in PacketKinds : Joins(scratch', scratch, carried, k)
      BY <1>3, <2>1, MergedJoins
    <2>3. ASSUME NEW k \in PacketKinds PROVE Ways(k)'
      <3>1. Way(wanQueue, scratch, carried, in_queue[k], k, fed[k], arrived[k])
        BY <1>4
      <3>2. /\ Sorted(scratch', k, fed[k], arrived[k])
            /\ NumbersIn(scratch', k) \subseteq NumbersIn(scratch, k) \cup NumbersIn(carried, k)
        BY <1>3, <1>4, <2>2, <3>1, JoinedSections DEF Way
      <3>3. AllLower(wanQueue, k, NumbersIn(scratch', k)) /\ Lower(NumbersIn(scratch', k), NumbersOf(in_queue[k]))
        BY <3>1, <3>2 DEF Way, AllLower, Lower
      <3>4. Way(wanQueue', scratch', NoArray, in_queue[k], k, fed[k], arrived[k])
        BY <2>1, <3>1, <3>2, <3>3, NothingInNoArray, NothingLower DEF Way
      <3>. QED
        BY <1>5, <3>4
    <2>. QED
      BY <1>3, <2>1, <2>2, <2>3, SendTypes DEF FeedInv
  <1>7. CASE Keep
    <2>1. scratch = NoArray /\ scratch' = carried /\ UNCHANGED wanQueue
      BY <1>7 DEF Keep
    <2>2. ASSUME NEW k \in PacketKinds PROVE Ways(k)'
      <3>1. Way(wanQueue, carried, NoArray, in_queue[k], k, fed[k], arrived[k])
        BY <1>4, NothingInNoArray, NothingLower DEF Way
      <3>. QED
        BY <1>5, <2>1, <3>1
    <2>. QED
      BY <1>3, <2>1, <2>2, SendTypes DEF FeedInv
  <1>8. CASE PushScratch
    <2>1. scratch' = carried
      BY <1>8 DEF PushScratch
    <2>2. CASE Len(wanQueue) < WANQueueLen
      <3>1. wanQueue' = Append(wanQueue, scratch)
        BY <1>8, <2>2 DEF PushScratch
      <3>2. wanQueue' \in Seq(Array) /\ Len(wanQueue') = Len(wanQueue) + 1
        BY <1>3, <3>1, AppendProperties
      <3>3. Len(wanQueue') <= WANQueueLen
        BY <1>3, <2>2, <3>2
      <3>4. ASSUME NEW k \in PacketKinds PROVE Ways(k)'
        <4>1. Way(wanQueue, scratch, carried, in_queue[k], k, fed[k], arrived[k])
          BY <1>4
        <4>2. /\ SortedArrays(wanQueue', k, fed[k], arrived[k])
              /\ AllLower(wanQueue', k, NumbersIn(carried, k)) /\ AllLower(wanQueue', k, NumbersOf(in_queue[k]))
          BY <1>3, <1>4, <3>1, <4>1, AppendedArray DEF Way
        <4>3. Way(wanQueue', carried, NoArray, in_queue[k], k, fed[k], arrived[k])
          BY <4>1, <4>2, NothingInNoArray, NothingLower DEF Way
        <4>. QED
          BY <1>5, <2>1, <4>3
      <3>. QED
        BY <1>3, <2>1, <3>2, <3>3, <3>4, SendTypes DEF FeedInv
    <2>3. CASE ~(Len(wanQueue) < WANQueueLen)
      <3>1. wanQueue' = <<>>
        BY <1>8, <2>3 DEF PushScratch
      <3>2. wanQueue' \in Seq(Array) /\ Len(wanQueue') <= WANQueueLen
        <4>1. <<>> \in Seq(Array) /\ Len(<<>>) = 0
          BY EmptySeq
        <4>2. 0 <= WANQueueLen
          BY <1>3
        <4>. QED
          BY <3>1, <4>1, <4>2
      <3>3. ASSUME NEW k \in PacketKinds PROVE Ways(k)'
        <4>1. Way(<<>>, carried, NoArray, in_queue[k], k, fed[k], arrived[k])
          BY <1>4, NothingInNoArray, NothingLower DEF Way
        <4>. QED
          BY <1>5, <2>1, <3>1, <4>1
      <3>. QED
        BY <1>3, <2>1, <3>2, <3>3, SendTypes DEF FeedInv
    <2>. QED
      BY <2>2, <2>3
  <1>9. CASE PushDirectly
    <2>1. ~QueueHalfFull /\ wanQueue' = Append(wanQueue, carried) /\ scratch' = scratch
      BY <1>9 DEF PushDirectly
    <2>2. scratch = NoArray /\ Len(wanQueue) <= slots_used
      BY <1>1, <1>2, <2>1 DEF Forwarding
    <2>3. wanQueue' \in Seq(Array) /\ Len(wanQueue') = Len(wanQueue) + 1
      BY <1>3, <2>1, AppendProperties
    <2>4. Len(wanQueue') <= WANQueueLen
      BY <1>1, <1>3, <2>1, <2>2, <2>3 DEF QueueHalfFull, FeedTypes
    <2>5. ASSUME NEW k \in PacketKinds PROVE Ways(k)'
      <3>1. Way(wanQueue, scratch, carried, in_queue[k], k, fed[k], arrived[k])
        BY <1>4
      <3>2. /\ SortedArrays(wanQueue', k, fed[k], arrived[k])
            /\ AllLower(wanQueue', k, NumbersOf(in_queue[k]))
        BY <1>3, <1>4, <2>1, <3>1, AppendedArray DEF Way
      <3>3. Way(wanQueue', NoArray, NoArray, in_queue[k], k, fed[k], arrived[k])
        BY <3>1, <3>2, NothingInNoArray, NothingLower DEF Way
      <3>. QED
        BY <1>5, <2>1, <2>2, <3>3
    <2>. QED
      BY <1>3, <2>1, <2>3, <2>4, <2>5, SendTypes DEF FeedInv
  <1>. QED
    BY <1>6, <1>7, <1>8, <1>9 DEF Send

LEMMA FeedKeeps ==
  ASSUME FeedInv, Feed
  PROVE  FeedInv'
  <1>1. FeedTypes /\ Forwarding
    BY DEF FeedInv
  <1>2. wanTask' = "waiting" /\ UNCHANGED <<arrived, in_queue, carried, slots_used, stage, scratch, hasIP>>
    BY DEF Feed, serverVars
  <1>3. CASE wanQueue = <<>>
    <2>1. UNCHANGED <<wanQueue, fed>>
      BY <1>3 DEF Feed
    <2>2. FeedTypes' /\ Forwarding'
      BY <1>1, <1>2, <2>1 DEF FeedTypes, Forwarding, QueueHalfFull
    <2>3. ASSUME NEW k \in PacketKinds PROVE Ways(k)'
      BY <1>2, <2>1, WaysStay DEF FeedInv
    <2>. QED
      BY <2>2, <2>3 DEF FeedInv
  <1>4. CASE wanQueue # <<>>
    <2>1. /\ wanQueue' = Tail(wanQueue)
          /\ fed' = [k \in PacketKinds |-> LastOf(Section(Head(wanQueue), k), k, fed[k])]
      BY <1>4 DEF Feed
    <2>2. /\ wanQueue \in Seq(Array) /\ wanQueue' \in Seq(Array) /\ Head(wanQueue) \in Array
          /\ Len(wanQueue') = Len(wanQueue) - 1 /\ Len(wanQueue) \in Nat
          /\ scratch \in Array /\ carried \in Array
      BY <1>1, <1>4, <2>1, HeadTailProperties, LenProperties DEF FeedTypes
    <2>3. ASSUME NEW k \in PacketKinds
          PROVE  /\ fed'[k] \in Nat /\ fed'[k] <= arrived[k]
                 /\ fed'[k] = fed[k] \/ fed'[k] \in NumbersIn(Head(wanQueue), k)
      <3>1. WayTypes(k) /\ Ways(k)
        BY <1>1, WayTypesAre DEF FeedInv
      <3>2. /\ fed[k] \in Nat /\ fed[k] <= arrived[k] /\ arrived[k] \in Nat
            /\ Sorted(Head(wanQueue), k, fed[k], arrived[k])
        <4>1. fed[k] \in Nat /\ fed[k] <= arrived[k] /\ arrived[k] \in Nat
          BY <3>1 DEF WayTypes, Ways
        <4>. QED
          BY <1>4, <2>2, <3>1, <4>1, FirstArray DEF Ways, Way
      <3>3. fed'[k] = LastOf(Section(Head(wanQueue), k), k, fed[k])
        BY <2>1
      <3>4. CASE fed'[k] = fed[k]
        BY <3>2, <3>4
      <3>5. CASE \E c \in Span(Head(wanQueue), k) : fed'[k] = Head(wanQueue).cells[c][2]
        <4>1. PICK c \in Span(Head(wanQueue), k) : fed'[k] = Head(wanQueue).cells[c][2]
          BY <3>5
        <4>2. Head(wanQueue).cells[c][2] \in Nat /\ Head(wanQueue).cells[c][2] <= arrived[k]
          BY <2>2, <3>2, ArrayIs DEF Sorted
        <4>. QED
          BY <4>1, <4>2 DEF NumbersIn
      <3>. QED
        BY <2>2, <3>2, <3>3, <3>4, <3>5, LastIs
    <2>4. FeedTypes'
      <3>1. fed' \in [PacketKinds -> Nat]
        <4>1. fed' = [k \in PacketKinds |-> fed'[k]]
          BY <2>1
        <4>. QED
          BY <2>3, <4>1
      <3>2. Len(wanQueue') <= WANQueueLen
        BY <1>1, <2>2, SizesAre DEF FeedTypes
      <3>. QED
        BY <1>1, <1>2, <2>2, <3>1, <3>2 DEF FeedTypes
    <2>5. Forwarding'
      <3>1. stage # "idle" => Len(wanQueue') <= slots_used
        BY <1>1, <2>2 DEF Forwarding, FeedTypes
      <3>. QED
        BY <1>1, <1>2, <3>1 DEF Forwarding, QueueHalfFull
    <2>6. ASSUME NEW k \in PacketKinds PROVE Ways(k)'
      <3> DEFINE h == NumbersIn(Head(wanQueue), k)
                 w == wanQueue'
      <3>1. WayTypes(k) /\ Ways(k)
        BY <1>1, WayTypesAre DEF FeedInv
      <3>2. /\ Way(wanQueue, scratch, carried, in_queue[k], k, fed[k], arrived[k])
            /\ fed[k] \in Nat /\ arrived[k] \in Nat /\ in_queue[k] \in Seq(Numbered)
        BY <3>1 DEF Ways, WayTypes
      <3>3. /\ w \in Seq(Array) /\ SortedArrays(w, k, fed[k], arrived[k])
            /\ \A i \in DOMAIN w : Lower(h, NumbersIn(w[i], k))
            /\ \A S : AllLower(wanQueue, k, S) => Lower(h, S) /\ AllLower(w, k, S)
        BY <1>4, <2>1, <2>2, <3>2, FirstArray DEF Way
      <3>4. fed'[k] \in Nat /\ (fed'[k] = fed[k] \/ fed'[k] \in h)
        BY <2>3
      <3> HIDE DEF h, w
      <3>5. ASSUME NEW S, Lower(h, S), \A n \in S : fed[k] < n PROVE \A n \in S : fed'[k] < n
        BY <3>4, <3>5 DEF Lower
      <3>6. /\ \A i \in DOMAIN w : Lower(h, NumbersIn(w[i], k))
            /\ Lower(h, NumbersIn(scratch, k)) /\ Lower(h, NumbersIn(carried, k))
            /\ Lower(h, NumbersOf(in_queue[k]))
        BY <3>2, <3>3 DEF Way
      <3>7. /\ \A n \in NumbersIn(scratch, k) : fed'[k] < n
            /\ \A n \in NumbersIn(carried, k) : fed'[k] < n
            /\ \A n \in NumbersOf(in_queue[k]) : fed'[k] < n
        BY <1>1, <3>1, <3>5, <3>6, WayBounds
      <3>8. \A i \in DOMAIN w : \A n \in NumbersIn(w[i], k) : fed'[k] < n
        <4>1. ASSUME NEW i \in DOMAIN w PROVE \A n \in NumbersIn(w[i], k) : fed[k] < n
          BY <3>3 DEF SortedArrays, Sorted, NumbersIn
        <4>. QED
          BY <3>5, <3>6, <4>1
      <3>9. arrived[k] <= arrived[k]
        BY <3>2
      <3>10. /\ SortedArrays(w, k, fed'[k], arrived[k]) /\ Sorted(scratch, k, fed'[k], arrived[k])
             /\ Sorted(carried, k, fed'[k], arrived[k]) /\ SortedQueue(in_queue[k], k, fed'[k], arrived[k])
        <4>1. SortedArrays(w, k, fed'[k], arrived[k])
          BY <3>2, <3>3, <3>4, <3>8, <3>9, SortedArraysMore
        <4>2. Sorted(scratch, k, fed'[k], arrived[k]) /\ Sorted(carried, k, fed'[k], arrived[k])
          BY <2>2, <3>2, <3>4, <3>7, <3>9, SortedMore DEF Way
        <4>3. SortedQueue(in_queue[k], k, fed'[k], arrived[k])
          BY <3>2, <3>4, <3>7, <3>9, SortedQueueMore DEF Way
        <4>. QED
          BY <4>1, <4>2, <4>3
      <3>11. Way(w, scratch, carried, in_queue[k], k, fed'[k], arrived[k])
        BY <3>2, <3>3, <3>10 DEF Way
      <3>. QED
        BY <1>2, <2>3, <3>11 DEF Ways, w
    <2>. QED
      BY <2>4, <2>5, <2>6 DEF FeedInv
  <1>. QED
    BY <1>3, <1>4

LEMMA OthersKeep ==
  ASSUME FeedInv, WaitForIP \/ IPChanges \/ UNCHANGED feedVars
  PROVE  FeedInv'
  <1>1. UNCHANGED <<arrived, in_queue, carried, slots_used, stage, scratch, wanQueue, fed>>
    BY DEF WaitForIP, IPChanges, feedVars, serverVars
  <1>2. wanTask' \in {"waiting", "receiving"} /\ hasIP' \in BOOLEAN
    BY DEF WaitForIP, IPChanges, feedVars, FeedInv, FeedTypes
  <1>3. FeedTypes' /\ Forwarding'
    BY <1>1, <1>2 DEF FeedInv, FeedTypes, Forwarding, QueueHalfFull
  <1>4. ASSUME NEW k \in PacketKinds PROVE Ways(k)'
    BY <1>1, WaysStay DEF FeedInv
  <1>. QED
    BY <1>3, <1>4 DEF FeedInv

LEMMA EmptyWays ==
  ASSUME NEW k \in PacketKinds, NEW from \in Nat, NEW to \in Nat
  PROVE  Way(<<>>, NoArray, NoArray, <<>>, k, from, to)
  BY NothingInNoArray, NothingLower DEF Way

LEMMA NoneQueuedIs ==
  /\ NoneQueued \in [PacketKinds -> Seq(Numbered)] /\ <<>> \in Seq(Array) /\ Len(<<>>) = 0
  /\ \A k \in PacketKinds : NoneQueued[k] = <<>> /\ Len(NoneQueued[k]) <= InLen[k]
  <1>1. <<>> \in Seq(Numbered) /\ <<>> \in Seq(Array) /\ Len(<<>>) = 0
    BY EmptySeq
  <1>2. \A k \in PacketKinds : 0 <= InLen[k]
    BY SizesAre
  <1>. QED
    BY <1>1, <1>2 DEF NoneQueued

LEMMA RestartKeeps ==
  ASSUME FeedInv, Restart
  PROVE  FeedInv'
  <1>1. FeedTypes
    BY DEF FeedInv
  <1>2. /\ in_queue' = NoneQueued /\ carried' = NoArray /\ slots_used' = 0 /\ stage' = "idle"
        /\ scratch' = NoArray /\ wanQueue' = <<>> /\ wanTask' = "waiting" /\ hasIP' = FALSE
        /\ UNCHANGED <<arrived, fed>>
    BY DEF Restart
  <1>3. 0 \in 0 .. WANQueueLen /\ 0 <= WANQueueLen
    BY SizesAre
  <1>4. FeedTypes' /\ Forwarding'
    BY <1>1, <1>2, <1>3, NoneQueuedIs, NothingInNoArray DEF FeedTypes, Forwarding
  <1>5. ASSUME NEW k \in PacketKinds PROVE Ways(k)'
    <2>1. fed[k] <= arrived[k] /\ fed[k] \in Nat /\ arrived[k] \in Nat
      BY <1>1 DEF FeedInv, Ways, FeedTypes
    <2>. QED
      BY <1>2, <2>1, EmptyWays, NoneQueuedIs DEF Ways
  <1>. QED
    BY <1>4, <1>5 DEF FeedInv

LEMMA FeedInvInit ==
  ASSUME FeedInit
  PROVE  FeedInv
  <1>1. /\ arrived = NoneOf /\ fed = NoneOf /\ in_queue = NoneQueued
        /\ carried = NoArray /\ slots_used = 0 /\ stage = "idle"
        /\ scratch = NoArray /\ wanQueue = <<>> /\ wanTask = "waiting" /\ hasIP = FALSE
    BY DEF FeedInit
  <1>2. NoneOf \in [PacketKinds -> Nat] /\ \A k \in PacketKinds : NoneOf[k] = 0
    BY DEF NoneOf
  <1>3. 0 \in 0 .. WANQueueLen /\ 0 <= WANQueueLen /\ \A k \in PacketKinds : 0 <= MaxPackets[k]
    BY SizesAre
  <1>4. FeedTypes /\ Forwarding
    BY <1>1, <1>2, <1>3, NoneQueuedIs, NothingInNoArray DEF FeedTypes, Forwarding
  <1>5. ASSUME NEW k \in PacketKinds PROVE Ways(k)
    BY <1>1, <1>2, EmptyWays, NoneQueuedIs DEF Ways
  <1>. QED
    BY <1>4, <1>5 DEF FeedInv

LEMMA FeedInvStep ==
  ASSUME FeedInv, [FeedNext]_feedVars
  PROVE  FeedInv'
  BY UnpackKeeps, PackKeeps, OpportuneFlushKeeps, SendKeeps, FeedKeeps, OthersKeep, RestartKeeps
     DEF FeedNext

LEMMA FeedInvTypes ==
  ASSUME FeedInv
  PROVE  FeedTypeOK
  <1>1. FeedTypes /\ Forwarding
    BY DEF FeedInv
  <1>2. stage # "idle" => carried # NoArray
    BY <1>1, NothingInNoArray DEF Forwarding
  <1>3. ASSUME NEW k \in PacketKinds
        PROVE  arrived[k] \in 0 .. MaxPackets[k] /\ Len(in_queue[k]) <= InLen[k]
    BY <1>1, SizesAre DEF FeedTypes
  <1>4. /\ carried.num \in [PacketKinds -> 0 .. CellsPerArray]
        /\ scratch.num \in [PacketKinds -> 0 .. CellsPerArray]
    BY <1>1, ArrayIs DEF FeedTypes
  <1>. QED
    BY <1>1, <1>2, <1>3, <1>4 DEF FeedTypeOK, FeedTypes, Forwarding

\* The arrays on their way are those of the queue, the scratch buffer and the
\* array that is being forwarded.
LEMMA ArraysAre ==
  ASSUME FeedTypes
  PROVE  /\ DOMAIN Arrays = 1 .. Len(Arrays)
         /\ \A i \in DOMAIN Arrays :
               \/ i \in DOMAIN wanQueue /\ Arrays[i] = wanQueue[i] /\ i <= Len(wanQueue)
               \/ i = Len(wanQueue) + 1 /\ Arrays[i] = scratch
               \/ i = Len(wanQueue) + 2 /\ Arrays[i] = carried
  <1> DEFINE n == Len(wanQueue)
             t == <<scratch, carried>>
  <1>1. t \in Seq(Array) /\ Len(t) = 2 /\ t[1] = scratch /\ t[2] = carried
    BY DEF FeedTypes
  <1>2. wanQueue \in Seq(Array) /\ n \in Nat /\ DOMAIN wanQueue = 1 .. n
    BY LenProperties DEF FeedTypes
  <1> HIDE DEF t
  <1>3. /\ wanQueue \o t \in Seq(Array) /\ Len(wanQueue \o t) = n + 2
        /\ \A i \in 1 .. n + 2 : (wanQueue \o t)[i] = IF i <= n THEN wanQueue[i] ELSE t[i - n]
    <2>1. /\ wanQueue \o t \in Seq(Array) /\ Len(wanQueue \o t) = Len(wanQueue) + Len(t)
          /\ \A i \in 1 .. Len(wanQueue) + Len(t) :
                (wanQueue \o t)[i] = IF i <= Len(wanQueue) THEN wanQueue[i] ELSE t[i - Len(wanQueue)]
      BY <1>1, <1>2, ConcatProperties
    <2>. QED
      BY <1>1, <2>1, Zenon
  <1>4. Arrays = wanQueue \o t
    BY DEF Arrays, t
  <1>5. DOMAIN Arrays = 1 .. n + 2 /\ Len(Arrays) = n + 2
    BY <1>3, <1>4, LenProperties
  <1>6. ASSUME NEW i \in 1 .. n + 2
        PROVE  \/ i \in DOMAIN wanQueue /\ Arrays[i] = wanQueue[i] /\ i <= n
               \/ i = n + 1 /\ Arrays[i] = scratch
               \/ i = n + 2 /\ Arrays[i] = carried
    <2>1. CASE i <= n
      BY <1>2, <1>3, <1>4, <2>1
    <2>2. CASE i = n + 1
      <3>1. ~(i <= n) /\ i - n = 1
        BY <1>2, <2>2
      <3>. QED
        BY <1>1, <1>3, <1>4, <2>2, <3>1
    <2>3. CASE i = n + 2
      <3>1. ~(i <= n) /\ i - n = 2
        BY <1>2, <2>3
      <3>. QED
        BY <1>1, <1>3, <1>4, <2>3, <3>1
    <2>. QED
      BY <1>2, <2>1, <2>2, <2>3
  <1>. QED
    BY <1>5, <1>6

LEMMA FeedInvOrder ==
  ASSUME FeedInv
  PROVE  FeedsInOrder
  <1>1. FeedTypes
    BY DEF FeedInv
  <1> SUFFICES ASSUME NEW k \in PacketKinds
               PROVE
        /\ \A i \in DOMAIN Arrays : \A c \in Span(Arrays[i], k) :
              LET packet == Arrays[i].cells[c]
              IN  /\ packet[1] = k /\ fed[k] < packet[2]
                  /\ \A d \in Span(Arrays[i], k) : c < d => packet[2] < Arrays[i].cells[d][2]
                  /\ \A j \in i + 1 .. Len(Arrays) : \A d \in Span(Arrays[j], k) :
                        packet[2] < Arrays[j].cells[d][2]
                  /\ \A x \in DOMAIN in_queue[k] : packet[2] < in_queue[k][x][2]
        /\ \A x \in DOMAIN in_queue[k] :
              /\ in_queue[k][x][1] = k /\ fed[k] < in_queue[k][x][2]
              /\ \A y \in 1 .. x - 1 : in_queue[k][y][2] < in_queue[k][x][2]
    BY DEF FeedsInOrder
  <1>2. Way(wanQueue, scratch, carried, in_queue[k], k, fed[k], arrived[k])
    BY DEF FeedInv, Ways
  <1>3. Len(wanQueue) \in Nat /\ in_queue[k] \in Seq(Numbered) /\ DOMAIN in_queue[k] = 1 .. Len(in_queue[k])
        /\ Len(in_queue[k]) \in Nat
    BY <1>1, LenProperties DEF FeedTypes
  <1>4. ASSUME NEW i \in DOMAIN Arrays
        PROVE  /\ Sorted(Arrays[i], k, fed[k], arrived[k])
               /\ Lower(NumbersIn(Arrays[i], k), NumbersOf(in_queue[k]))
    BY <1>1, <1>2, ArraysAre DEF Way, SortedArrays, AllLower
  <1>5. ASSUME NEW i \in DOMAIN Arrays, NEW j \in i + 1 .. Len(Arrays)
        PROVE  Lower(NumbersIn(Arrays[i], k), NumbersIn(Arrays[j], k))
    <2>1. j \in DOMAIN Arrays /\ i < j /\ i \in Int /\ j \in Int
      BY <1>1, ArraysAre
    <2>2. CASE i \in DOMAIN wanQueue /\ Arrays[i] = wanQueue[i]
      <3>1. CASE j \in DOMAIN wanQueue /\ Arrays[j] = wanQueue[j]
        BY <1>2, <2>1, <2>2, <3>1 DEF Way, SortedArrays
      <3>2. CASE Arrays[j] = scratch \/ Arrays[j] = carried
        BY <1>2, <2>2, <3>2 DEF Way, AllLower
      <3>. QED
        BY <1>1, <2>1, <3>1, <3>2, ArraysAre
    <2>3. CASE i = Len(wanQueue) + 1 /\ Arrays[i] = scratch
      <3>1. Arrays[j] = carried
        BY <1>1, <1>3, <2>1, <2>3, ArraysAre
      <3>. QED
        BY <1>2, <2>3, <3>1 DEF Way
    <2>4. i # Len(wanQueue) + 2
      BY <1>1, <1>3, <2>1, ArraysAre
    <2>. QED
      BY <1>1, <2>2, <2>3, <2>4, ArraysAre
  <1>6. ASSUME NEW i \in DOMAIN Arrays, NEW c \in Span(Arrays[i], k)
        PROVE  /\ Arrays[i].cells[c][1] = k /\ fed[k] < Arrays[i].cells[c][2]
               /\ \A d \in Span(Arrays[i], k) : c < d => Arrays[i].cells[c][2] < Arrays[i].cells[d][2]
               /\ \A j \in i + 1 .. Len(Arrays) : \A d \in Span(Arrays[j], k) :
                     Arrays[i].cells[c][2] < Arrays[j].cells[d][2]
               /\ \A x \in DOMAIN in_queue[k] : Arrays[i].cells[c][2] < in_queue[k][x][2]
    <2>1. /\ Arrays[i].cells[c][1] = k /\ fed[k] < Arrays[i].cells[c][2]
          /\ \A d \in Span(Arrays[i], k) : c < d => Arrays[i].cells[c][2] < Arrays[i].cells[d][2]
      BY <1>4 DEF Sorted
    <2>2. \A x \in DOMAIN in_queue[k] : Arrays[i].cells[c][2] < in_queue[k][x][2]
      BY <1>4 DEF Lower, NumbersIn, NumbersOf
    <2>3. ASSUME NEW j \in i + 1 .. Len(Arrays), NEW d \in Span(Arrays[j], k)
          PROVE  Arrays[i].cells[c][2] < Arrays[j].cells[d][2]
      BY <1>5 DEF Lower, NumbersIn
    <2>. QED
      BY <2>1, <2>2, <2>3
  <1>7. ASSUME NEW x \in DOMAIN in_queue[k]
        PROVE  /\ in_queue[k][x][1] = k /\ fed[k] < in_queue[k][x][2]
               /\ \A y \in 1 .. x - 1 : in_queue[k][y][2] < in_queue[k][x][2]
    <2>1. \A y \in 1 .. x - 1 : y \in DOMAIN in_queue[k] /\ y < x
      BY <1>3
    <2>. QED
      BY <1>2, <2>1 DEF Way, SortedQueue
  <1>. QED
    BY <1>6, <1>7

\* The queues of the ESP32 stay within their lengths, and its buffers are in
\* use only while an array is being forwarded.
THEOREM FeedTypesHold == FeedSpec => []FeedTypeOK
  <1>1. FeedInit => FeedInv
    BY FeedInvInit
  <1>2. FeedInv /\ [FeedNext]_feedVars => FeedInv'
    BY FeedInvStep
  <1>3. FeedInv => FeedTypeOK
    BY FeedInvTypes
  <1>. QED
    BY <1>1, <1>2, <1>3, PTL DEF FeedSpec

\* However arrays are merged, kept back or dropped, the feeds are given the
\* packets of a kind in the order they arrived, each at most once.
THEOREM PacketsInOrder == FeedSpec => []FeedsInOrder
  <1>1. FeedInit => FeedInv
    BY FeedInvInit
  <1>2. FeedInv /\ [FeedNext]_feedVars => FeedInv'
    BY FeedInvStep
  <1>3. FeedInv => FeedsInOrder
    BY FeedInvOrder
  <1>. QED
    BY <1>1, <1>2, <1>3, PTL DEF FeedSpec

-----------------------------------------------------------------------------
(* The receiver.                                                           *)

Latest == MaxTime + Period
Transmission == [icao : Senders, top : 0 .. Latest, misstamped : BOOLEAN, reports : Nat]
RawPacket == [source : Sources, of : Nat, valid : BOOLEAN, stamp : 0 .. Latest]

States == {"idle", "begun", "demod", "done"}

SourceTypes ==
    /\ sources \in [Sources -> [state : States, heard : 0 .. Len(sent), stamp : 0 .. Latest]]
    /\ \A s \in Sources : sources[s].state = "idle" => sources[s] = Idle
    /\ \A s \in Sources : sources[s].state # "idle" => sources[s].heard > 0

StampingTypes ==
    /\ stamping \in [source : Sources, read : {"wraps", "counts"}, value : Nat] \cup {NotStamping}
    /\ Stamping => /\ sources[stamping.source].state = "begun"
                   /\ stamping.read = "wraps" => stamping.value * Period <= now
                   /\ stamping.read = "counts" => stamping.value < Period

LoopTypes ==
    /\ rawQueue \in Seq(RawPacket) /\ Len(rawQueue) <= RawQueueLen
    /\ \A i \in DOMAIN rawQueue : rawQueue[i].of \in 1 .. Len(sent)
    /\ toProcess \in 0 .. Len(rawQueue) /\ numDecoded \in 0 .. DecodedQueueLen
    /\ last_demod_ \in [Sources -> [icao : Nat, ms : 0 .. Latest]]

ReceiverTypes ==
    /\ now \in 0 .. MaxTime /\ onAir \in {"no", "now", "before"}
    /\ onAir # "no" => Len(sent) > 0
    /\ sent \in Seq(Transmission)
    /\ SourceTypes /\ StampingTypes /\ LoopTypes

\* One transmission after the other: what is heard is the last one, what is
\* done is one and the same, and nothing overtakes anything in the queue.
InTurn ==
    /\ \A s \in Sources : sources[s].state \in {"begun", "demod"} => sources[s].heard = Len(sent)
    /\ \A s \in Sources : sources[s].state = "begun" => onAir # "no"
    /\ \A r, s \in Sources :
          sources[r].state = "done" /\ sources[s].state = "done" => sources[r].heard = sources[s].heard
    /\ \A i, j \in DOMAIN rawQueue : i < j => rawQueue[i].of <= rawQueue[j].of
    /\ \A i \in DOMAIN rawQueue, s \in Sources :
          sources[s].state # "idle" => rawQueue[i].of <= sources[s].heard
    /\ \A t \in DOMAIN sent : sent[t].reports > 0 =>
          /\ \A i \in DOMAIN rawQueue : t <= rawQueue[i].of
          /\ \A s \in Sources : sources[s].state # "idle" => t <= sources[s].heard

\* Copies of t may still come out of the queue.
Pending(t) ==
    \/ \E i \in DOMAIN rawQueue : rawQueue[i].of = t
    \/ \E s \in Sources : sources[s].state # "idle" /\ sources[s].heard = t
    \/ onAir # "no" /\ t = Len(sent)

\* A copy of t has been remembered, and none that comes was stamped before it.
Remembered(t, b) ==
    \E s \in Sources :
        /\ last_demod_[s].icao = sent[t].icao
        /\ last_demod_[s].ms \in {b, b + 1} /\ last_demod_[s].ms <= sent[t].top
        /\ \A i \in DOMAIN rawQueue : rawQueue[i].of = t => last_demod_[s].ms <= rawQueue[i].stamp

\* Transmission t began in the ms b.
StampedAt(t, b) ==
    /\ \A s \in Sources :
          sources[s].state \in {"demod", "done"} /\ sources[s].heard = t => sources[s].stamp \in {b, b + 1}
    /\ \A i \in DOMAIN rawQueue : rawQueue[i].of = t =>
          rawQueue[i].stamp \in {b, b + 1} /\ rawQueue[i].stamp <= sent[t].top
    /\ \A i, j \in DOMAIN rawQueue :
          rawQueue[i].of = t /\ rawQueue[j].of = t /\ i < j => rawQueue[i].stamp <= rawQueue[j].stamp
    /\ t = Len(sent) => (onAir = "now" => b = now) /\ (onAir = "before" => b = now - 1)
    /\ sent[t].reports > 0 /\ Pending(t) => Remembered(t, b)

Followed(t) ==
    ~sent[t].misstamped => sent[t].reports <= 1 /\ \E b \in Int : StampedAt(t, b)

ReceiverInv == ReceiverTypes /\ InTurn /\ \A t \in DOMAIN sent : Followed(t)

LEMMA NatSetHasLeast ==
  ASSUME NEW T, T \subseteq Nat, T # {}
  PROVE \E x \in T : \A y \in T : x <= y
<1> DEFINE R == OpToRel(<, Nat)
<1>1. IsWellFoundedOn(R, Nat)
  BY NatLessThanWellFounded
<1>2. \A x, y \in Nat : x < y => <<x, y>> \in R
  BY SMT DEF OpToRel
<1> HIDE DEF R
<1>3. PICK x \in T : \A y \in T : ~ (<<y, x>> \in R)
  BY <1>1, WFMin
<1>4. \A y \in T : ~ (y < x)
  BY <1>2, <1>3
<1> QED BY <1>3, <1>4, SMT

LEMMA LargestIs ==
  ASSUME NEW S, NEW top \in Nat, S \subseteq 0 .. top, S # {}
  PROVE \E m \in S : m = (CHOOSE n \in S : \A k \in S : k <= n) /\ \A k \in S : k <= m
<1> DEFINE T == {n \in 0 .. top : top - n \in S}
<1>1. PICK m0 \in S : TRUE
  OBVIOUS
<1>2. top - m0 \in 0 .. top /\ top - (top - m0) = m0
  BY <1>1, SMT
<1>3. T \subseteq Nat /\ top - m0 \in T
  BY <1>1, <1>2, SMT
<1>4. PICK x \in T : \A y \in T : x <= y
  BY <1>3, NatSetHasLeast, Zenon
<1>5. top - x \in S /\ x \in Nat
  BY <1>4, SMT
<1>6. ASSUME NEW k \in S PROVE k <= top - x
  <2>1. k \in 0 .. top
    OBVIOUS
  <2>2. top - k \in 0 .. top /\ top - (top - k) = k
    BY <2>1, SMT
  <2>3. top - k \in T
    BY <2>2, Zenon DEF T
  <2>4. x <= top - k
    BY <1>4, <2>3, Zenon
  <2> QED BY <2>4, <2>1, <1>5, SMT
<1> QED BY <1>5, <1>6, Zenon

-----------------------------------------------------------------------------
(* Operators.                                                              *)

\* A time, its wraps and its counts.
LEMMA CountsAre ==
  ASSUME NEW n \in Nat, NEW P \in Nat \ {0}
  PROVE /\ n \div P \in Nat /\ n % P \in 0 .. P - 1
        /\ (n \div P) * P <= n
<1>1. n \div P \in Nat
  BY SMT
<1>2. n % P \in 0 .. P - 1
  BY SMT
<1>3. P * (n \div P) <= n
  BY SMT
<1> DEFINE q == n \div P
<1> HIDE DEF q
<1>4. q \in Nat /\ P * q <= n
  BY <1>1, <1>3 DEF q
<1>5. q * P <= n
  BY <1>4, SMT
<1> QED BY <1>2, <1>4, <1>5 DEF q

\* A stamp is a time no further than one period from now.
LEMMA StampIs ==
  ASSUME ReceiverTypes, Stamping
  PROVE MLATCounts \in 0 .. Latest
<1>1. /\ now \in 0 .. MaxTime /\ Period \in Nat \ {0} /\ MaxTime \in Nat
      /\ stamping.read \in {"wraps", "counts"} /\ stamping.value \in Nat
      /\ stamping.read = "wraps" => stamping.value * Period <= now
      /\ stamping.read = "counts" => stamping.value < Period
  BY ReceiverAssumption, SMT DEF ReceiverTypes, StampingTypes, Stamping
<1>2. /\ Wraps \in Nat /\ SysTickCounts \in 0 .. Period - 1 /\ Wraps * Period <= now
  BY <1>1, CountsAre DEF Wraps, SysTickCounts
<1> DEFINE v == stamping.value
           a == v * Period
           w == Wraps * Period
<1>3. a \in Nat /\ w \in Nat
  BY <1>1, <1>2, SMT
<1>4. CASE stamping.read = "wraps"
  <2>1. MLATCounts = a + SysTickCounts /\ a <= now
    BY <1>4, <1>1, Zenon DEF MLATCounts
  <2> HIDE DEF a
  <2> QED BY <2>1, <1>1, <1>2, <1>3, SMT DEF Latest
<1>5. CASE stamping.read = "counts"
  <2>1. stamping.read # "wraps"
    BY <1>5
  <2>2. MLATCounts = w + v /\ v < Period /\ w <= now
    BY <2>1, <1>5, <1>1, <1>2, Zenon DEF MLATCounts
  <2>3. v \in Nat
    BY <1>1
  <2> HIDE DEF w, v
  <2> QED BY <2>2, <2>3, <1>1, <1>3, SMT DEF Latest
<1> QED BY <1>1, <1>4, <1>5

LEMMA FirstOfIs ==
  ASSUME NEW S, NEW q \in Seq(S), NEW n \in Nat
  PROVE /\ FirstOf(n, q) \in Seq(S)
        /\ Len(FirstOf(n, q)) \in Nat /\ Len(FirstOf(n, q)) <= n /\ Len(FirstOf(n, q)) <= Len(q)
        /\ \A i \in 1 .. Len(FirstOf(n, q)) : FirstOf(n, q)[i] = q[i]
<1> DEFINE m == IF n < Len(q) THEN n ELSE Len(q)
<1>1. Len(q) \in Nat
  BY LenProperties
<1>2. m \in 0 .. Len(q) /\ m <= n /\ m \in Nat
  BY <1>1, SMT
<1>3. FirstOf(n, q) = SubSeq(q, 1, m)
  BY DEF FirstOf
<1> HIDE DEF m
<1>4. SubSeq(q, 1, m) \in Seq(S) /\ Len(SubSeq(q, 1, m)) = m
      /\ \A i \in 1 .. m : SubSeq(q, 1, m)[i] = q[i]
  BY <1>1, <1>2, SMT
<1> HIDE DEF FirstOf
<1>5. Len(FirstOf(n, q)) = m
  BY <1>3, <1>4, Zenon
<1>6. m <= Len(q)
  BY <1>1, <1>2, SMT
<1> QED BY <1>2, <1>3, <1>4, <1>5, <1>6, Zenon

LEMMA RawPacketIs ==
  ASSUME NEW s \in Sources, NEW n \in Nat, NEW v \in BOOLEAN, NEW m \in 0 .. Latest
  PROVE [source |-> s, of |-> n, valid |-> v, stamp |-> m] \in RawPacket
BY DEF RawPacket

LEMMA TransmissionIs ==
  ASSUME NEW a \in Senders, NEW m \in 0 .. Latest, NEW v \in BOOLEAN, NEW n \in Nat
  PROVE [icao |-> a, top |-> m, misstamped |-> v, reports |-> n] \in Transmission
BY DEF Transmission

\* What OnDemodComplete queues was heard by state machines that are done.
Heard(p) ==
    \E s \in Sources : sources[s].state = "done" /\ p.of = sources[s].heard /\ p.stamp = sources[s].stamp

LEMMA QueuedIs ==
  ASSUME ReceiverTypes, NEW heardBy \in InIndexOrder, NEW readable \in SUBSET Sources,
         \A i \in DOMAIN heardBy : sources[heardBy[i]].state = "done",
         NEW queued,
         queued = FirstOf(RawQueueLen - Len(rawQueue),
                          [i \in DOMAIN heardBy |-> Packet(heardBy[i], heardBy[i] \in readable)])
  PROVE /\ queued \in Seq(RawPacket) /\ Len(queued) + Len(rawQueue) <= RawQueueLen
        /\ \A i \in DOMAIN queued : Heard(queued[i])
<1> DEFINE packets == [i \in DOMAIN heardBy |-> Packet(heardBy[i], heardBy[i] \in readable)]
<1>1. PICK n \in 0 .. NumSources : heardBy \in [1 .. n -> Sources]
  BY DEF InIndexOrder
<1>2. n \in Nat /\ DOMAIN heardBy = 1 .. n
  BY <1>1, ReceiverAssumption, SMT
<1>3. /\ RawQueueLen \in Nat /\ rawQueue \in Seq(RawPacket) /\ Len(rawQueue) <= RawQueueLen
      /\ sources \in [Sources -> [state : States, heard : 0 .. Len(sent), stamp : 0 .. Latest]]
      /\ Len(sent) \in Nat
  BY ReceiverAssumption, LenProperties DEF ReceiverTypes, LoopTypes, SourceTypes
<1>4. Len(rawQueue) \in Nat
  BY <1>3, LenProperties
<1>5. ASSUME NEW i \in 1 .. n PROVE packets[i] \in RawPacket /\ Heard(packets[i])
  <2>1. heardBy[i] \in Sources /\ sources[heardBy[i]].state = "done"
    BY <1>1, <1>2
  <2>2. packets[i] = [source |-> heardBy[i], of |-> sources[heardBy[i]].heard,
                      valid |-> heardBy[i] \in readable, stamp |-> sources[heardBy[i]].stamp]
    BY <1>2 DEF Packet
  <2>3. sources[heardBy[i]].heard \in Nat /\ sources[heardBy[i]].stamp \in 0 .. Latest
    BY <2>1, <1>3, SMT
  <2>4. (heardBy[i] \in readable) \in BOOLEAN
    OBVIOUS
  <2>5. [source |-> heardBy[i], of |-> sources[heardBy[i]].heard,
         valid |-> heardBy[i] \in readable, stamp |-> sources[heardBy[i]].stamp] \in RawPacket
    BY <2>1, <2>3, <2>4, RawPacketIs
  <2>6. packets[i].of = sources[heardBy[i]].heard /\ packets[i].stamp = sources[heardBy[i]].stamp
    BY <2>2
  <2>7. packets[i] \in RawPacket
    BY <2>2, <2>5, Zenon
  <2> QED BY <2>1, <2>6, <2>7, Zenon DEF Heard
<1>6. packets \in [1 .. n -> RawPacket]
  <2>1. packets = [i \in 1 .. n |-> packets[i]]
    BY <1>2, Zenon
  <2> HIDE DEF packets
  <2> QED BY <1>5, <2>1, Zenon
<1> HIDE DEF packets
<1>7. packets \in Seq(RawPacket) /\ Len(packets) = n
  BY <1>2, <1>6, SMT
<1> DEFINE room == RawQueueLen - Len(rawQueue)
<1>8. room \in Nat /\ room + Len(rawQueue) = RawQueueLen
  BY <1>3, <1>4, SMT
<1>9. queued = FirstOf(room, packets)
  BY DEF packets
<1> HIDE DEF room
<1>10. /\ queued \in Seq(RawPacket) /\ Len(queued) \in Nat /\ Len(queued) <= room
       /\ Len(queued) <= Len(packets)
       /\ \A i \in 1 .. Len(queued) : queued[i] = packets[i]
  <2>1. packets \in Seq(RawPacket) /\ room \in Nat
    BY <1>7, <1>8
  <2>2. /\ FirstOf(room, packets) \in Seq(RawPacket)
        /\ Len(FirstOf(room, packets)) \in Nat /\ Len(FirstOf(room, packets)) <= room
        /\ Len(FirstOf(room, packets)) <= Len(packets)
        /\ \A i \in 1 .. Len(FirstOf(room, packets)) : FirstOf(room, packets)[i] = packets[i]
    BY <2>1, FirstOfIs
  <2> QED BY <2>2, <1>9, Zenon
<1>11. Len(queued) + Len(rawQueue) <= RawQueueLen
  BY <1>4, <1>8, <1>10, SMT
<1>12. ASSUME NEW i \in DOMAIN queued PROVE Heard(queued[i])
  <2>1. i \in 1 .. Len(queued)
    BY <1>10, LenProperties
  <2>2. i \in 1 .. n
    BY <2>1, <1>2, <1>7, <1>10, SMT
  <2> QED BY <2>1, <2>2, <1>5, <1>10, Zenon
<1> QED BY <1>10, <1>11, <1>12

LEMMA NotedIs ==
  ASSUME ReceiverTypes, NEW t \in DOMAIN sent, NEW queued \in Seq(RawPacket)
  PROVE /\ Noted(t, queued) \in Transmission
        /\ Noted(t, queued).icao = sent[t].icao /\ Noted(t, queued).reports = sent[t].reports
        /\ sent[t].top <= Noted(t, queued).top
        /\ \A i \in Copies(t, queued) : queued[i].stamp <= Noted(t, queued).top
        /\ ~Noted(t, queued).misstamped =>
              ~sent[t].misstamped /\ \A i \in Copies(t, queued) : ~Misordered(t, queued, i)
<1> DEFINE copies == Copies(t, queued)
           stamps == {queued[i].stamp : i \in copies} \cup {sent[t].top}
           most == CHOOSE m \in stamps : \A k \in stamps : k <= m
           wrong == \E i \in copies : Misordered(t, queued, i)
<1>1. sent[t] \in Transmission /\ Latest \in Nat
  BY ReceiverAssumption, ElementOfSeq, LenProperties DEF ReceiverTypes, Latest
<1>2. copies \subseteq DOMAIN queued
  BY DEF Copies
<1>3. ASSUME NEW i \in copies PROVE queued[i].stamp \in 0 .. Latest
  <2>1. queued[i] \in RawPacket
    BY <1>2, ElementOfSeq, LenProperties
  <2> QED BY <2>1 DEF RawPacket
<1>4. /\ sent[t].top \in 0 .. Latest /\ sent[t].icao \in Senders /\ sent[t].reports \in Nat
      /\ sent[t].misstamped \in BOOLEAN
  BY <1>1 DEF Transmission
<1>5. stamps \subseteq 0 .. Latest /\ sent[t].top \in stamps /\ stamps # {}
  BY <1>3, <1>4
<1>6. Noted(t, queued) = [sent[t] EXCEPT !.top = most, !.misstamped = @ \/ wrong]
  BY DEF Noted
<1> HIDE DEF stamps
<1>7. most \in stamps /\ \A k \in stamps : k <= most
  <2>1. PICK m \in stamps : m = (CHOOSE n \in stamps : \A k \in stamps : k <= n) /\ \A k \in stamps : k <= m
    BY <1>1, <1>5, LargestIs
  <2> QED BY <2>1, Zenon
<1> HIDE DEF most, wrong
<1>8. most \in 0 .. Latest
  BY <1>5, <1>7
<1>9. Noted(t, queued) = [icao |-> sent[t].icao, top |-> most,
                          misstamped |-> sent[t].misstamped \/ wrong, reports |-> sent[t].reports]
  BY <1>1, <1>6 DEF Transmission
<1>10. (sent[t].misstamped \/ wrong) \in BOOLEAN
  OBVIOUS
<1>11. Noted(t, queued) \in Transmission
  BY <1>4, <1>8, <1>9, <1>10, TransmissionIs, Zenon
<1>12. /\ Noted(t, queued).icao = sent[t].icao /\ Noted(t, queued).reports = sent[t].reports
       /\ Noted(t, queued).top = most /\ Noted(t, queued).misstamped = (sent[t].misstamped \/ wrong)
  BY <1>9
<1>13. ASSUME NEW i \in Copies(t, queued) PROVE queued[i].stamp <= most
  BY <1>7, <1>13 DEF stamps
<1> QED BY <1>5, <1>7, <1>11, <1>12, <1>13 DEF wrong

-----------------------------------------------------------------------------
(* The types are kept.                                                     *)

LEMMA SentIs ==
  ASSUME ReceiverTypes
  PROVE /\ Len(sent) \in Nat /\ DOMAIN sent = 1 .. Len(sent)
        /\ \A t \in DOMAIN sent : sent[t] \in Transmission
        /\ Len(rawQueue) \in Nat /\ DOMAIN rawQueue = 1 .. Len(rawQueue)
        /\ \A i \in DOMAIN rawQueue : rawQueue[i] \in RawPacket
BY LenProperties, ElementOfSeq DEF ReceiverTypes, LoopTypes

\* Changed fields of the last transmission, or of any.
LEMMA SentChanged ==
  ASSUME ReceiverTypes, NEW new, DOMAIN new = DOMAIN sent,
         \A t \in DOMAIN sent : new[t] \in Transmission,
         new = [t \in DOMAIN sent |-> new[t]]
  PROVE new \in Seq(Transmission) /\ Len(new) = Len(sent)
<1> DEFINE n == Len(sent)
<1>1. n \in Nat /\ DOMAIN sent = 1 .. n
  BY SentIs
<1> HIDE DEF n
<1>2. new \in [1 .. n -> Transmission]
  BY <1>1
<1>3. new \in Seq(Transmission)
  BY <1>1, <1>2, SMT
<1>4. Len(new) = n
  BY <1>1, <1>3, LenProperties, SMT
<1> QED BY <1>3, <1>4 DEF n

\* Nothing changes but the time and what is on the air.
LEMMA TimePasses ==
  ASSUME ReceiverTypes, now' \in 0 .. MaxTime, now <= now', onAir' \in {"no", "now", "before"},
         onAir' # "no" => Len(sent) > 0,
         UNCHANGED <<sent, sources, stamping, rawQueue, toProcess, last_demod_, numDecoded>>
  PROVE ReceiverTypes'
<1> USE DEF ReceiverTypes
<1>1. SourceTypes' /\ LoopTypes'
  BY DEF SourceTypes, LoopTypes
<1>2. StampingTypes'
  <2>1. ASSUME Stamping, stamping.read = "wraps" PROVE stamping.value * Period <= now'
    <3> DEFINE v == stamping.value * Period
    <3>1. v <= now /\ v \in Int
      BY <2>1, ReceiverAssumption DEF StampingTypes, Stamping
    <3> HIDE DEF v
    <3>2. v <= now'
      BY <3>1, ReceiverAssumption
    <3> QED BY <3>2 DEF v
  <2> QED BY <2>1 DEF StampingTypes, Stamping
<1> QED BY <1>1, <1>2

\* The state machines change, and with them at most how the last transmission
\* is marked.
LEMMA SourcesChange ==
  ASSUME ReceiverTypes, SourceTypes', StampingTypes', sent' \in Seq(Transmission),
         Len(sent') = Len(sent), UNCHANGED <<now, onAir, rawQueue, toProcess, last_demod_, numDecoded>>
  PROVE ReceiverTypes'
<1>1. LoopTypes'
  BY DEF ReceiverTypes, LoopTypes
<1> QED BY <1>1 DEF ReceiverTypes

LEMMA TransmitTypes ==
  ASSUME ReceiverTypes, NEW a \in Senders, Transmit(a)
  PROVE ReceiverTypes' /\ Len(sent') = Len(sent) + 1 /\ (\A t \in DOMAIN sent : sent'[t] = sent[t])
        /\ DOMAIN sent' = 1 .. Len(sent) + 1
        /\ sent'[Len(sent) + 1] = [icao |-> a, top |-> 0, misstamped |-> FALSE, reports |-> 0]
<1> DEFINE m == [icao |-> a, top |-> 0, misstamped |-> FALSE, reports |-> 0]
           n == Len(sent)
<1>1. n \in Nat /\ DOMAIN sent = 1 .. n /\ sent \in Seq(Transmission)
  BY SentIs DEF ReceiverTypes
<1>2. m \in Transmission
  <2>1. 0 \in 0 .. Latest /\ FALSE \in BOOLEAN /\ 0 \in Nat
    BY ReceiverAssumption, SMT DEF Latest
  <2> QED BY <2>1, TransmissionIs, Zenon
<1>3. sent' = Append(sent, m)
  BY DEF Transmit
<1> HIDE DEF m
<1>4. /\ sent' \in Seq(Transmission) /\ Len(sent') = n + 1 /\ sent'[n + 1] = m
      /\ \A t \in 1 .. n : sent'[t] = sent[t]
  BY <1>1, <1>2, <1>3, AppendProperties DEF n
<1>5. DOMAIN sent' = 1 .. n + 1
  BY <1>4, LenProperties
<1>6. UNCHANGED <<now, sources, stamping, rawQueue, toProcess, last_demod_, numDecoded>> /\ onAir' = "now"
  BY DEF Transmit
<1> DEFINE l == Len(sent')
<1>7. l = n + 1
  BY <1>4
<1> HIDE DEF n, l
<1>8. SourceTypes'
  <2>1. SourceTypes
    BY DEF ReceiverTypes
  <2>2. 0 .. n \subseteq 0 .. l
    BY <1>1, <1>7, SMT
  <2>3. sources' \in [Sources -> [state : States, heard : 0 .. l, stamp : 0 .. Latest]]
    BY <2>1, <2>2, <1>6, SMT DEF SourceTypes, n
  <2>4. sources' \in [Sources -> [state : States, heard : 0 .. Len(sent'), stamp : 0 .. Latest]]
    BY <2>3 DEF l
  <2> QED BY <2>1, <2>4, <1>6, Zenon DEF SourceTypes
<1>9. StampingTypes'
  BY <1>6 DEF ReceiverTypes, StampingTypes, Stamping
<1>10. LoopTypes'
  <2>1. LoopTypes
    BY DEF ReceiverTypes
  <2>2. 1 .. n \subseteq 1 .. l
    BY <1>1, <1>7, SMT
  <2>3. \A i \in DOMAIN rawQueue : rawQueue[i].of \in 1 .. l
    BY <2>1, <2>2 DEF LoopTypes, n
  <2> QED BY <2>1, <2>3, <1>6 DEF LoopTypes, l
<1>11. l > 0
  BY <1>1, <1>7, SMT
<1>12. ReceiverTypes'
  BY <1>4, <1>6, <1>8, <1>9, <1>10, <1>11 DEF ReceiverTypes, l
<1> QED BY <1>12, <1>1, <1>4, <1>5 DEF n, m

Source == [state : States, heard : 0 .. Len(sent), stamp : 0 .. Latest]

LEMMA SourceIs ==
  ASSUME ReceiverTypes, NEW s \in Sources
  PROVE /\ sources[s] = [state |-> sources[s].state, heard |-> sources[s].heard, stamp |-> sources[s].stamp]
        /\ sources[s].state \in States /\ sources[s].heard \in 0 .. Len(sent)
        /\ sources[s].stamp \in 0 .. Latest /\ sources[s] \in Source
        /\ sources[s].state # "idle" => sources[s].heard > 0
BY DEF ReceiverTypes, SourceTypes, Source

\* One state machine takes another state, none of them idle.
LEMMA OneSource ==
  ASSUME ReceiverTypes, NEW s \in Sources, NEW x \in States \ {"idle"},
         NEW h \in 1 .. Len(sent), NEW m \in 0 .. Latest, Len(sent') = Len(sent),
         sources' = [r \in Sources |-> sources'[r]],
         sources'[s] = [state |-> x, heard |-> h, stamp |-> m],
         \A r \in Sources \ {s} : sources'[r] = sources[r]
  PROVE /\ SourceTypes'
        /\ sources'[s].state = x /\ sources'[s].heard = h /\ sources'[s].stamp = m
<1> DEFINE new == [state |-> x, heard |-> h, stamp |-> m]
           n == Len(sent)
           l == Len(sent')
<1>1. n \in Nat /\ l = n
  BY SentIs
<1>2. h \in 0 .. n /\ h > 0
  BY <1>1, SMT
<1>3. new \in Source
  BY <1>2 DEF Source
<1>4. sources \in [Sources -> Source] /\ SourceTypes
  BY DEF ReceiverTypes, SourceTypes, Source
<1>5. sources' \in [Sources -> Source] /\ sources'[s] = new
  <2> HIDE DEF new
  <2>1. sources'[s] = new
    BY DEF new
  <2>2. \A r \in Sources : sources'[r] \in Source
    BY <1>3, <1>4, <2>1
  <2> QED BY <2>1, <2>2
<1>6. new.state = x /\ new.heard = h /\ new.stamp = m
  OBVIOUS
<1> HIDE DEF new, n
<1>7. \A r \in Sources : sources'[r].state = "idle" => sources'[r] = Idle
  BY <1>4, <1>5, <1>6 DEF SourceTypes
<1>8. \A r \in Sources : sources'[r].state # "idle" => sources'[r].heard > 0
  BY <1>2, <1>4, <1>5, <1>6 DEF SourceTypes
<1>9. sources' \in [Sources -> [state : States, heard : 0 .. l, stamp : 0 .. Latest]]
  BY <1>1, <1>5 DEF Source, n
<1> QED BY <1>5, <1>6, <1>7, <1>8, <1>9 DEF SourceTypes

LEMMA DetectPreambleIs ==
  ASSUME ReceiverTypes, NEW s \in Sources, DetectPreamble(s)
  PROVE /\ ReceiverTypes' /\ onAir # "no" /\ sources[s].state = "idle"
        /\ UNCHANGED <<now, onAir, sent, rawQueue, toProcess, last_demod_, numDecoded>>
        /\ sources'[s].state = "begun" /\ sources'[s].heard = Len(sent)
        /\ \A r \in Sources \ {s} : sources'[r] = sources[r]
<1>1. onAir # "no" /\ sources[s] = Idle
      /\ UNCHANGED <<now, onAir, sent, stamping, rawQueue, toProcess, last_demod_, numDecoded>>
      /\ sources' = [sources EXCEPT ![s].state = "begun", ![s].heard = Len(sent)]
  BY DEF DetectPreamble
<1>2. sources[s].state = "idle" /\ Len(sent) \in 1 .. Len(sent)
  BY <1>1, SentIs DEF ReceiverTypes, Idle
<1>3. /\ sources'[s] = [state |-> "begun", heard |-> Len(sent), stamp |-> sources[s].stamp]
      /\ sources' = [r \in Sources |-> sources'[r]]
      /\ \A r \in Sources \ {s} : sources'[r] = sources[r]
  BY <1>1 DEF ReceiverTypes, SourceTypes
<1>4. "begun" \in States \ {"idle"} /\ sources[s].stamp \in 0 .. Latest /\ Len(sent') = Len(sent)
  BY <1>1, SourceIs DEF States
<1>5. /\ SourceTypes'
      /\ sources'[s].state = "begun" /\ sources'[s].heard = Len(sent)
  BY <1>2, <1>3, <1>4, OneSource
<1>6. StampingTypes'
  <2>1. ASSUME Stamping PROVE sources'[stamping.source].state = "begun"
    <3>1. stamping.source \in Sources /\ sources[stamping.source].state = "begun"
      BY <2>1 DEF ReceiverTypes, StampingTypes, Stamping
    <3> QED BY <3>1, <1>3, <1>5
  <2> QED BY <1>1, <2>1 DEF ReceiverTypes, StampingTypes, Stamping
<1>7. sent' \in Seq(Transmission)
  BY <1>1 DEF ReceiverTypes
<1>8. ReceiverTypes'
  BY <1>1, <1>4, <1>5, <1>6, <1>7, SourcesChange
<1> QED BY <1>1, <1>2, <1>3, <1>5, <1>8

LEMMA FinishMessageIs ==
  ASSUME ReceiverTypes, NEW s \in Sources, FinishMessage(s)
  PROVE /\ ReceiverTypes' /\ sources[s].state = "demod"
        /\ \A r \in Sources : sources[r].state = "done" => sources[r].heard = sources[s].heard
        /\ UNCHANGED <<now, onAir, sent, rawQueue, toProcess, last_demod_, numDecoded>>
        /\ sources'[s].state = "done" /\ sources'[s].heard = sources[s].heard
        /\ sources'[s].stamp = sources[s].stamp
        /\ \A r \in Sources \ {s} : sources'[r] = sources[r]
<1>1. /\ sources[s].state = "demod" /\ onAir = "no"
      /\ \A r \in Sources : sources[r].state = "done" => sources[r].heard = sources[s].heard
      /\ UNCHANGED <<now, onAir, sent, stamping, rawQueue, toProcess, last_demod_, numDecoded>>
      /\ sources' = [sources EXCEPT ![s].state = "done"]
  BY DEF FinishMessage
<1>2. /\ sources'[s] = [state |-> "done", heard |-> sources[s].heard, stamp |-> sources[s].stamp]
      /\ sources' = [r \in Sources |-> sources'[r]]
      /\ \A r \in Sources \ {s} : sources'[r] = sources[r]
  BY <1>1 DEF ReceiverTypes, SourceTypes
<1>3. "done" \in States \ {"idle"} /\ sources[s].stamp \in 0 .. Latest /\ Len(sent') = Len(sent)
  BY <1>1, SourceIs DEF States
<1>4. sources[s].heard \in 1 .. Len(sent)
  <2> DEFINE h == sources[s].heard
             l == Len(sent)
  <2>1. h \in 0 .. l /\ h > 0 /\ l \in Nat
    BY <1>1, SourceIs, SentIs
  <2> HIDE DEF h, l
  <2>2. h \in 1 .. l
    BY <2>1, SMT
  <2> QED BY <2>2 DEF h, l
<1>5. /\ SourceTypes'
      /\ sources'[s].state = "done" /\ sources'[s].heard = sources[s].heard
      /\ sources'[s].stamp = sources[s].stamp
  BY <1>2, <1>3, <1>4, OneSource
<1>6. StampingTypes'
  <2>1. ASSUME Stamping PROVE sources'[stamping.source].state = "begun"
    <3>1. stamping.source \in Sources /\ sources[stamping.source].state = "begun"
      BY <2>1 DEF ReceiverTypes, StampingTypes, Stamping
    <3>2. stamping.source # s
      BY <3>1, <1>1
    <3> QED BY <3>1, <3>2, <1>2
  <2> QED BY <1>1, <2>1 DEF ReceiverTypes, StampingTypes, Stamping
<1>7. sent' \in Seq(Transmission)
  BY <1>1 DEF ReceiverTypes
<1>8. ReceiverTypes'
  BY <1>1, <1>3, <1>5, <1>6, <1>7, SourcesChange
<1> QED BY <1>1, <1>2, <1>5, <1>8

LEMMA ReadFirstTypes ==
  ASSUME ReceiverTypes, NEW s \in Sources, ReadFirst(s)
  PROVE ReceiverTypes'
<1>1. /\ sources[s].state = "begun"
      /\ UNCHANGED <<now, onAir, sent, sources, rawQueue, toProcess, last_demod_, numDecoded>>
      /\ \/ stamping' = [source |-> s, read |-> "wraps", value |-> Wraps]
         \/ stamping' = [source |-> s, read |-> "counts", value |-> SysTickCounts]
  BY DEF ReadFirst
<1>2. now \in Nat /\ Period \in Nat \ {0} /\ MaxTime \in Nat
  BY ReceiverAssumption DEF ReceiverTypes
<1>3. Wraps \in Nat /\ SysTickCounts \in 0 .. Period - 1 /\ Wraps * Period <= now
  BY <1>2, CountsAre DEF Wraps, SysTickCounts
<1>4. SysTickCounts \in Nat /\ SysTickCounts < Period
  BY <1>2, <1>3
<1>5. StampingTypes'
  <2>1. CASE stamping' = [source |-> s, read |-> "wraps", value |-> Wraps]
    <3>1. stamping'.source = s /\ stamping'.read = "wraps" /\ stamping'.value = Wraps
          /\ stamping' \in [source : Sources, read : {"wraps", "counts"}, value : Nat]
      BY <2>1, <1>3
    <3> QED BY <3>1, <1>1, <1>3, Zenon DEF StampingTypes
  <2>2. CASE stamping' = [source |-> s, read |-> "counts", value |-> SysTickCounts]
    <3>1. stamping'.source = s /\ stamping'.read = "counts" /\ stamping'.value = SysTickCounts
          /\ stamping' \in [source : Sources, read : {"wraps", "counts"}, value : Nat]
      BY <2>2, <1>4
    <3>2. "counts" # "wraps"
      OBVIOUS
    <3> QED BY <3>1, <3>2, <1>1, <1>4, Zenon DEF StampingTypes
  <2> QED BY <1>1, <2>1, <2>2
<1>6. SourceTypes' /\ sent' \in Seq(Transmission) /\ Len(sent') = Len(sent)
  BY <1>1 DEF ReceiverTypes, SourceTypes
<1> QED BY <1>1, <1>5, <1>6, SourcesChange

\* The stamp of the transmission on the air is right, or it is marked.
RightStamp == MLATCounts \in IF onAir = "now" THEN {now} ELSE {now - 1, now}

LEMMA ReadSecondIs ==
  ASSUME ReceiverTypes, ReadSecond
  PROVE /\ ReceiverTypes' /\ Len(sent') = Len(sent) /\ DOMAIN sent' = DOMAIN sent
        /\ UNCHANGED <<now, onAir, rawQueue, toProcess, last_demod_, numDecoded>>
        /\ \A t \in DOMAIN sent :
              /\ sent'[t].icao = sent[t].icao /\ sent'[t].top = sent[t].top
              /\ sent'[t].reports = sent[t].reports
              /\ ~sent'[t].misstamped => ~sent[t].misstamped
              /\ ~sent'[t].misstamped /\ t = Len(sent) => RightStamp
        /\ \E s \in Sources :
              /\ sources[s].state = "begun"
              /\ sources'[s].state = "demod" /\ sources'[s].heard = sources[s].heard
              /\ sources'[s].stamp = MLATCounts
              /\ \A r \in Sources \ {s} : sources'[r] = sources[r]
<1> DEFINE s == stamping.source
           n == Len(sent)
<1>1. /\ Stamping /\ stamping' = NotStamping
      /\ UNCHANGED <<now, onAir, rawQueue, toProcess, last_demod_, numDecoded>>
      /\ sources' = [sources EXCEPT ![s].state = "demod", ![s].stamp = MLATCounts]
      /\ sent' = [sent EXCEPT ![Len(sent)].misstamped = @ \/ ~RightStamp]
  BY DEF ReadSecond, RightStamp
<1>2. s \in Sources /\ sources[s].state = "begun"
  BY <1>1 DEF ReceiverTypes, StampingTypes, Stamping
<1>3. MLATCounts \in 0 .. Latest
  BY <1>1, StampIs
<1> HIDE DEF s
<1>4. /\ sources'[s] = [state |-> "demod", heard |-> sources[s].heard, stamp |-> MLATCounts]
      /\ sources' = [r \in Sources |-> sources'[r]]
      /\ \A r \in Sources \ {s} : sources'[r] = sources[r]
  BY <1>1, <1>2 DEF ReceiverTypes, SourceTypes
<1>5. sources[s].heard \in 1 .. Len(sent) /\ "demod" \in States \ {"idle"}
  <2> DEFINE h == sources[s].heard
  <2>1. h \in 0 .. n /\ h > 0 /\ n \in Nat
    BY <1>2, SourceIs, SentIs
  <2> HIDE DEF h, n
  <2>2. h \in 1 .. n
    BY <2>1, SMT
  <2> QED BY <2>2 DEF h, n, States
<1>6. n \in Nat /\ n > 0 /\ n \in DOMAIN sent /\ DOMAIN sent = 1 .. n
      /\ \A t \in DOMAIN sent : sent[t] \in Transmission
  <2>1. n \in Nat /\ DOMAIN sent = 1 .. n /\ \A t \in DOMAIN sent : sent[t] \in Transmission
    BY SentIs
  <2>2. n > 0
    BY <1>5, <2>1 
  <2> HIDE DEF n
  <2> QED BY <2>1, <2>2, SMT
<1> DEFINE new == [icao |-> sent[n].icao, top |-> sent[n].top,
                   misstamped |-> sent[n].misstamped \/ ~RightStamp, reports |-> sent[n].reports]
<1>8. new \in Transmission
  <2>1. /\ sent[n].icao \in Senders /\ sent[n].top \in 0 .. Latest
        /\ sent[n].misstamped \in BOOLEAN /\ sent[n].reports \in Nat
    BY <1>6 DEF Transmission
  <2>2. (sent[n].misstamped \/ ~RightStamp) \in BOOLEAN
    OBVIOUS
  <2> QED BY <2>1, <2>2, TransmissionIs, Zenon
<1>9. new.icao = sent[n].icao /\ new.top = sent[n].top /\ new.reports = sent[n].reports
      /\ new.misstamped = (sent[n].misstamped \/ ~RightStamp)
  OBVIOUS
<1> HIDE DEF new
<1>10. sent'[n] = new
  <2> DEFINE wrong == ~RightStamp
  <2>1. sent' = [sent EXCEPT ![n].misstamped = @ \/ wrong] /\ sent[n] \in Transmission /\ n \in DOMAIN sent
    BY <1>1, <1>6
  <2> HIDE DEF n, wrong
  <2>2. sent'[n] = [icao |-> sent[n].icao, top |-> sent[n].top,
                    misstamped |-> sent[n].misstamped \/ wrong, reports |-> sent[n].reports]
    BY <2>1 DEF Transmission
  <2> QED BY <2>2 DEF wrong, new
<1>11. DOMAIN sent' = DOMAIN sent /\ \A t \in DOMAIN sent \ {n} : sent'[t] = sent[t]
  BY <1>1, <1>6
<1>12. sent' = [t \in DOMAIN sent |-> sent'[t]]
  <2>1. sent' = [sent EXCEPT ![n].misstamped = @ \/ ~RightStamp]
    BY <1>1
  <2> QED BY <2>1, Zenon
<1> HIDE DEF n
<1>13. \A t \in DOMAIN sent : sent'[t] \in Transmission
  BY <1>6, <1>8, <1>10, <1>11
<1>14. sent' \in Seq(Transmission) /\ Len(sent') = n
  BY <1>11, <1>12, <1>13, SentChanged DEF n
<1>15. \A t \in DOMAIN sent :
              /\ sent'[t].icao = sent[t].icao /\ sent'[t].top = sent[t].top
              /\ sent'[t].reports = sent[t].reports
              /\ ~sent'[t].misstamped => ~sent[t].misstamped
              /\ ~sent'[t].misstamped /\ t = n => RightStamp
  BY <1>9, <1>10, <1>11, Zenon
<1>16. /\ SourceTypes'
       /\ sources'[s].state = "demod" /\ sources'[s].heard = sources[s].heard
       /\ sources'[s].stamp = MLATCounts
  BY <1>2, <1>3, <1>4, <1>5, <1>14, OneSource DEF n
<1>17. StampingTypes'
  BY <1>1 DEF StampingTypes, Stamping
<1>18. ReceiverTypes'
  BY <1>1, <1>14, <1>16, <1>17, SourcesChange DEF n
<1> QED BY <1>1, <1>2, <1>4, <1>11, <1>14, <1>15, <1>16, <1>18 DEF n

\* What OnDemodComplete does, in terms of the packets it queues.
Completed(queued) ==
    /\ queued \in Seq(RawPacket) /\ Len(queued) + Len(rawQueue) <= RawQueueLen
    /\ \A i \in DOMAIN queued : Heard(queued[i])
    /\ rawQueue' = rawQueue \o queued
    /\ sent' = [t \in DOMAIN sent |-> Noted(t, queued)]
    /\ \A s \in Sources : sources[s].state # "begun"
    /\ sources' = [s \in Sources |-> IF sources[s].state = "done" THEN Idle ELSE sources[s]]
    /\ UNCHANGED <<now, onAir, stamping, toProcess, last_demod_, numDecoded>>

LEMMA OnDemodCompleteIs ==
  ASSUME ReceiverTypes, OnDemodComplete
  PROVE ~Stamping /\ \E queued : Completed(queued)
<1>1. PICK heardBy \in InIndexOrder, readable \in SUBSET Sources :
         LET packets == [i \in DOMAIN heardBy |-> Packet(heardBy[i], heardBy[i] \in readable)]
             queued == FirstOf(RawQueueLen - Len(rawQueue), packets)
         IN  /\ \A i \in DOMAIN heardBy : sources[heardBy[i]].state = "done"
             /\ rawQueue' = rawQueue \o queued
             /\ sent' = [t \in DOMAIN sent |-> Noted(t, queued)]
  BY DEF OnDemodComplete
<1> DEFINE queued == FirstOf(RawQueueLen - Len(rawQueue),
                             [i \in DOMAIN heardBy |-> Packet(heardBy[i], heardBy[i] \in readable)])
<1>2. /\ \A i \in DOMAIN heardBy : sources[heardBy[i]].state = "done"
      /\ rawQueue' = rawQueue \o queued
      /\ sent' = [t \in DOMAIN sent |-> Noted(t, queued)]
  BY <1>1
<1>3. /\ queued \in Seq(RawPacket) /\ Len(queued) + Len(rawQueue) <= RawQueueLen
      /\ \A i \in DOMAIN queued : Heard(queued[i])
  BY <1>2, QueuedIs
<1> HIDE DEF queued
<1>4. /\ ~Stamping /\ \A s \in Sources : sources[s].state # "begun"
      /\ sources' = [s \in Sources |-> IF sources[s].state = "done" THEN Idle ELSE sources[s]]
      /\ UNCHANGED <<now, onAir, stamping, toProcess, last_demod_, numDecoded>>
  BY DEF OnDemodComplete, Core1Free
<1>5. Completed(queued)
  BY <1>2, <1>3, <1>4, Zenon DEF Completed
<1> QED BY <1>4, <1>5, Zenon

\* Where the packets of the queue come from, and what is left.
LEMMA CompletedIs ==
  ASSUME ReceiverTypes, NEW queued, Completed(queued)
  PROVE /\ sent' \in Seq(Transmission) /\ Len(sent') = Len(sent) /\ DOMAIN sent' = DOMAIN sent
        /\ \A t \in DOMAIN sent : sent'[t] = Noted(t, queued)
        /\ \A s \in Sources : sources[s].state = "done" => sources'[s].state = "idle"
        /\ \A s \in Sources : sources[s].state # "done" => sources'[s] = sources[s]
        /\ rawQueue' \in Seq(RawPacket) /\ Len(rawQueue') <= RawQueueLen /\ Len(rawQueue) <= Len(rawQueue')
        /\ DOMAIN queued = 1 .. Len(queued)
        /\ \A i \in DOMAIN rawQueue' :
              \/ i \in DOMAIN rawQueue /\ rawQueue'[i] = rawQueue[i]
              \/ i > Len(rawQueue) /\ i - Len(rawQueue) \in DOMAIN queued /\ rawQueue'[i] = queued[i - Len(rawQueue)]
        /\ \A i \in DOMAIN rawQueue : i \in DOMAIN rawQueue' /\ rawQueue'[i] = rawQueue[i]
<1>1. sent' = [t \in DOMAIN sent |-> Noted(t, queued)]
  BY DEF Completed
<1>2. DOMAIN sent' = DOMAIN sent /\ \A t \in DOMAIN sent : sent'[t] = Noted(t, queued)
  BY <1>1
<1>3. sent' = [t \in DOMAIN sent |-> sent'[t]]
  BY <1>1, <1>2, Zenon
<1>4. \A t \in DOMAIN sent : sent'[t] \in Transmission
  BY <1>2, NotedIs DEF Completed
<1>5. sent' \in Seq(Transmission) /\ Len(sent') = Len(sent)
  BY <1>2, <1>3, <1>4, SentChanged
<1>6. /\ \A s \in Sources : sources[s].state = "done" => sources'[s].state = "idle"
      /\ \A s \in Sources : sources[s].state # "done" => sources'[s] = sources[s]
  BY DEF Completed, Idle
<1> DEFINE l == Len(rawQueue)
           k == Len(queued)
           m == Len(rawQueue')
           new == rawQueue'
<1>7. /\ rawQueue \in Seq(RawPacket) /\ queued \in Seq(RawPacket)
      /\ new = rawQueue \o queued /\ k + l <= RawQueueLen
  BY DEF Completed, ReceiverTypes, LoopTypes
<1>8. l \in Nat /\ k \in Nat /\ DOMAIN rawQueue = 1 .. l /\ DOMAIN queued = 1 .. k
  BY <1>7, LenProperties
<1>9. new \in Seq(RawPacket) /\ m = l + k /\ m \in Nat /\ DOMAIN new = 1 .. m
      /\ \A i \in 1 .. m : new[i] = IF i <= l THEN rawQueue[i] ELSE queued[i - l]
  <2>1. new \in Seq(RawPacket) /\ Len(new) = Len(rawQueue) + Len(queued)
        /\ \A i \in 1 .. Len(rawQueue) + Len(queued) :
              new[i] = IF i <= Len(rawQueue) THEN rawQueue[i] ELSE queued[i - Len(rawQueue)]
    BY <1>7, ConcatProperties
  <2> HIDE DEF new
  <2>2. DOMAIN new = 1 .. Len(new) /\ Len(new) \in Nat
    BY <2>1, LenProperties
  <2> QED BY <2>1, <2>2 DEF new
<1> HIDE DEF l, k, m, new
<1>10. m <= RawQueueLen /\ l <= m
  BY <1>7, <1>8, <1>9, SMT
<1>11. ASSUME NEW i \in DOMAIN new
       PROVE \/ i \in DOMAIN rawQueue /\ new[i] = rawQueue[i]
             \/ i > l /\ i - l \in DOMAIN queued /\ new[i] = queued[i - l]
  <2>1. i \in 1 .. m
    BY <1>9, <1>11
  <2>2. CASE i <= l
    <3>1. i \in 1 .. l
      BY <2>1, <2>2, <1>8, SMT
    <3>2. new[i] = rawQueue[i]
      BY <2>1, <2>2, <1>9
    <3> QED BY <3>1, <3>2, <1>8
  <2>3. CASE ~(i <= l)
    <3>1. i - l \in 1 .. k /\ i > l
      BY <2>1, <2>3, <1>8, <1>9, SMT
    <3>2. new[i] = queued[i - l]
      BY <2>1, <2>3, <1>9
    <3> QED BY <3>1, <3>2, <1>8
  <2> QED BY <2>2, <2>3
<1>12. ASSUME NEW i \in DOMAIN rawQueue
       PROVE i \in DOMAIN new /\ new[i] = rawQueue[i]
  <2>1. i \in 1 .. l
    BY <1>8
  <2>2. i \in 1 .. m /\ i <= l
    BY <2>1, <1>8, <1>9, SMT
  <2> QED BY <2>2, <1>9
<1> QED BY <1>2, <1>5, <1>6, <1>8, <1>9, <1>10, <1>11, <1>12 DEF l, k, m, new

LEMMA CompletedTypes ==
  ASSUME ReceiverTypes, ~Stamping, NEW queued, Completed(queued)
  PROVE ReceiverTypes'
<1>1. /\ sent' \in Seq(Transmission) /\ Len(sent') = Len(sent)
      /\ rawQueue' \in Seq(RawPacket) /\ Len(rawQueue') <= RawQueueLen /\ Len(rawQueue) <= Len(rawQueue')
  BY CompletedIs
<1>2. UNCHANGED <<now, onAir, stamping, toProcess, last_demod_, numDecoded>>
  BY DEF Completed
<1>3. SourceTypes'
  <2> DEFINE n == Len(sent)
             l == Len(sent')
  <2>1. sources \in [Sources -> Source] /\ l = n /\ n \in Nat
    BY <1>1, SentIs DEF ReceiverTypes, SourceTypes, Source
  <2>2. Idle \in Source
    <3>1. 0 \in 0 .. n /\ 0 \in 0 .. Latest
      BY <2>1, ReceiverAssumption, SMT DEF Latest
    <3> QED BY <3>1 DEF Idle, Source, States
  <2>3. sources' = [s \in Sources |-> IF sources[s].state = "done" THEN Idle ELSE sources[s]]
    BY DEF Completed
  <2>4. sources' \in [Sources -> Source]
    BY <2>1, <2>2, <2>3
  <2>5. \A s \in Sources : sources'[s] = Idle \/ sources'[s] = sources[s]
    BY <2>3
  <2>6. Idle.state = "idle"
    BY DEF Idle
  <2> HIDE DEF n
  <2>7. sources' \in [Sources -> [state : States, heard : 0 .. l, stamp : 0 .. Latest]]
    BY <2>1, <2>4 DEF Source, n
  <2>8. \A s \in Sources : sources'[s].state = "idle" => sources'[s] = Idle
    BY <2>5, <2>6 DEF ReceiverTypes, SourceTypes
  <2>9. \A s \in Sources : sources'[s].state # "idle" => sources'[s].heard > 0
    BY <2>5, <2>6 DEF ReceiverTypes, SourceTypes
  <2> QED BY <2>7, <2>8, <2>9 DEF SourceTypes
<1>4. StampingTypes'
  BY <1>2 DEF StampingTypes, Stamping, ReceiverTypes
<1>5. LoopTypes'
  <2> DEFINE n == Len(sent)
             l == Len(sent')
             q == Len(rawQueue)
             m == Len(rawQueue')
  <2>1. l = n /\ n \in Nat /\ q \in Nat /\ m \in Nat /\ q <= m
    BY <1>1, SentIs, LenProperties
  <2>2. ASSUME NEW i \in DOMAIN rawQueue' PROVE (rawQueue'[i]).of \in 1 .. l
    <3>1. CASE i \in DOMAIN rawQueue /\ rawQueue'[i] = rawQueue[i]
      BY <3>1, <2>1 DEF ReceiverTypes, LoopTypes
    <3>2. CASE i - q \in DOMAIN queued /\ rawQueue'[i] = queued[i - q]
      <4>1. Heard(queued[i - q])
        BY <3>2 DEF Completed
      <4>2. PICK s \in Sources : sources[s].state = "done" /\ (queued[i - q]).of = sources[s].heard
        BY <4>1 DEF Heard
      <4> DEFINE h == sources[s].heard
      <4>3. h \in 0 .. n /\ h > 0
        BY <4>2, SourceIs
      <4> HIDE DEF h, n, l
      <4>4. h \in 1 .. l
        BY <2>1, <4>3, SMT
      <4>5. (rawQueue'[i]).of = h
        BY <3>2, <4>2 DEF h
      <4> QED BY <4>4, <4>5
    <3> QED BY <3>1, <3>2, CompletedIs
  <2>3. toProcess' \in 0 .. m
    <3>1. toProcess \in 0 .. q
      BY DEF ReceiverTypes, LoopTypes
    <3> HIDE DEF q, m
    <3> QED BY <3>1, <2>1, <1>2, SMT
  <2>4. numDecoded' \in 0 .. DecodedQueueLen /\ last_demod_' \in [Sources -> [icao : Nat, ms : 0 .. Latest]]
    BY <1>2 DEF ReceiverTypes, LoopTypes
  <2> QED BY <1>1, <2>2, <2>3, <2>4 DEF LoopTypes
<1> QED BY <1>1, <1>2, <1>3, <1>4, <1>5 DEF ReceiverTypes

\* The copy is passed on, or there is no room for it; it is remembered.
Passes(p) ==
    /\ ~AlreadySeen(p)
    /\ last_demod_' \in [Sources -> [icao : Nat, ms : 0 .. Latest]]
    /\ (last_demod_'[p.source]).icao = sent[p.of].icao /\ (last_demod_'[p.source]).ms = p.stamp
    /\ \A t \in DOMAIN sent \ {p.of} : sent'[t] = sent[t]
    /\ \/ sent' = sent
       \/ /\ sent'[p.of].reports = sent[p.of].reports + 1
          /\ sent'[p.of].icao = sent[p.of].icao /\ sent'[p.of].top = sent[p.of].top
          /\ sent'[p.of].misstamped = sent[p.of].misstamped

LEMMA DecodePacketIs ==
  ASSUME ReceiverTypes, DecodePacket
  PROVE \E p \in RawPacket :
          /\ 1 \in DOMAIN rawQueue /\ p = rawQueue[1] /\ p.of \in DOMAIN sent
          /\ rawQueue' \in Seq(RawPacket) /\ Len(rawQueue') <= RawQueueLen
          /\ toProcess' \in 0 .. Len(rawQueue') /\ numDecoded' \in 0 .. DecodedQueueLen
          /\ \A i \in DOMAIN rawQueue' :
                i \in Nat /\ i + 1 \in DOMAIN rawQueue /\ rawQueue'[i] = rawQueue[i + 1]
          /\ UNCHANGED <<now, onAir, sources, stamping>>
          /\ sent' \in Seq(Transmission) /\ Len(sent') = Len(sent) /\ DOMAIN sent' = DOMAIN sent
          /\ (UNCHANGED <<sent, last_demod_>> \/ Passes(p))
<1> DEFINE q == Len(rawQueue)
           l == Len(rawQueue')
           p == Head(rawQueue)
<1>1. /\ toProcess > 0 /\ toProcess' = toProcess - 1 /\ rawQueue' = Tail(rawQueue)
      /\ UNCHANGED <<now, onAir, sources, stamping>>
      /\ (UNCHANGED <<sent, last_demod_, numDecoded>> \/ PushPacketIfNotDuplicate(p))
  BY DEF DecodePacket
<1>2. /\ rawQueue \in Seq(RawPacket) /\ q <= RawQueueLen /\ toProcess \in 0 .. q
      /\ numDecoded \in 0 .. DecodedQueueLen /\ last_demod_ \in [Sources -> [icao : Nat, ms : 0 .. Latest]]
      /\ \A i \in DOMAIN rawQueue : rawQueue[i].of \in 1 .. Len(sent)
  BY DEF ReceiverTypes, LoopTypes
<1>3. q \in Nat /\ DOMAIN rawQueue = 1 .. q
  BY SentIs
<1>4. q > 0 /\ 1 \in 1 .. q
  <2> HIDE DEF q
  <2> QED BY <1>1, <1>2, <1>3, SMT
<1>5. rawQueue # <<>>
  BY <1>4
<1>6. /\ p = rawQueue[1] /\ rawQueue' \in Seq(RawPacket) /\ l = q - 1
      /\ \A i \in 1 .. q - 1 : rawQueue'[i] = rawQueue[i + 1]
  BY <1>1, <1>2, <1>5, HeadTailProperties
<1>7. DOMAIN rawQueue' = 1 .. l
  BY <1>6, LenProperties
<1> HIDE DEF q, l, p
<1>8. l <= RawQueueLen /\ toProcess' \in 0 .. l
  <2>1. RawQueueLen \in Nat
    BY ReceiverAssumption
  <2> QED BY <2>1, <1>1, <1>2, <1>3, <1>4, <1>6, SMT
<1>9. ASSUME NEW i \in DOMAIN rawQueue'
      PROVE i \in Nat /\ i + 1 \in DOMAIN rawQueue /\ rawQueue'[i] = rawQueue[i + 1]
  <2>1. i \in 1 .. q - 1
    BY <1>6, <1>7
  <2>2. i \in Nat /\ i + 1 \in 1 .. q
    BY <2>1, <1>3, SMT
  <2> QED BY <2>1, <2>2, <1>3, <1>6
<1>10. p \in RawPacket /\ p.of \in DOMAIN sent /\ 1 \in DOMAIN rawQueue
  BY <1>2, <1>3, <1>4, <1>6, SentIs
<1> DEFINE Sent == sent' \in Seq(Transmission) /\ Len(sent') = Len(sent) /\ DOMAIN sent' = DOMAIN sent
<1>11. sent' = sent => Sent
  BY DEF ReceiverTypes
<1>12. CASE UNCHANGED <<sent, last_demod_, numDecoded>>
  <2>1. Sent /\ numDecoded' \in 0 .. DecodedQueueLen
    BY <1>2, <1>11, <1>12
  <2> QED BY <2>1, <1>1, <1>6, <1>8, <1>9, <1>10, <1>12 DEF l
<1>13. CASE PushPacketIfNotDuplicate(p) /\ ~UNCHANGED <<sent, last_demod_, numDecoded>>
  <2>1. /\ ~AlreadySeen(p)
        /\ last_demod_' = [last_demod_ EXCEPT ![p.source] = [icao |-> sent[p.of].icao, ms |-> p.stamp]]
        /\ \/ numDecoded = DecodedQueueLen /\ UNCHANGED <<sent, numDecoded>>
           \/ /\ numDecoded # DecodedQueueLen /\ numDecoded' = numDecoded + 1
              /\ sent' = [sent EXCEPT ![p.of].reports = @ + 1]
    BY <1>13 DEF PushPacketIfNotDuplicate
  <2>2. sent[p.of] \in Transmission /\ Senders \subseteq Nat /\ DecodedQueueLen \in Nat
    BY <1>10, SentIs, ReceiverAssumption
  <2>3. p.source \in Sources /\ p.stamp \in 0 .. Latest
    BY <1>10 DEF RawPacket
  <2>4. sent[p.of].icao \in Nat
    BY <2>2 DEF Transmission
  <2>5. /\ last_demod_' \in [Sources -> [icao : Nat, ms : 0 .. Latest]]
        /\ (last_demod_'[p.source]).icao = sent[p.of].icao /\ (last_demod_'[p.source]).ms = p.stamp
    <3> DEFINE r == [icao |-> sent[p.of].icao, ms |-> p.stamp]
    <3>1. r \in [icao : Nat, ms : 0 .. Latest] /\ r.icao = sent[p.of].icao /\ r.ms = p.stamp
      BY <2>3, <2>4
    <3> HIDE DEF r
    <3>2. last_demod_' = [last_demod_ EXCEPT ![p.source] = r]
      BY <2>1 DEF r
    <3> QED BY <3>1, <3>2, <2>3, <1>2
  <2>6. numDecoded' \in 0 .. DecodedQueueLen
    BY <2>1, <2>2, <1>2, SMT
  <2>7. CASE sent' = sent
    <3>1. Passes(p)
      BY <2>1, <2>5, <2>7, Zenon DEF Passes
    <3> QED BY <3>1, <2>6, <2>7, <1>1, <1>6, <1>8, <1>9, <1>10, <1>11 DEF l
  <2>8. CASE sent' = [sent EXCEPT ![p.of].reports = @ + 1]
    <3> DEFINE t == p.of
               m == sent[t]
               new == [icao |-> m.icao, top |-> m.top, misstamped |-> m.misstamped, reports |-> m.reports + 1]
    <3>1. t \in DOMAIN sent /\ sent' = [sent EXCEPT ![t].reports = @ + 1] /\ m \in Transmission
      BY <1>10, <2>2, <2>8
    <3> HIDE DEF t
    <3>2. sent'[t] = new
      BY <3>1 DEF Transmission
    <3>3. m.icao \in Senders /\ m.top \in 0 .. Latest /\ m.misstamped \in BOOLEAN /\ m.reports + 1 \in Nat
      BY <3>1 DEF Transmission
    <3>4. new \in Transmission
      BY <3>3, TransmissionIs, Zenon
    <3>5. DOMAIN sent' = DOMAIN sent /\ \A u \in DOMAIN sent \ {t} : sent'[u] = sent[u]
      BY <3>1
    <3>6. sent' = [u \in DOMAIN sent |-> sent'[u]]
      BY <3>1, Zenon
    <3>7. \A u \in DOMAIN sent : sent'[u] \in Transmission
      BY <3>2, <3>4, <3>5, SentIs
    <3>8. Sent
      BY <3>5, <3>6, <3>7, SentChanged
    <3>9. /\ sent'[t].reports = m.reports + 1
          /\ sent'[t].icao = m.icao /\ sent'[t].top = m.top
          /\ sent'[t].misstamped = m.misstamped
      BY <3>2
    <3> HIDE DEF m
    <3>10. Passes(p)
      BY <2>1, <2>5, <3>5, <3>9, Zenon DEF Passes, t, m
    <3> QED BY <3>8, <3>10, <2>6, <1>1, <1>6, <1>8, <1>9, <1>10 DEF l
  <2> QED BY <2>1, <2>7, <2>8
<1> QED BY <1>1, <1>12, <1>13

LEMMA DecodePacketTypes ==
  ASSUME ReceiverTypes, DecodePacket
  PROVE ReceiverTypes'
<1>1. PICK p \in RawPacket :
          /\ rawQueue' \in Seq(RawPacket) /\ Len(rawQueue') <= RawQueueLen
          /\ toProcess' \in 0 .. Len(rawQueue') /\ numDecoded' \in 0 .. DecodedQueueLen
          /\ \A i \in DOMAIN rawQueue' :
                i \in Nat /\ i + 1 \in DOMAIN rawQueue /\ rawQueue'[i] = rawQueue[i + 1]
          /\ UNCHANGED <<now, onAir, sources, stamping>>
          /\ sent' \in Seq(Transmission) /\ Len(sent') = Len(sent)
          /\ (UNCHANGED <<sent, last_demod_>> \/ Passes(p))
  BY DecodePacketIs
<1>2. last_demod_' \in [Sources -> [icao : Nat, ms : 0 .. Latest]]
  BY <1>1 DEF Passes, ReceiverTypes, LoopTypes
<1>3. \A i \in DOMAIN rawQueue' : (rawQueue'[i]).of \in 1 .. Len(sent')
  BY <1>1 DEF ReceiverTypes, LoopTypes
<1>4. LoopTypes'
  BY <1>1, <1>2, <1>3 DEF LoopTypes
<1>5. SourceTypes' /\ StampingTypes'
  BY <1>1 DEF ReceiverTypes, SourceTypes, StampingTypes, Stamping
<1> QED BY <1>1, <1>4, <1>5 DEF ReceiverTypes

LEMMA UpdateDecoderLoopTypes ==
  ASSUME ReceiverTypes, UpdateDecoderLoop
  PROVE ReceiverTypes'
<1> DEFINE q == Len(rawQueue)
<1>1. /\ toProcess' = q /\ q \in Nat
      /\ UNCHANGED <<now, onAir, sent, sources, stamping, rawQueue, last_demod_, numDecoded>>
  BY SentIs DEF UpdateDecoderLoop
<1>2. toProcess' \in 0 .. q
  <2> HIDE DEF q
  <2> QED BY <1>1
<1>3. LoopTypes'
  BY <1>1, <1>2 DEF ReceiverTypes, LoopTypes
<1> QED BY <1>1, <1>3 DEF ReceiverTypes, SourceTypes, StampingTypes, Stamping

LEMMA IngestDecodedTypes ==
  ASSUME ReceiverTypes, IngestDecoded
  PROVE ReceiverTypes'
<1>1. /\ numDecoded > 0 /\ numDecoded' = numDecoded - 1
      /\ UNCHANGED <<now, onAir, sent, sources, stamping, rawQueue, toProcess, last_demod_>>
  BY DEF IngestDecoded
<1>2. numDecoded' \in 0 .. DecodedQueueLen
  BY <1>1, ReceiverAssumption DEF ReceiverTypes, LoopTypes
<1>3. LoopTypes'
  BY <1>1, <1>2 DEF ReceiverTypes, LoopTypes
<1> QED BY <1>1, <1>3 DEF ReceiverTypes, SourceTypes, StampingTypes, Stamping

LEMMA ReceiverTypesInit == ReceiverInit => ReceiverTypes
<1> SUFFICES ASSUME ReceiverInit PROVE ReceiverTypes
  OBVIOUS
<1> USE DEF ReceiverInit
<1>1. 0 \in 0 .. MaxTime /\ 0 \in 0 .. Latest /\ 0 \in 0 .. DecodedQueueLen
  BY ReceiverAssumption, SMT DEF Latest
<1>2. sent = <<>> /\ sent \in Seq(Transmission) /\ Len(sent) = 0
  OBVIOUS
<1>3. SourceTypes
  <2>1. Idle \in Source /\ Idle.state = "idle"
    BY <1>1, <1>2 DEF Idle, Source, States
  <2> QED BY <2>1 DEF SourceTypes, Source
<1>4. StampingTypes
  BY DEF StampingTypes, Stamping
<1>5. LoopTypes
  BY <1>1, ReceiverAssumption DEF LoopTypes
<1> QED BY <1>1, <1>2, <1>3, <1>4, <1>5 DEF ReceiverTypes

LEMMA ReceiverTypesStep == ReceiverTypes /\ [ReceiverNext]_receiverVars => ReceiverTypes'
<1> SUFFICES ASSUME ReceiverTypes, [ReceiverNext]_receiverVars PROVE ReceiverTypes'
  OBVIOUS
<1>1. CASE Tick
  <2>1. /\ now' = now + 1 /\ now < MaxTime /\ onAir' = IF onAir = "now" THEN "before" ELSE "no"
        /\ UNCHANGED <<sent, sources, stamping, rawQueue, toProcess, last_demod_, numDecoded>>
    BY <1>1 DEF Tick
  <2>2. now' \in 0 .. MaxTime /\ now <= now'
    BY <2>1, ReceiverAssumption DEF ReceiverTypes
  <2>3. onAir' \in {"no", "now", "before"} /\ (onAir' # "no" => Len(sent) > 0)
    BY <2>1 DEF ReceiverTypes
  <2> QED BY <2>1, <2>2, <2>3, TimePasses
<1>2. ASSUME NEW a \in Senders, Transmit(a) PROVE ReceiverTypes'
  BY <1>2, TransmitTypes
<1>3. CASE EndTransmission
  <2>1. /\ onAir' = "no"
        /\ UNCHANGED <<now, sent, sources, stamping, rawQueue, toProcess, last_demod_, numDecoded>>
    BY <1>3 DEF EndTransmission
  <2>2. now' \in 0 .. MaxTime /\ now <= now'
    BY <2>1, ReceiverAssumption DEF ReceiverTypes
  <2> QED BY <2>1, <2>2, TimePasses
<1>4. ASSUME NEW s \in Sources, DetectPreamble(s) \/ FinishMessage(s) \/ ReadFirst(s)
      PROVE ReceiverTypes'
  BY <1>4, DetectPreambleIs, FinishMessageIs, ReadFirstTypes
<1>5. CASE ReadSecond
  BY <1>5, ReadSecondIs
<1>6. CASE OnDemodComplete
  BY <1>6, OnDemodCompleteIs, CompletedTypes
<1>7. CASE UpdateDecoderLoop \/ DecodePacket \/ IngestDecoded
  BY <1>7, UpdateDecoderLoopTypes, DecodePacketTypes, IngestDecodedTypes
<1>8. CASE UNCHANGED receiverVars
  BY <1>8 DEF receiverVars, ReceiverTypes, SourceTypes, StampingTypes, Stamping, LoopTypes
<1> QED BY <1>1, <1>2, <1>3, <1>4, <1>5, <1>6, <1>7, <1>8 DEF ReceiverNext

-----------------------------------------------------------------------------
(* Nothing overtakes.                                                      *)

\* What is heard or queued is a transmission so far.
LEMMA NumbersOfPackets ==
  ASSUME ReceiverTypes
  PROVE /\ Len(sent) \in Nat /\ DOMAIN sent = 1 .. Len(sent)
        /\ \A s \in Sources : sources[s].heard \in Nat /\ sources[s].heard <= Len(sent)
        /\ \A i \in DOMAIN rawQueue : rawQueue[i].of \in Nat /\ rawQueue[i].of <= Len(sent)
<1> DEFINE n == Len(sent)
<1>1. n \in Nat /\ DOMAIN sent = 1 .. n
  BY SentIs
<1>2. \A s \in Sources : sources[s].heard \in 0 .. n
  BY SourceIs
<1>3. \A i \in DOMAIN rawQueue : rawQueue[i].of \in 1 .. n
  BY DEF ReceiverTypes, LoopTypes
<1> HIDE DEF n
<1>4. \A m \in 0 .. n : m \in Nat /\ m <= n
  BY <1>1, SMT
<1>5. \A m \in 1 .. n : m \in 0 .. n
  BY <1>1, SMT
<1> QED BY <1>1, <1>2, <1>3, <1>4, <1>5 DEF n

LEMMA TurnStays ==
  ASSUME InTurn, UNCHANGED <<sources, rawQueue>>, Len(sent') = Len(sent), DOMAIN sent' = DOMAIN sent,
         \A t \in DOMAIN sent : sent'[t].reports = sent[t].reports,
         onAir # "no" => onAir' # "no"
  PROVE InTurn'
BY DEF InTurn

LEMMA TransmitTurn ==
  ASSUME ReceiverTypes, InTurn, NEW a \in Senders, Transmit(a)
  PROVE InTurn'
<1>1. /\ ReceiverTypes' /\ (\A t \in DOMAIN sent : sent'[t] = sent[t])
      /\ DOMAIN sent' = 1 .. Len(sent) + 1
      /\ sent'[Len(sent) + 1] = [icao |-> a, top |-> 0, misstamped |-> FALSE, reports |-> 0]
  BY TransmitTypes
<1>2. /\ \A s \in Sources : sources[s].state \notin {"begun", "demod"}
      /\ UNCHANGED <<sources, rawQueue>>
  BY DEF Transmit
<1>3. ASSUME NEW t \in DOMAIN sent', sent'[t].reports > 0
      PROVE t \in DOMAIN sent /\ sent[t].reports > 0
  <2> DEFINE n == Len(sent)
  <2>1. n \in Nat /\ DOMAIN sent = 1 .. n /\ t \in 1 .. n + 1
    BY <1>1, SentIs
  <2>2. t # n + 1
    BY <1>1, <1>3
  <2> HIDE DEF n
  <2>3. t \in 1 .. n
    BY <2>1, <2>2, SMT
  <2> QED BY <2>1, <2>3, <1>1, <1>3
<1> QED BY <1>2, <1>3 DEF InTurn

LEMMA DetectPreambleTurn ==
  ASSUME ReceiverTypes, InTurn, NEW s \in Sources, DetectPreamble(s)
  PROVE InTurn'
<1>1. /\ onAir # "no" /\ sources[s].state = "idle"
      /\ UNCHANGED <<onAir, sent, rawQueue>>
      /\ sources'[s].state = "begun" /\ sources'[s].heard = Len(sent)
      /\ \A r \in Sources \ {s} : sources'[r] = sources[r]
  BY DetectPreambleIs
<1>2. /\ \A t \in DOMAIN sent : t <= Len(sent)
      /\ \A i \in DOMAIN rawQueue : rawQueue[i].of <= Len(sent)
  BY NumbersOfPackets
<1> QED BY <1>1, <1>2 DEF InTurn

LEMMA FinishMessageTurn ==
  ASSUME ReceiverTypes, InTurn, NEW s \in Sources, FinishMessage(s)
  PROVE InTurn'
<1>1. /\ sources[s].state = "demod"
      /\ \A r \in Sources : sources[r].state = "done" => sources[r].heard = sources[s].heard
      /\ UNCHANGED <<onAir, sent, rawQueue>>
      /\ sources'[s].state = "done" /\ sources'[s].heard = sources[s].heard
      /\ \A r \in Sources \ {s} : sources'[r] = sources[r]
  BY FinishMessageIs
<1> QED BY <1>1 DEF InTurn

LEMMA ReadSecondTurn ==
  ASSUME ReceiverTypes, InTurn, ReadSecond
  PROVE InTurn'
<1>1. PICK s \in Sources :
              /\ sources[s].state = "begun"
              /\ sources'[s].state = "demod" /\ sources'[s].heard = sources[s].heard
              /\ \A r \in Sources \ {s} : sources'[r] = sources[r]
  BY ReadSecondIs
<1>2. /\ Len(sent') = Len(sent) /\ DOMAIN sent' = DOMAIN sent /\ UNCHANGED <<onAir, rawQueue>>
      /\ \A t \in DOMAIN sent : sent'[t].reports = sent[t].reports
  BY ReadSecondIs
<1> QED BY <1>1, <1>2 DEF InTurn

LEMMA CompletedTurn ==
  ASSUME ReceiverTypes, InTurn, NEW queued, Completed(queued)
  PROVE InTurn'
<1>1. /\ Len(sent') = Len(sent) /\ DOMAIN sent' = DOMAIN sent
      /\ \A t \in DOMAIN sent : sent'[t] = Noted(t, queued)
      /\ \A s \in Sources : sources[s].state = "done" => sources'[s].state = "idle"
      /\ \A s \in Sources : sources[s].state # "done" => sources'[s] = sources[s]
      /\ \A i \in DOMAIN rawQueue' :
            \/ i \in DOMAIN rawQueue /\ rawQueue'[i] = rawQueue[i]
            \/ i > Len(rawQueue) /\ i - Len(rawQueue) \in DOMAIN queued
               /\ rawQueue'[i] = queued[i - Len(rawQueue)]
      /\ \A i \in DOMAIN rawQueue : i \in DOMAIN rawQueue' /\ rawQueue'[i] = rawQueue[i]
  BY CompletedIs
<1>2. onAir' = onAir /\ queued \in Seq(RawPacket)
      /\ \A s \in Sources : sources[s].state # "begun"
  BY DEF Completed
<1>3. \A t \in DOMAIN sent : sent'[t].reports = sent[t].reports
  BY <1>1, <1>2, NotedIs
<1>4. \A i \in DOMAIN rawQueue' : i \in DOMAIN rawQueue \/ i > Len(rawQueue)
  BY <1>1
<1>5. ASSUME NEW i \in DOMAIN rawQueue'
      PROVE \/ i \in DOMAIN rawQueue /\ rawQueue'[i] = rawQueue[i]
            \/ /\ i > Len(rawQueue)
               /\ \E s \in Sources : sources[s].state = "done" /\ (rawQueue'[i]).of = sources[s].heard
  BY <1>1 DEF Completed, Heard
<1>6. /\ \A i \in DOMAIN rawQueue : i \in Nat /\ i <= Len(rawQueue)
      /\ Len(rawQueue) \in Nat /\ Len(rawQueue') \in Nat /\ DOMAIN rawQueue' = 1 .. Len(rawQueue')
  <2> DEFINE q == Len(rawQueue)
  <2>1. q \in Nat /\ DOMAIN rawQueue = 1 .. q
    BY SentIs
  <2>2. \A i \in 1 .. q : i \in Nat /\ i <= q
    BY <2>1, SMT
  <2>3. Len(rawQueue') \in Nat /\ DOMAIN rawQueue' = 1 .. Len(rawQueue')
    BY CompletedIs, LenProperties
  <2> QED BY <2>1, <2>2, <2>3
<1>7. \A i \in DOMAIN rawQueue' : i \in Nat
  BY <1>6
<1>8. /\ Len(sent) \in Nat /\ \A s \in Sources : sources[s].heard \in Nat /\ sources[s].heard <= Len(sent)
      /\ \A i \in DOMAIN rawQueue : rawQueue[i].of \in Nat
  BY NumbersOfPackets
<1> DEFINE new == rawQueue'
           q == Len(rawQueue)
<1> HIDE DEF new, q
<1>9. ASSUME NEW i \in DOMAIN new, NEW j \in DOMAIN new, i < j
      PROVE new[i].of <= new[j].of
  <2>1. CASE i \in DOMAIN rawQueue /\ j \in DOMAIN rawQueue
    BY <2>1, <1>1, <1>9 DEF InTurn, new
  <2>2. CASE i \in DOMAIN rawQueue /\ j \notin DOMAIN rawQueue
    <3>1. PICK s \in Sources : sources[s].state = "done" /\ new[j].of = sources[s].heard
      BY <2>2, <1>5 DEF new
    <3>2. new[i] = rawQueue[i] /\ rawQueue[i].of <= sources[s].heard
      BY <2>2, <3>1, <1>1 DEF InTurn, new
    <3> QED BY <3>1, <3>2
  <2>3. CASE i \notin DOMAIN rawQueue /\ j \in DOMAIN rawQueue
    <3>1. i > q /\ j <= q /\ i \in Nat /\ j \in Nat /\ q \in Nat
      BY <2>3, <1>5, <1>6, <1>7 DEF new, q
    <3> QED BY <3>1, <1>9, SMT
  <2>4. CASE i \notin DOMAIN rawQueue /\ j \notin DOMAIN rawQueue
    <3>1. PICK r \in Sources : sources[r].state = "done" /\ new[i].of = sources[r].heard
      BY <2>4, <1>5 DEF new
    <3>2. PICK s \in Sources : sources[s].state = "done" /\ new[j].of = sources[s].heard
      BY <2>4, <1>5 DEF new
    <3>3. sources[r].heard = sources[s].heard /\ sources[s].heard \in Nat
      BY <3>1, <3>2, <1>8 DEF InTurn
    <3> QED BY <3>1, <3>2, <3>3
  <2> QED BY <2>1, <2>2, <2>3, <2>4
<1>10. ASSUME NEW i \in DOMAIN new, NEW s \in Sources, sources'[s].state # "idle"
       PROVE new[i].of <= sources'[s].heard
  <2>1. sources[s].state # "done" /\ sources'[s] = sources[s] /\ sources[s].state # "idle"
    BY <1>10, <1>1
  <2>2. sources[s].state = "demod" /\ sources[s].heard = Len(sent)
    <3>1. sources[s].state \in {"idle", "begun", "demod", "done"}
      BY SourceIs DEF States
    <3> QED BY <2>1, <3>1, <1>2 DEF InTurn
  <2>3. CASE i \in DOMAIN rawQueue
    BY <2>1, <2>3, <1>1 DEF InTurn, new
  <2>4. CASE i \notin DOMAIN rawQueue
    <3>1. PICK r \in Sources : sources[r].state = "done" /\ new[i].of = sources[r].heard
      BY <2>4, <1>5 DEF new
    <3>2. sources[r].heard <= Len(sent)
      BY <1>8
    <3> QED BY <3>1, <3>2, <2>1, <2>2
  <2> QED BY <2>3, <2>4
<1>11. ASSUME NEW t \in DOMAIN sent, sent'[t].reports > 0
       PROVE /\ \A i \in DOMAIN new : t <= new[i].of
             /\ \A s \in Sources : sources'[s].state # "idle" => t <= sources'[s].heard
  <2>1. sent[t].reports > 0
    BY <1>3, <1>11
  <2>2. /\ \A i \in DOMAIN rawQueue : t <= rawQueue[i].of
        /\ \A s \in Sources : sources[s].state # "idle" => t <= sources[s].heard
    BY <2>1 DEF InTurn
  <2>3. ASSUME NEW i \in DOMAIN new PROVE t <= new[i].of
    <3>1. CASE i \in DOMAIN rawQueue
      BY <3>1, <2>2, <1>1 DEF new
    <3>2. CASE i \notin DOMAIN rawQueue
      <4>1. PICK r \in Sources : sources[r].state = "done" /\ new[i].of = sources[r].heard
        BY <3>2, <1>5 DEF new
      <4> QED BY <4>1, <2>2
    <3> QED BY <3>1, <3>2
  <2>4. ASSUME NEW s \in Sources, sources'[s].state # "idle" PROVE t <= sources'[s].heard
    BY <2>2, <2>4, <1>1
  <2> QED BY <2>3, <2>4
<1>12. \A s \in Sources : sources'[s].state \in {"begun", "demod"} =>
          sources'[s].heard = Len(sent') /\ sources'[s].state # "begun"
  BY <1>1, <1>2 DEF InTurn
<1>13. \A s \in Sources : sources'[s].state # "done"
  BY <1>1
<1> QED BY <1>1, <1>9, <1>10, <1>11, <1>12, <1>13 DEF InTurn, new

LEMMA DecodePacketTurn ==
  ASSUME ReceiverTypes, InTurn, DecodePacket
  PROVE InTurn'
<1>1. PICK p \in RawPacket :
          /\ 1 \in DOMAIN rawQueue /\ p = rawQueue[1] /\ p.of \in DOMAIN sent
          /\ \A i \in DOMAIN rawQueue' :
                i \in Nat /\ i + 1 \in DOMAIN rawQueue /\ rawQueue'[i] = rawQueue[i + 1]
          /\ DOMAIN rawQueue' \subseteq Nat \ {0}
          /\ UNCHANGED <<now, onAir, sources, stamping>>
          /\ Len(sent') = Len(sent) /\ DOMAIN sent' = DOMAIN sent
          /\ (UNCHANGED <<sent, last_demod_>> \/ Passes(p))
  BY DecodePacketIs, LenProperties
<1> DEFINE new == rawQueue'
<1> HIDE DEF new
<1>2. /\ \A i, j \in DOMAIN rawQueue : i < j => rawQueue[i].of <= rawQueue[j].of
      /\ \A i \in DOMAIN rawQueue, s \in Sources :
            sources[s].state # "idle" => rawQueue[i].of <= sources[s].heard
  BY DEF InTurn
<1>3. ASSUME NEW i \in DOMAIN new, NEW j \in DOMAIN new, i < j
      PROVE new[i].of <= new[j].of
  <2>1. i + 1 \in DOMAIN rawQueue /\ j + 1 \in DOMAIN rawQueue /\ i + 1 < j + 1
        /\ new[i] = rawQueue[i + 1] /\ new[j] = rawQueue[j + 1]
    BY <1>1, <1>3 DEF new
  <2> QED BY <2>1, <1>2
<1>4. \A i \in DOMAIN new, s \in Sources : sources'[s].state # "idle" => new[i].of <= sources'[s].heard
  BY <1>1, <1>2 DEF new
<1>5. ASSUME NEW t \in DOMAIN sent, sent'[t].reports > 0
      PROVE /\ \A i \in DOMAIN new : t <= new[i].of
            /\ \A s \in Sources : sources'[s].state # "idle" => t <= sources'[s].heard
  <2>1. CASE t = p.of
    <3>1. ASSUME NEW i \in DOMAIN new PROVE t <= new[i].of
      <4>1. 1 < i + 1 /\ i + 1 \in DOMAIN rawQueue /\ new[i] = rawQueue[i + 1]
        BY <1>1 DEF new
      <4> QED BY <4>1, <2>1, <1>1, <1>2
    <3> QED BY <3>1, <2>1, <1>1, <1>2
  <2>2. CASE t # p.of
    <3>1. sent'[t] = sent[t]
      BY <2>2, <1>1 DEF Passes
    <3>2. /\ \A i \in DOMAIN rawQueue : t <= rawQueue[i].of
          /\ \A s \in Sources : sources[s].state # "idle" => t <= sources[s].heard
      BY <3>1, <1>5 DEF InTurn
    <3> QED BY <3>2, <1>1 DEF new
  <2> QED BY <2>1, <2>2
<1> QED BY <1>1, <1>3, <1>4, <1>5 DEF InTurn, new

LEMMA InTurnStep == ReceiverTypes /\ InTurn /\ [ReceiverNext]_receiverVars => InTurn'
<1> SUFFICES ASSUME ReceiverTypes, InTurn, [ReceiverNext]_receiverVars PROVE InTurn'
  OBVIOUS
<1>1. CASE Tick
  <2>1. onAir # "before" /\ onAir \in {"no", "now", "before"}
        /\ onAir' = (IF onAir = "now" THEN "before" ELSE "no") /\ UNCHANGED <<sent, sources, rawQueue>>
    BY <1>1 DEF Tick, ReceiverTypes
  <2>2. onAir # "no" => onAir' # "no"
    BY <2>1
  <2> QED BY <2>1, <2>2, TurnStays
<1>2. ASSUME NEW a \in Senders, Transmit(a) PROVE InTurn'
  BY <1>2, TransmitTurn
<1>3. CASE EndTransmission
  <2>1. UNCHANGED <<sent, sources, rawQueue>> /\ \A s \in Sources : sources[s].state # "begun"
    BY <1>3 DEF EndTransmission
  <2> QED BY <2>1 DEF InTurn
<1>4. ASSUME NEW s \in Sources, DetectPreamble(s) \/ FinishMessage(s) \/ ReadFirst(s)
      PROVE InTurn'
  <2>1. ReadFirst(s) => UNCHANGED <<onAir, sent, sources, rawQueue>>
    BY DEF ReadFirst
  <2> QED BY <1>4, <2>1, DetectPreambleTurn, FinishMessageTurn, TurnStays
<1>5. CASE ReadSecond
  BY <1>5, ReadSecondTurn
<1>6. CASE OnDemodComplete
  BY <1>6, OnDemodCompleteIs, CompletedTurn
<1>7. CASE DecodePacket
  BY <1>7, DecodePacketTurn
<1>8. CASE UpdateDecoderLoop \/ IngestDecoded \/ UNCHANGED receiverVars
  <2>1. UNCHANGED <<onAir, sent, sources, rawQueue>>
    BY <1>8 DEF UpdateDecoderLoop, IngestDecoded, receiverVars
  <2> QED BY <2>1, TurnStays
<1> QED BY <1>1, <1>2, <1>3, <1>4, <1>5, <1>6, <1>7, <1>8 DEF ReceiverNext

-----------------------------------------------------------------------------
(* A transmission is followed to its last copy.                            *)

\* The queue and what is remembered stay.
LEMMA StampedStays ==
  ASSUME NEW t, NEW b, StampedAt(t, b), UNCHANGED <<rawQueue, last_demod_>>,
         sent'[t].icao = sent[t].icao, sent'[t].top = sent[t].top, sent'[t].reports = sent[t].reports,
         \A s \in Sources : sources'[s].state \in {"demod", "done"} /\ sources'[s].heard = t
                               => sources'[s].stamp \in {b, b + 1},
         t = Len(sent') => (onAir' = "now" => b = now') /\ (onAir' = "before" => b = now' - 1),
         Pending(t)' => Pending(t)
  PROVE StampedAt(t, b)'
<1>1. Remembered(t, b) => Remembered(t, b)'
  BY DEF Remembered
<1> QED BY <1>1 DEF StampedAt

LEMMA FollowedStays ==
  ASSUME NEW t, Followed(t), UNCHANGED <<rawQueue, last_demod_>>,
         ~sent'[t].misstamped => ~sent[t].misstamped,
         sent'[t].icao = sent[t].icao, sent'[t].top = sent[t].top, sent'[t].reports = sent[t].reports,
         Pending(t)' => Pending(t),
         ~sent'[t].misstamped => \A b \in Int : StampedAt(t, b) =>
            /\ \A s \in Sources : sources'[s].state \in {"demod", "done"} /\ sources'[s].heard = t
                                     => sources'[s].stamp \in {b, b + 1}
            /\ t = Len(sent') => (onAir' = "now" => b = now') /\ (onAir' = "before" => b = now' - 1)
  PROVE Followed(t)'
<1> SUFFICES ASSUME ~sent'[t].misstamped PROVE sent'[t].reports <= 1 /\ \E b \in Int : StampedAt(t, b)'
  BY DEF Followed
<1>1. PICK b \in Int : StampedAt(t, b)
  BY DEF Followed
<1>2. StampedAt(t, b)'
  BY <1>1, StampedStays
<1> QED BY <1>2 DEF Followed

LEMMA TickFollowed ==
  ASSUME ReceiverTypes, NEW t \in DOMAIN sent, Followed(t), Tick
  PROVE Followed(t)'
<1>1. /\ now' = now + 1 /\ now \in Int /\ onAir # "before" /\ onAir \in {"no", "now", "before"}
      /\ onAir' = IF onAir = "now" THEN "before" ELSE "no"
      /\ UNCHANGED <<sent, sources, rawQueue, last_demod_>>
  BY DEF Tick, ReceiverTypes
<1>2. Pending(t)' => Pending(t)
  BY <1>1 DEF Pending
<1>3. \A b \in Int : StampedAt(t, b) =>
         /\ \A s \in Sources : sources'[s].state \in {"demod", "done"} /\ sources'[s].heard = t
                                  => sources'[s].stamp \in {b, b + 1}
         /\ t = Len(sent') => (onAir' = "now" => b = now') /\ (onAir' = "before" => b = now' - 1)
  BY <1>1 DEF StampedAt
<1> QED BY <1>1, <1>2, <1>3, FollowedStays

LEMMA TransmitFollowed ==
  ASSUME ReceiverTypes, \A t \in DOMAIN sent : Followed(t), NEW a \in Senders, Transmit(a)
  PROVE \A t \in DOMAIN sent' : Followed(t)'
<1>1. PICK n \in Nat : n = Len(sent)
  BY SentIs
<1>2. /\ Len(sent') = n + 1 /\ (\A t \in DOMAIN sent : sent'[t] = sent[t])
      /\ DOMAIN sent' = 1 .. n + 1 /\ DOMAIN sent = 1 .. n /\ n \in Nat
      /\ sent'[n + 1] = [icao |-> a, top |-> 0, misstamped |-> FALSE, reports |-> 0]
  BY <1>1, TransmitTypes, SentIs
<1>3. /\ onAir = "no" /\ onAir' = "now"
      /\ UNCHANGED <<now, sources, rawQueue, last_demod_>>
  BY DEF Transmit
<1>4. /\ \A s \in Sources : sources[s].heard <= n /\ sources[s].heard \in Nat
      /\ \A i \in DOMAIN rawQueue : rawQueue[i].of <= n /\ rawQueue[i].of \in Nat
  BY <1>1, NumbersOfPackets
<1>5. ASSUME NEW t \in 1 .. n PROVE Followed(t)'
  <2>1. t # Len(sent')
    BY <1>2, SMT
  <2>2. Pending(t)' => Pending(t)
    BY <2>1, <1>1, <1>3 DEF Pending
  <2>3. sent'[t] = sent[t] /\ Followed(t)
    BY <1>2
  <2>4. \A b \in Int : StampedAt(t, b) =>
           /\ \A s \in Sources : sources'[s].state \in {"demod", "done"} /\ sources'[s].heard = t
                                    => sources'[s].stamp \in {b, b + 1}
           /\ t = Len(sent') => (onAir' = "now" => b = now') /\ (onAir' = "before" => b = now' - 1)
    BY <2>1, <1>1, <1>3 DEF StampedAt
  <2> QED BY <2>2, <2>3, <2>4, <1>3, FollowedStays
<1>6. ASSUME NEW t \in Nat, t = n + 1 PROVE Followed(t)'
  <2>1. /\ \A s \in Sources : sources'[s].heard # t
        /\ \A i \in DOMAIN rawQueue' : (rawQueue'[i]).of # t
    BY <1>6, <1>2, <1>3, <1>4, SMT
  <2>2. sent'[t].reports = 0
    BY <1>6, <1>2
  <2>3. PICK b \in Int : b = now'
    BY <1>3 DEF ReceiverTypes
  <2>4. StampedAt(t, b)'
    BY <2>1, <2>2, <2>3, <1>3 DEF StampedAt
  <2> QED BY <1>6, <2>2, <2>4 DEF Followed
<1>7. \A t \in 1 .. n + 1 : t \in 1 .. n \/ (t \in Nat /\ t = n + 1)
  BY <1>2, SMT
<1>8. SUFFICES ASSUME NEW t \in DOMAIN sent' PROVE Followed(t)'
  OBVIOUS
<1>9. t \in 1 .. n \/ (t \in Nat /\ t = n + 1)
  BY <1>2, <1>7
<1> QED BY <1>9, <1>5, <1>6

LEMMA EndTransmissionFollowed ==
  ASSUME NEW t \in DOMAIN sent, Followed(t), EndTransmission
  PROVE Followed(t)'
<1>1. onAir' = "no" /\ UNCHANGED <<now, sent, sources, rawQueue, last_demod_>>
  BY DEF EndTransmission
<1>2. Pending(t)' => Pending(t)
  BY <1>1 DEF Pending
<1>3. \A b \in Int : StampedAt(t, b) =>
         /\ \A s \in Sources : sources'[s].state \in {"demod", "done"} /\ sources'[s].heard = t
                                  => sources'[s].stamp \in {b, b + 1}
         /\ t = Len(sent') => (onAir' = "now" => b = now') /\ (onAir' = "before" => b = now' - 1)
  BY <1>1 DEF StampedAt
<1> QED BY <1>1, <1>2, <1>3, FollowedStays

LEMMA DetectPreambleFollowed ==
  ASSUME ReceiverTypes, NEW t \in DOMAIN sent, Followed(t), NEW s \in Sources, DetectPreamble(s)
  PROVE Followed(t)'
<1>1. /\ onAir # "no" /\ UNCHANGED <<now, onAir, sent, rawQueue, last_demod_>>
      /\ sources'[s].state = "begun" /\ sources'[s].heard = Len(sent)
      /\ \A r \in Sources \ {s} : sources'[r] = sources[r]
  BY DetectPreambleIs
<1>2. Pending(t)' => Pending(t)
  BY <1>1 DEF Pending
<1>3. \A b \in Int : StampedAt(t, b) =>
         /\ \A r \in Sources : sources'[r].state \in {"demod", "done"} /\ sources'[r].heard = t
                                  => sources'[r].stamp \in {b, b + 1}
         /\ t = Len(sent') => (onAir' = "now" => b = now') /\ (onAir' = "before" => b = now' - 1)
  BY <1>1 DEF StampedAt
<1> QED BY <1>1, <1>2, <1>3, FollowedStays

LEMMA FinishMessageFollowed ==
  ASSUME ReceiverTypes, NEW t \in DOMAIN sent, Followed(t), NEW s \in Sources, FinishMessage(s)
  PROVE Followed(t)'
<1>1. /\ UNCHANGED <<now, onAir, sent, rawQueue, last_demod_>> /\ sources[s].state = "demod"
      /\ sources'[s].state = "done" /\ sources'[s].heard = sources[s].heard
      /\ sources'[s].stamp = sources[s].stamp
      /\ \A r \in Sources \ {s} : sources'[r] = sources[r]
  BY FinishMessageIs
<1>2. Pending(t)' => Pending(t)
  BY <1>1 DEF Pending
<1>3. \A b \in Int : StampedAt(t, b) =>
         /\ \A r \in Sources : sources'[r].state \in {"demod", "done"} /\ sources'[r].heard = t
                                  => sources'[r].stamp \in {b, b + 1}
         /\ t = Len(sent') => (onAir' = "now" => b = now') /\ (onAir' = "before" => b = now' - 1)
  BY <1>1 DEF StampedAt
<1> QED BY <1>1, <1>2, <1>3, FollowedStays

\* The stamp is that of the transmission on the air, and right if nothing is
\* said of it.
LEMMA ReadSecondFollowed ==
  ASSUME ReceiverTypes, InTurn, NEW t \in DOMAIN sent, Followed(t), ReadSecond
  PROVE Followed(t)'
<1>1. PICK s \in Sources :
        /\ sources[s].state = "begun"
        /\ sources'[s].state = "demod" /\ sources'[s].heard = sources[s].heard
        /\ sources'[s].stamp = MLATCounts
        /\ \A r \in Sources \ {s} : sources'[r] = sources[r]
  BY ReadSecondIs
<1>2. /\ Len(sent') = Len(sent) /\ UNCHANGED <<now, onAir, rawQueue, last_demod_>>
      /\ sent'[t].icao = sent[t].icao /\ sent'[t].top = sent[t].top
      /\ sent'[t].reports = sent[t].reports
      /\ ~sent'[t].misstamped => ~sent[t].misstamped
      /\ ~sent'[t].misstamped /\ t = Len(sent) => RightStamp
  BY ReadSecondIs
<1>3. sources[s].heard = Len(sent) /\ onAir # "no" /\ onAir \in {"no", "now", "before"} /\ now \in Int
  BY <1>1 DEF InTurn, ReceiverTypes
<1>4. Pending(t)' => Pending(t)
  BY <1>1, <1>2 DEF Pending
<1>5. ASSUME ~sent'[t].misstamped, NEW b \in Int, StampedAt(t, b)
      PROVE /\ \A r \in Sources : sources'[r].state \in {"demod", "done"} /\ sources'[r].heard = t
                                     => sources'[r].stamp \in {b, b + 1}
            /\ t = Len(sent') => (onAir' = "now" => b = now') /\ (onAir' = "before" => b = now' - 1)
  <2>1. ASSUME t = Len(sent) PROVE MLATCounts \in {b, b + 1}
    <3>1. MLATCounts \in IF onAir = "now" THEN {now} ELSE {now - 1, now}
      BY <1>2, <1>5, <2>1 DEF RightStamp
    <3>2. (onAir = "now" => b = now) /\ (onAir = "before" => b = now - 1)
      BY <1>5, <2>1 DEF StampedAt
    <3> DEFINE m == MLATCounts
    <3> HIDE DEF m
    <3>3. m \in IF onAir = "now" THEN {now} ELSE {now - 1, now}
      BY <3>1 DEF m
    <3>4. m \in {b, b + 1}
      BY <3>2, <3>3, <1>3, <1>5, SMT
    <3> QED BY <3>4 DEF m
  <2>2. ASSUME NEW r \in Sources, sources'[r].state \in {"demod", "done"}, sources'[r].heard = t
        PROVE sources'[r].stamp \in {b, b + 1}
    <3>1. CASE r = s
      BY <3>1, <2>1, <2>2, <1>1, <1>3
    <3>2. CASE r # s
      BY <3>2, <2>2, <1>1, <1>5 DEF StampedAt
    <3> QED BY <3>1, <3>2
  <2>3. t = Len(sent') => (onAir' = "now" => b = now') /\ (onAir' = "before" => b = now' - 1)
    BY <1>2, <1>5 DEF StampedAt
  <2> QED BY <2>2, <2>3
<1> QED BY <1>2, <1>4, <1>5, FollowedStays

\* Where a packet in the queue was: there, or in a state machine that is done
\* and has just been queued, behind those that were there.
LEMMA CompletedQueue ==
  ASSUME ReceiverTypes, NEW queued, Completed(queued), NEW t, NEW i \in DOMAIN rawQueue', (rawQueue'[i]).of = t
  PROVE \/ i \in DOMAIN rawQueue /\ rawQueue'[i] = rawQueue[i] /\ i <= Len(rawQueue)
        \/ /\ i > Len(rawQueue) /\ i - Len(rawQueue) \in Copies(t, queued)
           /\ rawQueue'[i] = queued[i - Len(rawQueue)]
           /\ \E s \in Sources : sources[s].state = "done" /\ sources[s].heard = t
                                 /\ sources[s].stamp = (rawQueue'[i]).stamp
<1>1. CASE i \in DOMAIN rawQueue /\ rawQueue'[i] = rawQueue[i]
  <2> DEFINE q == Len(rawQueue)
  <2>1. i \in 1 .. q /\ q \in Nat
    BY <1>1, SentIs
  <2> HIDE DEF q
  <2>2. i <= q
    BY <2>1, SMT
  <2> QED BY <1>1, <2>2 DEF q
<1>2. CASE i > Len(rawQueue) /\ i - Len(rawQueue) \in DOMAIN queued
           /\ rawQueue'[i] = queued[i - Len(rawQueue)]
  <2> DEFINE j == i - Len(rawQueue)
  <2>1. j \in DOMAIN queued /\ rawQueue'[i] = queued[j]
    BY <1>2
  <2> HIDE DEF j
  <2>2. Heard(queued[j])
    BY <2>1 DEF Completed
  <2>3. \E s \in Sources : sources[s].state = "done" /\ sources[s].heard = t
                            /\ sources[s].stamp = (rawQueue'[i]).stamp
    BY <2>1, <2>2 DEF Heard
  <2>4. j \in Copies(t, queued)
    BY <2>1 DEF Copies
  <2> QED BY <1>2, <2>3, <2>4 DEF j
<1> QED BY <1>1, <1>2, CompletedIs

LEMMA CompletedFollowed ==
  ASSUME ReceiverTypes, NEW t \in DOMAIN sent, Followed(t), NEW queued, Completed(queued)
  PROVE Followed(t)'
<1> SUFFICES ASSUME ~sent'[t].misstamped PROVE sent'[t].reports <= 1 /\ \E b \in Int : StampedAt(t, b)'
  BY DEF Followed
<1>1. /\ Len(sent') = Len(sent) /\ sent'[t] = Noted(t, queued)
      /\ \A s \in Sources : sources[s].state = "done" => sources'[s].state = "idle"
      /\ \A s \in Sources : sources[s].state # "done" => sources'[s] = sources[s]
      /\ \A i \in DOMAIN rawQueue : i \in DOMAIN rawQueue' /\ rawQueue'[i] = rawQueue[i]
  BY CompletedIs
<1>2. UNCHANGED <<now, onAir, last_demod_>> /\ queued \in Seq(RawPacket)
  BY DEF Completed
<1>3. /\ sent'[t].icao = sent[t].icao /\ sent'[t].reports = sent[t].reports
      /\ sent[t].top <= sent'[t].top
      /\ ~sent[t].misstamped
      /\ \A i \in Copies(t, queued) : queued[i].stamp <= sent'[t].top
      /\ \A i \in Copies(t, queued) : ~Misordered(t, queued, i)
  BY <1>1, <1>2, NotedIs
<1>4. PICK b \in Int : StampedAt(t, b)
  BY <1>3 DEF Followed
<1>5. /\ sent[t].top \in Int /\ sent'[t].top \in Int
      /\ \A i \in DOMAIN rawQueue : rawQueue[i].stamp \in Int
      /\ \A i \in DOMAIN queued : queued[i].stamp \in Int
      /\ \A s \in Sources : last_demod_[s].ms \in Int
      /\ \A i \in DOMAIN rawQueue' : i \in Nat
      /\ Len(rawQueue) \in Nat
  <2>1. Noted(t, queued) \in Transmission /\ sent[t] \in Transmission
    BY <1>2, NotedIs, SentIs
  <2>2. \A i \in DOMAIN rawQueue : rawQueue[i] \in RawPacket
    BY SentIs
  <2>3. \A i \in DOMAIN queued : queued[i] \in RawPacket
    BY <1>2, ElementOfSeq, LenProperties
  <2>4. \A p \in RawPacket : p.stamp \in Int
    BY DEF RawPacket
  <2>5. \A m \in Transmission : m.top \in Int
    BY DEF Transmission
  <2>6. \A s \in Sources : last_demod_[s].ms \in Int
    BY DEF ReceiverTypes, LoopTypes
  <2>7. \A i \in DOMAIN rawQueue' : i \in Nat
    BY CompletedIs, LenProperties
  <2> QED BY <2>1, <2>2, <2>3, <2>4, <2>5, <2>6, <2>7, <1>1, SentIs
<1> DEFINE new == rawQueue'
           top == sent[t].top
           last == sent'[t].top
           q == Len(rawQueue)
\* A copy was in the queue, or it is stamped after those that were queued.
<1>6. ASSUME NEW i \in DOMAIN new, new[i].of = t
      PROVE \/ i \in DOMAIN rawQueue /\ new[i] = rawQueue[i] /\ i <= q
               /\ rawQueue[i].of = t /\ new[i].stamp <= top /\ new[i].stamp \in {b, b + 1}
            \/ /\ i > q /\ i - q \in Copies(t, queued) /\ new[i] = queued[i - q]
               /\ top <= new[i].stamp /\ new[i].stamp <= last /\ new[i].stamp \in {b, b + 1}
  <2>1. CASE i \in DOMAIN rawQueue /\ new[i] = rawQueue[i] /\ i <= q
    BY <2>1, <1>4, <1>6 DEF StampedAt
  <2>2. CASE /\ i > q /\ i - q \in Copies(t, queued) /\ new[i] = queued[i - q]
             /\ \E s \in Sources : sources[s].state = "done" /\ sources[s].heard = t
                                   /\ sources[s].stamp = new[i].stamp
    <3>1. PICK s \in Sources : sources[s].state = "done" /\ sources[s].heard = t
                               /\ sources[s].stamp = new[i].stamp
      BY <2>2
    <3>2. new[i].stamp \in {b, b + 1}
      BY <3>1, <1>4 DEF StampedAt
    <3> DEFINE j == i - q
    <3> HIDE DEF j, new, q, top, last
    <3>3. j \in Copies(t, queued) /\ new[i] = queued[j]
      BY <2>2 DEF j
    <3>4. ~(queued[j].stamp < top) /\ queued[j].stamp <= last
      BY <3>3, <1>3 DEF Misordered, top, last
    <3>5. queued[j].stamp \in Int /\ top \in Int
      BY <3>3, <1>5 DEF Copies, top
    <3>6. top <= queued[j].stamp
      BY <3>4, <3>5, SMT
    <3> QED BY <2>2, <3>2, <3>3, <3>4, <3>6
  <2> QED BY <2>1, <2>2, <1>6, CompletedQueue
<1>7. \A i \in DOMAIN new : i \in Nat
  BY <1>5
<1>8. top \in Int /\ last \in Int /\ top <= last /\ q \in Nat
  BY <1>3, <1>5
<1>9. \A i \in DOMAIN new : new[i].of = t => new[i].stamp \in Int
  BY <1>4, <1>6
<1> HIDE DEF new, top, last, q
<1>10. ASSUME NEW i \in DOMAIN new, new[i].of = t
       PROVE new[i].stamp \in {b, b + 1} /\ new[i].stamp <= last
  <2> DEFINE m == new[i].stamp
  <2>1. m \in {b, b + 1} /\ (m <= top \/ m <= last) /\ m \in Int
    BY <1>6, <1>9, <1>10
  <2> HIDE DEF m
  <2>2. m <= last
    BY <2>1, <1>8, SMT
  <2> QED BY <2>1, <2>2 DEF m
<1>11. ASSUME NEW i \in DOMAIN new, NEW j \in DOMAIN new, new[i].of = t, new[j].of = t, i < j
       PROVE new[i].stamp <= new[j].stamp
  <2>1. CASE j <= q
    <3>1. i <= q /\ ~(i > q) /\ ~(j > q)
      BY <2>1, <1>7, <1>8, <1>11, SMT
    <3>2. /\ i \in DOMAIN rawQueue /\ new[i] = rawQueue[i] /\ rawQueue[i].of = t
          /\ j \in DOMAIN rawQueue /\ new[j] = rawQueue[j] /\ rawQueue[j].of = t
      BY <3>1, <1>6, <1>11
    <3> QED BY <3>2, <1>4, <1>11 DEF StampedAt
  <2>2. CASE ~(j <= q) /\ i <= q
    <3>1. ~(i > q)
      BY <2>2, <1>7, <1>8, SMT
    <3> DEFINE m == new[i].stamp
               k == new[j].stamp
    <3>2. m <= top /\ top <= k /\ m \in Int /\ k \in Int
      BY <3>1, <2>2, <1>6, <1>9, <1>11
    <3> HIDE DEF m, k
    <3>3. m <= k
      BY <3>2, <1>8, SMT
    <3> QED BY <3>3 DEF m, k
  <2>3. CASE ~(j <= q) /\ ~(i <= q)
    <3> DEFINE x == i - q
               y == j - q
    <3>1. x \in Copies(t, queued) /\ y \in Copies(t, queued) /\ new[i] = queued[x] /\ new[j] = queued[y]
      BY <2>3, <1>6, <1>11
    <3>2. x < y
      BY <1>7, <1>8, <1>11, SMT
    <3> HIDE DEF x, y
    <3>3. ~Misordered(t, queued, y)
      BY <3>1, <1>3
    <3>4. ~(queued[y].stamp < queued[x].stamp)
      BY <3>1, <3>2, <3>3 DEF Misordered
    <3>5. queued[x].stamp \in Int /\ queued[y].stamp \in Int
      BY <3>1, <1>5 DEF Copies
    <3>6. queued[x].stamp <= queued[y].stamp
      BY <3>4, <3>5, SMT
    <3> QED BY <3>1, <3>6
  <2> QED BY <2>1, <2>2, <2>3
<1>12. \A s \in Sources : sources'[s].state \in {"demod", "done"} /\ sources'[s].heard = t
                             => sources'[s].stamp \in {b, b + 1}
  BY <1>1, <1>4 DEF StampedAt
<1>13. t = Len(sent') => (onAir' = "now" => b = now') /\ (onAir' = "before" => b = now' - 1)
  BY <1>1, <1>2, <1>4 DEF StampedAt
<1>14. ASSUME sent'[t].reports > 0, Pending(t)' PROVE Remembered(t, b)'
  <2>1. Pending(t)
    <3>1. CASE \E i \in DOMAIN new : new[i].of = t
      <4>1. PICK i \in DOMAIN new : new[i].of = t
        BY <3>1
      <4>2. \/ i \in DOMAIN rawQueue /\ rawQueue[i].of = t
            \/ \E s \in Sources : sources[s].state = "done" /\ sources[s].heard = t
        BY <4>1, CompletedQueue DEF new
      <4> QED BY <4>2 DEF Pending
    <3>2. CASE \E s \in Sources : sources'[s].state # "idle" /\ sources'[s].heard = t
      BY <3>2, <1>1 DEF Pending
    <3>3. CASE onAir' # "no" /\ t = Len(sent')
      BY <3>3, <1>1, <1>2 DEF Pending
    <3> QED BY <1>14, <3>1, <3>2, <3>3 DEF Pending, new
  <2>2. Remembered(t, b)
    BY <2>1, <1>3, <1>4, <1>14 DEF StampedAt
  <2>3. PICK s \in Sources :
           /\ last_demod_[s].icao = sent[t].icao
           /\ last_demod_[s].ms \in {b, b + 1} /\ last_demod_[s].ms <= sent[t].top
           /\ \A i \in DOMAIN rawQueue : rawQueue[i].of = t => last_demod_[s].ms <= rawQueue[i].stamp
    BY <2>2 DEF Remembered
  <2> DEFINE m == last_demod_[s].ms
  <2>4. m \in Int /\ m <= top
    BY <2>3, <1>5 DEF top
  <2>5. ASSUME NEW i \in DOMAIN new, new[i].of = t PROVE m <= new[i].stamp
    <3>1. CASE i \in DOMAIN rawQueue /\ new[i] = rawQueue[i]
      BY <3>1, <2>3, <2>5
    <3>2. CASE top <= new[i].stamp
      <4> DEFINE k == new[i].stamp
      <4>1. top <= k /\ k \in Int
        BY <3>2, <1>9, <2>5
      <4> HIDE DEF k, m
      <4>2. m <= k
        BY <4>1, <2>4, <1>8, SMT
      <4> QED BY <4>2 DEF k
    <3> QED BY <3>1, <3>2, <1>6, <2>5
  <2>6. m <= last
    <3> HIDE DEF m
    <3> QED BY <2>4, <1>8, SMT
  <2> QED BY <2>3, <2>5, <2>6, <1>2, <1>3 DEF Remembered, new, last
<1>15. StampedAt(t, b)'
  BY <1>10, <1>11, <1>12, <1>13, <1>14 DEF StampedAt, new, last
<1> QED BY <1>3, <1>15 DEF Followed

\* A stamp no more than one ms after the one that is remembered is recent.
LEMMA RecentIs ==
  ASSUME DuplicateInterval >= 2, NEW b \in Int, NEW ms \in 0 .. Latest, NEW last \in 0 .. Latest,
         ms \in {b, b + 1}, last \in {b, b + 1}, last <= ms
  PROVE Recent(ms, last)
<1>1. /\ TimestampModulus \in Nat /\ DuplicateInterval \in Nat /\ Latest \in Nat
      /\ TimestampModulus > Latest + DuplicateInterval
  BY ReceiverAssumption, SMT DEF Latest
<1> DEFINE d == ms - last
<1>2. d \in 0 .. 1
  BY <1>1, SMT
<1> HIDE DEF d
<1>3. d \in 0 .. TimestampModulus - 1
  BY <1>1, <1>2, SMT
<1>4. d % TimestampModulus = d
  BY <1>1, <1>3, SMT
<1>5. d % TimestampModulus < DuplicateInterval
  BY <1>1, <1>2, <1>4, SMT
<1> QED BY <1>5 DEF Recent, d

LEMMA DecodePacketFollowed ==
  ASSUME DuplicateInterval >= 2, ReceiverTypes, InTurn, NEW t \in DOMAIN sent, Followed(t), DecodePacket
  PROVE Followed(t)'
<1>1. PICK p \in RawPacket :
          /\ 1 \in DOMAIN rawQueue /\ p = rawQueue[1] /\ p.of \in DOMAIN sent
          /\ DOMAIN rawQueue' \subseteq Nat \ {0}
          /\ \A i \in DOMAIN rawQueue' :
                i \in Nat /\ i + 1 \in DOMAIN rawQueue /\ rawQueue'[i] = rawQueue[i + 1]
          /\ UNCHANGED <<now, onAir, sources, stamping>>
          /\ Len(sent') = Len(sent)
          /\ (UNCHANGED <<sent, last_demod_>> \/ Passes(p))
  BY DecodePacketIs, LenProperties
<1>2. /\ sent'[t].icao = sent[t].icao /\ sent'[t].top = sent[t].top
      /\ sent'[t].misstamped = sent[t].misstamped
  BY <1>1 DEF Passes
<1> SUFFICES ASSUME ~sent'[t].misstamped PROVE sent'[t].reports <= 1 /\ \E b \in Int : StampedAt(t, b)'
  BY DEF Followed
<1>3. PICK b \in Int : StampedAt(t, b)
  BY <1>2 DEF Followed
<1>4. sent[t].reports \in Nat /\ sent[t].reports <= 1
  BY <1>2, SentIs DEF Followed, Transmission
<1>5. Pending(t)' => Pending(t)
  BY <1>1 DEF Pending
\* Whatever was remembered of t still is, unless this copy is.
<1>6. ASSUME UNCHANGED last_demod_, Remembered(t, b) PROVE Remembered(t, b)'
  BY <1>1, <1>2, <1>6 DEF Remembered
<1>7. /\ \A s \in Sources : sources'[s].state \in {"demod", "done"} /\ sources'[s].heard = t
                               => sources'[s].stamp \in {b, b + 1}
      /\ \A i \in DOMAIN rawQueue' : (rawQueue'[i]).of = t =>
            (rawQueue'[i]).stamp \in {b, b + 1} /\ (rawQueue'[i]).stamp <= sent'[t].top
      /\ t = Len(sent') => (onAir' = "now" => b = now') /\ (onAir' = "before" => b = now' - 1)
  BY <1>1, <1>2, <1>3 DEF StampedAt
<1>8. ASSUME NEW i \in DOMAIN rawQueue', NEW j \in DOMAIN rawQueue',
             (rawQueue'[i]).of = t, (rawQueue'[j]).of = t, i < j
      PROVE (rawQueue'[i]).stamp <= (rawQueue'[j]).stamp
  <2>1. i + 1 \in DOMAIN rawQueue /\ j + 1 \in DOMAIN rawQueue /\ i + 1 < j + 1
        /\ rawQueue'[i] = rawQueue[i + 1] /\ rawQueue'[j] = rawQueue[j + 1]
    BY <1>1, <1>8
  <2> QED BY <2>1, <1>3, <1>8 DEF StampedAt
\* The first copy in the queue is passed on only if none was.
<1>9. ASSUME Passes(p), p.of = t PROVE sent[t].reports = 0
  <2> SUFFICES ASSUME sent[t].reports > 0 PROVE FALSE
    BY <1>4
  <2>1. Pending(t)
    BY <1>1, <1>9 DEF Pending
  <2>2. PICK s \in Sources :
           /\ last_demod_[s].icao = sent[t].icao /\ last_demod_[s].ms \in {b, b + 1}
           /\ \A i \in DOMAIN rawQueue : rawQueue[i].of = t => last_demod_[s].ms <= rawQueue[i].stamp
    BY <2>1, <1>3 DEF StampedAt, Remembered
  <2>3. p.stamp \in {b, b + 1} /\ last_demod_[s].ms <= p.stamp /\ p.stamp \in 0 .. Latest
    BY <2>2, <1>1, <1>3, <1>9 DEF StampedAt, RawPacket
  <2>4. last_demod_[s].ms \in 0 .. Latest
    BY DEF ReceiverTypes, LoopTypes
  <2>5. Recent(p.stamp, last_demod_[s].ms)
    BY <2>2, <2>3, <2>4, RecentIs
  <2> QED BY <2>2, <2>5, <1>9 DEF Passes, AlreadySeen
<1>10. sent'[t].reports <= 1
  <2>1. CASE Passes(p) /\ p.of = t
    BY <2>1, <1>9 DEF Passes
  <2>2. CASE ~(Passes(p) /\ p.of = t)
    <3>1. sent'[t] = sent[t]
      BY <2>2, <1>1 DEF Passes
    <3> QED BY <3>1, <1>4
  <2> QED BY <2>1, <2>2
<1>11. ASSUME sent'[t].reports > 0, Pending(t)' PROVE Remembered(t, b)'
  <2>1. CASE UNCHANGED <<sent, last_demod_>>
    <3>1. Remembered(t, b)
      BY <2>1, <1>3, <1>5, <1>11 DEF StampedAt
    <3> QED BY <3>1, <2>1, <1>6
  <2>2. CASE Passes(p) /\ p.of = t
    <3> DEFINE m == p.stamp
               s == p.source
    <3>1. s \in Sources
      BY DEF RawPacket
    <3>2. (last_demod_'[s]).icao = sent'[t].icao /\ (last_demod_'[s]).ms = m
      BY <2>2, <1>2 DEF Passes
    <3>3. m \in {b, b + 1} /\ m <= sent'[t].top
      BY <2>2, <1>1, <1>2, <1>3 DEF StampedAt
    <3>4. ASSUME NEW i \in DOMAIN rawQueue', (rawQueue'[i]).of = t PROVE m <= (rawQueue'[i]).stamp
      <4>1. i + 1 \in DOMAIN rawQueue /\ 1 < i + 1 /\ rawQueue'[i] = rawQueue[i + 1]
        BY <1>1
      <4> QED BY <4>1, <3>4, <2>2, <1>1, <1>3 DEF StampedAt
    <3> HIDE DEF m, s
    <3> QED BY <3>1, <3>2, <3>3, <3>4 DEF Remembered
  \* Copies of t are no longer expected when one of another comes.
  <2>3. CASE Passes(p) /\ p.of # t
    <3>1. sent[t].reports > 0
      BY <2>3, <1>11 DEF Passes
    <3>2. /\ t <= p.of
          /\ \A s \in Sources : sources[s].state # "idle" => t <= sources[s].heard
      BY <3>1, <1>1 DEF InTurn
    <3>3. p.of \in Nat /\ p.of <= Len(sent) /\ t \in Nat /\ Len(sent) \in Nat
      BY <1>1, NumbersOfPackets DEF RawPacket
    <3>4. t < p.of
      BY <3>2, <3>3, <2>3
    <3>5. ASSUME NEW i \in DOMAIN rawQueue' PROVE (rawQueue'[i]).of # t
      <4>1. i + 1 \in DOMAIN rawQueue /\ 1 < i + 1 /\ rawQueue'[i] = rawQueue[i + 1]
        BY <1>1
      <4>2. p.of <= (rawQueue'[i]).of /\ (rawQueue'[i]).of \in Nat
        BY <4>1, <1>1, NumbersOfPackets DEF InTurn
      <4> QED BY <4>2, <3>3, <3>4, SMT
    <3>6. ASSUME NEW s \in Sources, sources[s].state # "idle" PROVE sources[s].heard # t
      <4>1. p.of <= sources[s].heard /\ sources[s].heard \in Nat
        BY <3>6, <1>1, NumbersOfPackets DEF InTurn
      <4> QED BY <4>1, <3>3, <3>4, SMT
    <3>7. t # Len(sent')
      BY <1>1, <3>3, <3>4
    <3> QED BY <3>5, <3>6, <3>7, <1>1, <1>11 DEF Pending
  <2> QED BY <2>1, <2>2, <2>3, <1>1
<1>12. StampedAt(t, b)'
  BY <1>7, <1>8, <1>11 DEF StampedAt
<1> QED BY <1>10, <1>12

-----------------------------------------------------------------------------

LEMMA FollowedStep ==
  ASSUME DuplicateInterval >= 2
  PROVE ReceiverInv /\ [ReceiverNext]_receiverVars => (\A t \in DOMAIN sent : Followed(t))'
<1> SUFFICES ASSUME ReceiverInv, [ReceiverNext]_receiverVars
             PROVE \A t \in DOMAIN sent' : Followed(t)'
  OBVIOUS
<1> USE DEF ReceiverInv
<1>1. CASE Tick
  <2>1. UNCHANGED sent
    BY <1>1 DEF Tick
  <2> QED BY <2>1, <1>1, TickFollowed
<1>2. ASSUME NEW a \in Senders, Transmit(a) PROVE \A t \in DOMAIN sent' : Followed(t)'
  BY <1>2, TransmitFollowed
<1>3. CASE EndTransmission
  <2>1. UNCHANGED sent
    BY <1>3 DEF EndTransmission
  <2> QED BY <2>1, <1>3, EndTransmissionFollowed
<1>4. ASSUME NEW s \in Sources, DetectPreamble(s) PROVE \A t \in DOMAIN sent' : Followed(t)'
  <2>1. UNCHANGED sent
    BY <1>4, DetectPreambleIs
  <2> QED BY <2>1, <1>4, DetectPreambleFollowed
<1>5. ASSUME NEW s \in Sources, FinishMessage(s) PROVE \A t \in DOMAIN sent' : Followed(t)'
  <2>1. UNCHANGED sent
    BY <1>5, FinishMessageIs
  <2> QED BY <2>1, <1>5, FinishMessageFollowed
<1>6. CASE ReadSecond
  <2>1. DOMAIN sent' = DOMAIN sent
    BY <1>6, ReadSecondIs
  <2> QED BY <2>1, <1>6, ReadSecondFollowed
<1>7. CASE OnDemodComplete
  <2>1. PICK queued : Completed(queued)
    BY <1>7, OnDemodCompleteIs
  <2>2. DOMAIN sent' = DOMAIN sent
    BY <2>1, CompletedIs
  <2> QED BY <2>1, <2>2, CompletedFollowed
<1>8. CASE DecodePacket
  <2>1. DOMAIN sent' = DOMAIN sent
    BY <1>8, DecodePacketIs
  <2> QED BY <2>1, <1>8, DecodePacketFollowed
<1>9. CASE (\E s \in Sources : ReadFirst(s)) \/ UpdateDecoderLoop \/ IngestDecoded \/ UNCHANGED receiverVars
  <2>1. UNCHANGED <<now, onAir, sent, sources, rawQueue, last_demod_>>
    BY <1>9 DEF ReadFirst, UpdateDecoderLoop, IngestDecoded, receiverVars
  <2>2. ASSUME NEW t \in DOMAIN sent PROVE Followed(t)'
    <3>1. Followed(t) /\ (Pending(t)' => Pending(t))
      BY <2>1 DEF Pending
    <3>2. \A b \in Int : StampedAt(t, b) =>
             /\ \A s \in Sources : sources'[s].state \in {"demod", "done"} /\ sources'[s].heard = t
                                      => sources'[s].stamp \in {b, b + 1}
             /\ t = Len(sent') => (onAir' = "now" => b = now') /\ (onAir' = "before" => b = now' - 1)
      BY <2>1 DEF StampedAt
    <3> QED BY <3>1, <3>2, <2>1, FollowedStays
  <2> QED BY <2>1, <2>2
<1> QED BY <1>1, <1>2, <1>3, <1>4, <1>5, <1>6, <1>7, <1>8, <1>9 DEF ReceiverNext

LEMMA ReceiverInvInit == ReceiverInit => ReceiverInv
<1> SUFFICES ASSUME ReceiverInit PROVE ReceiverInv
  OBVIOUS
<1>1. DOMAIN sent = {} /\ DOMAIN rawQueue = {} /\ \A s \in Sources : sources[s].state = "idle"
  BY DEF ReceiverInit, Idle
<1> QED BY <1>1, ReceiverTypesInit DEF ReceiverInv, InTurn

LEMMA ReceiverTypesAreOK == ReceiverTypes => ReceiverTypeOK
<1> SUFFICES ASSUME ReceiverTypes PROVE ReceiverTypeOK
  OBVIOUS
<1>1. \A s \in Sources :
          /\ sources[s].state \in {"idle", "begun", "demod", "done"}
          /\ sources[s].heard \in 0 .. Len(sent) /\ sources[s].stamp \in 0 .. MaxTime + Period
  BY SourceIs DEF States, Latest
<1> QED BY <1>1 DEF ReceiverTypes, LoopTypes, ReceiverTypeOK

\* However many state machines, aircraft and transmissions, and whatever the
\* lengths of the queues: the stamps are no further from the time than one
\* period, the queues within their length, and the decoder loop never takes
\* more packets than there are.
THEOREM ReceiverTypesHold == ReceiverSpec => []ReceiverTypeOK
<1>1. ReceiverInit => ReceiverTypes
  BY ReceiverTypesInit
<1>2. ReceiverTypes /\ [ReceiverNext]_receiverVars => ReceiverTypes'
  BY ReceiverTypesStep
<1>3. ReceiverTypes => ReceiverTypeOK
  BY ReceiverTypesAreOK
<1> QED BY <1>1, <1>2, <1>3, PTL DEF ReceiverSpec

\* An interval of two ms or more, ten in the code, is enough: copies of one
\* transmission are stamped in the ms it began or in the next, so whatever state
\* machines hear it and whatever else is queued, core 0 is given one of them.
THEOREM OneReport ==
  ASSUME DuplicateInterval >= 2
  PROVE ReceiverSpec => []TransmissionOnce
<1>1. ReceiverInit => ReceiverInv
  BY ReceiverInvInit
<1>2. ReceiverInv /\ [ReceiverNext]_receiverVars => ReceiverInv'
  BY ReceiverTypesStep, InTurnStep, FollowedStep DEF ReceiverInv
<1>3. ReceiverInv => TransmissionOnce
  BY DEF ReceiverInv, Followed, TransmissionOnce
<1> QED BY <1>1, <1>2, <1>3, PTL DEF ReceiverSpec

-----------------------------------------------------------------------------
(* All of them in one behaviour.                                           *)

LEMMA PartsOfPath == PathSpec => Spec /\ ReceiverSpec /\ UATSpec /\ FeedSpec
<1>1. PathInit => Init /\ ReceiverInit /\ UATInit /\ FeedInit
  BY DEF PathInit
<1>2. [PathNext]_pathVars => /\ [Next]_vars /\ [ReceiverNext]_receiverVars
                             /\ [UATNext]_uatVars /\ [FeedNext]_feedVars
  BY DEF PathNext, pathVars
<1> QED
  BY <1>1, <1>2, PTL DEF PathSpec, Spec, ReceiverSpec, UATSpec, FeedSpec

\* The fields of the queue keep their types and every queue of both receivers
\* and of the feeds its length (data_structures.hh, mode_s_packet_decoder.cc,
\* uat_packet_decoder.cc, comms.cc of the ESP32) where they are checked together.
THEOREM PathTypes == PathSpec => []PathTypeOK
<1>1. TypeOK /\ ReceiverTypeOK /\ UATTypeOK /\ FeedTypeOK => PathTypeOK
  BY DEF PathTypeOK
<1> QED
  BY <1>1, PartsOfPath, TypeCorrect, ReceiverTypesHold, UATTypesHold, FeedTypesHold, PTL
=============================================================================
