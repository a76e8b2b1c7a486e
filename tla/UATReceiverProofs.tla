-------------------------- MODULE UATReceiverProofs --------------------------
(***************************************************************************)
(* UAT messages from the radio to the RP2040, for any lengths of the       *)
(* queues, sizes of the packets and number of attempts, and however many   *)
(* answers are lost.                                                       *)
(*                                                                         *)
(* A message passes five stations: the raw queue, the decoder, the decoded *)
(* queue, an answer on the bus and the queue of the RP2040.  What holds of *)
(* every state is said of each of the five and of each two of them: it     *)
(* rises, and all of it is below the one after it.  Every step moves a     *)
(* segment of one station behind another, or drops one, and nothing is     *)
(* left out of a segment.                                                  *)
(*                                                                         *)
(* That a message is queued as what it is rests on the radio: a length is  *)
(* known only once it was read from the message being received, because a  *)
(* sync word clears the one before it and an event is served before a      *)
(* length counts.                                                          *)
(***************************************************************************)
EXTENDS UATReceiver, SequenceTheorems, TLAPS

Message == [kind : MessageKinds, number : Nat, clean : BOOLEAN]

RadioTypes ==
    /\ heard \in [MessageKinds -> Nat] /\ \A k \in MessageKinds : heard[k] <= MaxMessages[k]
    /\ rfCore \in {"off", "listening", "synced", "written"}
    /\ entry \in Message \cup {NoMessage}
    /\ events \subseteq {"MdmSoft", "NDataWritten", "RxOk", "LastCmdDone"}
    /\ current_packet_len_bytes \in MessageKinds \cup {"unset"} /\ rxLen \in BOOLEAN

QueueTypes ==
    /\ raw \in [MessageKinds -> Seq(Message)] /\ decoded \in [MessageKinds -> Seq(Message)]
    /\ host \in [MessageKinds -> Seq(Message)]
    /\ \A k \in MessageKinds :
          Len(raw[k]) <= RawLen[k] /\ Len(decoded[k]) <= DecodedLen[k] /\ Len(host[k]) <= HostLen[k]
    /\ loopAt \in MessageKinds \cup {"radio"} /\ decoding \in Message \cup {NoMessage}
    /\ decoding # NoMessage => loopAt \in MessageKinds
    /\ ingested \in [MessageKinds -> Nat]

ReadTypes ==
    /\ reading \in {"no", "yes", "failed"} /\ pendingLen \in Nat /\ attemptsLeft \in 0 .. ReadAttempts
    /\ reading = "yes" => attemptsLeft > 0
    /\ response \in [MessageKinds -> Seq(Message)] \cup {NoResponse}
    /\ response # NoResponse => reading = "yes"

UATTypes == RadioTypes /\ QueueTypes /\ ReadTypes

\* The message in the entry is complete, or will be, and has not been queued.
Fresh == rfCore \in {"synced", "written"} \/ "RxOk" \in events

\* A length that reached the RF core was read from the message it receives.
Reception ==
    /\ Fresh => entry \in Message /\ entry.number = heard[entry.kind]
    /\ rxLen =>
          /\ rfCore # "synced" /\ {"MdmSoft", "NDataWritten"} \cap events = {}
          /\ current_packet_len_bytes \in LengthsOf(entry)
    /\ "RxOk" \in events => rxLen /\ rfCore = "off"

\* The highest number a message of kind k has that has been queued.
Queued(k) == IF Fresh /\ entry.kind = k THEN heard[k] - 1 ELSE heard[k]

\* Stations on the way that hold no queue of their own.
Answered(k) == IF response = NoResponse THEN <<>> ELSE response[k]
Deciding(k) == IF loopAt = k /\ decoding # NoMessage THEN <<decoding>> ELSE <<>>

\* What is readable in s is of kind k and numbered above from, up to to; it
\* rises; and all of it is below what is readable in t.
Within(s, k, from, to) ==
    \A i \in DOMAIN s : s[i].clean => s[i].kind = k /\ from < s[i].number /\ s[i].number <= to
Rising(s) ==
    \A i, j \in DOMAIN s : s[i].clean /\ s[j].clean /\ i < j => s[i].number < s[j].number
Below(s, t) ==
    \A i \in DOMAIN s, j \in DOMAIN t : s[i].clean /\ t[j].clean => s[i].number < t[j].number
Clean(s) == \A i \in DOMAIN s : s[i].clean

Chain(h, a, d, c, r) ==
    /\ Rising(h) /\ Rising(a) /\ Rising(d) /\ Rising(c) /\ Rising(r)
    /\ Below(h, a) /\ Below(h, d) /\ Below(h, c) /\ Below(h, r)
    /\ Below(a, d) /\ Below(a, c) /\ Below(a, r)
    /\ Below(d, c) /\ Below(d, r)
    /\ Below(c, r)

Inside(h, a, d, c, r, k, from, to) ==
    /\ Within(h, k, from, to) /\ Within(a, k, from, to) /\ Within(d, k, from, to)
    /\ Within(c, k, from, to) /\ Within(r, k, from, to)
    /\ Clean(h) /\ Clean(a) /\ Clean(d)

Line(k) ==
    /\ ingested[k] <= Queued(k)
    /\ Chain(host[k], Answered(k), decoded[k], Deciding(k), raw[k])
    /\ Inside(host[k], Answered(k), decoded[k], Deciding(k), raw[k], k, ingested[k], Queued(k))

UATInv == UATTypes /\ Reception /\ \A k \in MessageKinds : Line(k)

-----------------------------------------------------------------------------
(* Sequences of messages.                                                  *)

\* A part of s in which nothing is left out: s itself, its tail, a prefix or
\* what is beyond, or nothing.
Segment(t, s) ==
    \E off \in Int : \A i \in DOMAIN t : off + i \in DOMAIN s /\ t[i] = s[off + i]

LEMMA SegmentKeeps ==
  ASSUME NEW s \in Seq(Message), NEW t \in Seq(Message), Segment(t, s)
  PROVE  /\ Rising(s) => Rising(t)
         /\ \A x \in Seq(Message) : (Below(s, x) => Below(t, x)) /\ (Below(x, s) => Below(x, t))
         /\ \A k, from, to : Within(s, k, from, to) => Within(t, k, from, to)
         /\ Clean(s) => Clean(t)
  <1>1. PICK off \in Int : \A i \in DOMAIN t : off + i \in DOMAIN s /\ t[i] = s[off + i]
    BY DEF Segment
  <1>2. \A i, j \in DOMAIN t : i < j => off + i < off + j
    OBVIOUS
  <1>3. Rising(s) => Rising(t)
    BY <1>1, <1>2 DEF Rising
  <1>4. \A x \in Seq(Message) : (Below(s, x) => Below(t, x)) /\ (Below(x, s) => Below(x, t))
    BY <1>1 DEF Below
  <1>5. \A k, from, to : Within(s, k, from, to) => Within(t, k, from, to)
    BY <1>1 DEF Within
  <1>6. Clean(s) => Clean(t)
    BY <1>1 DEF Clean
  <1>. QED
    BY <1>3, <1>4, <1>5, <1>6

LEMMA Segments ==
  ASSUME NEW s \in Seq(Message)
  PROVE  /\ Segment(s, s) /\ Segment(<<>>, s)
         /\ s # <<>> => /\ Tail(s) \in Seq(Message) /\ Segment(Tail(s), s)
                        /\ Head(s) \in Message /\ <<Head(s)>> \in Seq(Message)
                        /\ Segment(<<Head(s)>>, s)
  <1>1. Segment(s, s)
    <2>1. \A i \in DOMAIN s : 0 + i \in DOMAIN s /\ s[i] = s[0 + i]
      BY LenProperties
    <2>2. 0 \in Int
      OBVIOUS
    <2>. QED
      BY <2>1, <2>2 DEF Segment
  <1>2. Segment(<<>>, s)
    <2>1. DOMAIN <<>> = {}
      BY EmptySeq, LenProperties
    <2>. QED
      BY <2>1 DEF Segment
  <1>3. ASSUME s # <<>>
        PROVE  /\ Tail(s) \in Seq(Message) /\ Segment(Tail(s), s)
               /\ Head(s) \in Message /\ <<Head(s)>> \in Seq(Message)
               /\ Segment(<<Head(s)>>, s)
    <2>1. /\ Head(s) \in Message /\ Tail(s) \in Seq(Message) /\ Len(Tail(s)) = Len(s) - 1
          /\ \A i \in 1 .. Len(Tail(s)) : Tail(s)[i] = s[i + 1]
      BY <1>3, HeadTailProperties
    <2>2. Len(s) \in Nat \ {0} /\ DOMAIN s = 1 .. Len(s) /\ DOMAIN Tail(s) = 1 .. Len(Tail(s))
      BY <1>3, <2>1, EmptySeq, LenProperties
    <2>3. \A i \in DOMAIN Tail(s) : 1 + i \in DOMAIN s /\ Tail(s)[i] = s[1 + i]
      BY <2>1, <2>2
    <2>4. <<Head(s)>> \in Seq(Message) /\ DOMAIN <<Head(s)>> = {1} /\ <<Head(s)>>[1] = s[1]
      BY <2>1
    <2>5. \A i \in DOMAIN <<Head(s)>> : 0 + i \in DOMAIN s /\ <<Head(s)>>[i] = s[0 + i]
      BY <2>2, <2>4
    <2>. QED
      BY <2>1, <2>3, <2>4, <2>5 DEF Segment
  <1>. QED
    BY <1>1, <1>2, <1>3

LEMMA PrefixIs ==
  ASSUME NEW s \in Seq(Message), NEW n \in 0 .. Len(s)
  PROVE  /\ Prefix(s, n) \in Seq(Message) /\ Len(Prefix(s, n)) = n /\ Segment(Prefix(s, n), s)
         /\ Beyond(s, n) \in Seq(Message) /\ Len(Beyond(s, n)) = Len(s) - n /\ Segment(Beyond(s, n), s)
         /\ Rising(s) => Below(Prefix(s, n), Beyond(s, n))
  <1>1. Len(s) \in Nat /\ DOMAIN s = 1 .. Len(s) /\ \A i \in 1 .. Len(s) : s[i] \in Message
    BY LenProperties, ElementOfSeq
  <1>2. /\ Prefix(s, n) \in Seq(Message) /\ Len(Prefix(s, n)) = n
        /\ \A i \in 1 .. n : Prefix(s, n)[i] = s[i]
    <2>1. \A i \in 1 .. n : s[i] \in Message
      BY <1>1
    <2>2. 1 \in Int /\ n \in Int
      BY <1>1
    <2>3. /\ SubSeq(s, 1, n) \in Seq(Message)
          /\ Len(SubSeq(s, 1, n)) = IF 1 <= n THEN n - 1 + 1 ELSE 0
          /\ \A i \in 1 .. n - 1 + 1 : SubSeq(s, 1, n)[i] = s[1 + i - 1]
      BY <2>1, <2>2, SubSeqProperties
    <2>. QED
      BY <1>1, <2>3 DEF Prefix
  <1>3. /\ Beyond(s, n) \in Seq(Message) /\ Len(Beyond(s, n)) = Len(s) - n
        /\ \A i \in 1 .. Len(s) - n : Beyond(s, n)[i] = s[n + i]
    <2>1. \A i \in n + 1 .. Len(s) : s[i] \in Message
      BY <1>1
    <2>2. n + 1 \in Int /\ Len(s) \in Int
      BY <1>1
    <2>3. /\ SubSeq(s, n + 1, Len(s)) \in Seq(Message)
          /\ Len(SubSeq(s, n + 1, Len(s))) = IF n + 1 <= Len(s) THEN Len(s) - (n + 1) + 1 ELSE 0
          /\ \A i \in 1 .. Len(s) - (n + 1) + 1 : SubSeq(s, n + 1, Len(s))[i] = s[n + 1 + i - 1]
      BY <2>1, <2>2, SubSeqProperties
    <2>4. Len(SubSeq(s, n + 1, Len(s))) = Len(s) - n
      <3>1. CASE n + 1 <= Len(s)
        <4>1. Len(SubSeq(s, n + 1, Len(s))) = Len(s) - (n + 1) + 1
          BY <2>3, <3>1, Zenon
        <4>2. Len(s) - (n + 1) + 1 = Len(s) - n
          BY <1>1
        <4>. QED
          BY <4>1, <4>2, Zenon
      <3>2. CASE ~(n + 1 <= Len(s))
        <4>1. Len(SubSeq(s, n + 1, Len(s))) = 0
          BY <2>3, <3>2, Zenon
        <4>2. Len(s) - n = 0
          <5>1. \A l \in Nat : \A m \in 0 .. l : ~(m + 1 <= l) => l - m = 0
            OBVIOUS
          <5>. QED
            BY <1>1, <3>2, <5>1, Zenon
        <4>. QED
          BY <4>1, <4>2, Zenon
      <3>. QED
        BY <3>1, <3>2
    <2>5. \A i \in 1 .. Len(s) - n : i \in 1 .. Len(s) - (n + 1) + 1 /\ n + 1 + i - 1 = n + i
      BY <1>1
    <2>. QED
      BY <2>3, <2>4, <2>5 DEF Beyond
  <1>4. DOMAIN Prefix(s, n) = 1 .. n /\ DOMAIN Beyond(s, n) = 1 .. Len(s) - n
    BY <1>2, <1>3, LenProperties
  <1>5. \A i \in DOMAIN Prefix(s, n) : 0 + i \in DOMAIN s /\ Prefix(s, n)[i] = s[0 + i]
    BY <1>1, <1>2, <1>4
  <1>6. \A i \in DOMAIN Beyond(s, n) : n + i \in DOMAIN s /\ Beyond(s, n)[i] = s[n + i]
    BY <1>1, <1>3, <1>4
  <1>7. Rising(s) => Below(Prefix(s, n), Beyond(s, n))
    <2>1. \A i \in DOMAIN Prefix(s, n), j \in DOMAIN Beyond(s, n) : 0 + i < n + j
      BY <1>1, <1>4
    <2>. QED
      BY <1>5, <1>6, <2>1 DEF Rising, Below
  <1>8. 0 \in Int /\ n \in Int
    BY <1>1
  <1>. QED
    BY <1>2, <1>3, <1>5, <1>6, <1>7, <1>8 DEF Segment

\* What two sequences keep apart, keeps when they are joined.
LEMMA Joined ==
  ASSUME NEW s \in Seq(Message), NEW t \in Seq(Message)
  PROVE  /\ s \o t \in Seq(Message) /\ Len(s \o t) = Len(s) + Len(t)
         /\ Rising(s) /\ Rising(t) /\ Below(s, t) => Rising(s \o t)
         /\ \A x \in Seq(Message) :
               /\ Below(s, x) /\ Below(t, x) => Below(s \o t, x)
               /\ Below(x, s) /\ Below(x, t) => Below(x, s \o t)
         /\ \A k, from, to : Within(s, k, from, to) /\ Within(t, k, from, to) => Within(s \o t, k, from, to)
         /\ Clean(s) /\ Clean(t) => Clean(s \o t)
  <1> DEFINE st == s \o t
  <1>1. /\ st \in Seq(Message) /\ Len(st) = Len(s) + Len(t)
        /\ \A i \in 1 .. Len(s) + Len(t) : st[i] = IF i <= Len(s) THEN s[i] ELSE t[i - Len(s)]
    BY ConcatProperties
  <1>2. /\ Len(s) \in Nat /\ Len(t) \in Nat /\ DOMAIN s = 1 .. Len(s) /\ DOMAIN t = 1 .. Len(t)
        /\ DOMAIN st = 1 .. Len(s) + Len(t)
    BY <1>1, LenProperties
  <1> HIDE DEF st
  <1>3. \A i \in DOMAIN st :
           \/ i \in DOMAIN s /\ st[i] = s[i]
           \/ i - Len(s) \in DOMAIN t /\ st[i] = t[i - Len(s)] /\ i > Len(s)
    BY <1>1, <1>2
  <1>4. Rising(s) /\ Rising(t) /\ Below(s, t) => Rising(st)
    <2>1. SUFFICES ASSUME Rising(s), Rising(t), Below(s, t), NEW i \in DOMAIN st, NEW j \in DOMAIN st,
                          st[i].clean, st[j].clean, i < j
                   PROVE  st[i].number < st[j].number
      BY DEF Rising
    <2>2. CASE i \in DOMAIN s /\ st[i] = s[i] /\ j \in DOMAIN s /\ st[j] = s[j]
      BY <2>1, <2>2 DEF Rising
    <2>3. CASE i \in DOMAIN s /\ st[i] = s[i] /\ j - Len(s) \in DOMAIN t /\ st[j] = t[j - Len(s)]
      BY <2>1, <2>3 DEF Below
    <2>4. CASE /\ i - Len(s) \in DOMAIN t /\ st[i] = t[i - Len(s)]
               /\ j - Len(s) \in DOMAIN t /\ st[j] = t[j - Len(s)]
      <3>1. i - Len(s) < j - Len(s)
        BY <1>2, <2>1
      <3>. QED
        BY <2>1, <2>4, <3>1 DEF Rising
    <2>5. ~(i > Len(s) /\ j \in DOMAIN s)
      BY <1>2, <2>1
    <2>. QED
      BY <1>3, <2>2, <2>3, <2>4, <2>5
  <1>5. \A x \in Seq(Message) :
           /\ Below(s, x) /\ Below(t, x) => Below(st, x)
           /\ Below(x, s) /\ Below(x, t) => Below(x, st)
    BY <1>3 DEF Below
  <1>6. \A k, from, to : Within(s, k, from, to) /\ Within(t, k, from, to) => Within(st, k, from, to)
    BY <1>3 DEF Within
  <1>7. Clean(s) /\ Clean(t) => Clean(st)
    BY <1>3 DEF Clean
  <1>. QED
    BY <1>1, <1>4, <1>5, <1>6, <1>7 DEF st

LEMMA JoinedBelow ==
  ASSUME NEW s \in Seq(Message), NEW t \in Seq(Message), NEW x \in Seq(Message), Below(s, x), Below(t, x)
  PROVE  Below(s \o t, x)
  BY Joined

LEMMA JoinedAbove ==
  ASSUME NEW s \in Seq(Message), NEW t \in Seq(Message), NEW x \in Seq(Message), Below(x, s), Below(x, t)
  PROVE  Below(x, s \o t)
  BY Joined

LEMMA JoinedWithin ==
  ASSUME NEW s \in Seq(Message), NEW t \in Seq(Message), NEW k, NEW from, NEW to,
         Within(s, k, from, to), Within(t, k, from, to)
  PROVE  Within(s \o t, k, from, to)
  BY Joined

LEMMA SingleIs ==
  ASSUME NEW m \in Message
  PROVE  /\ <<m>> \in Seq(Message) /\ Len(<<m>>) = 1 /\ Rising(<<m>>)
         /\ \A s \in Seq(Message) : Below(s, <<m>>) <=>
               \A i \in DOMAIN s : s[i].clean /\ m.clean => s[i].number < m.number
         /\ \A k, from, to : Within(<<m>>, k, from, to) <=>
               (m.clean => m.kind = k /\ from < m.number /\ m.number <= to)
         /\ Clean(<<m>>) <=> m.clean
  <1>1. <<m>> \in Seq(Message) /\ Len(<<m>>) = 1 /\ DOMAIN <<m>> = {1} /\ <<m>>[1] = m
    OBVIOUS
  <1>. QED
    BY <1>1 DEF Rising, Below, Within, Clean

LEMMA HeadBelowTail ==
  ASSUME NEW s \in Seq(Message), s # <<>>, Rising(s)
  PROVE  Below(<<Head(s)>>, Tail(s))
  <1>1. /\ Tail(s) \in Seq(Message) /\ Len(Tail(s)) = Len(s) - 1
        /\ \A i \in 1 .. Len(Tail(s)) : Tail(s)[i] = s[i + 1]
    BY HeadTailProperties
  <1>2. /\ Len(s) \in Nat \ {0} /\ DOMAIN s = 1 .. Len(s) /\ DOMAIN Tail(s) = 1 .. Len(Tail(s))
    BY <1>1, EmptySeq, LenProperties
  <1>3. \A i \in DOMAIN Tail(s) : i + 1 \in DOMAIN s /\ 1 < i + 1 /\ Tail(s)[i] = s[i + 1]
    BY <1>1, <1>2
  <1>4. 1 \in DOMAIN s /\ DOMAIN <<Head(s)>> = {1} /\ <<Head(s)>>[1] = s[1]
    BY <1>2
  <1>. QED
    BY <1>3, <1>4 DEF Rising, Below

LEMMA NothingIs ==
  /\ <<>> \in Seq(Message) /\ Len(<<>>) = 0 /\ Rising(<<>>) /\ Clean(<<>>)
  /\ \A s : Below(s, <<>>) /\ Below(<<>>, s)
  /\ \A k, from, to : Within(<<>>, k, from, to)
  <1>1. <<>> \in Seq(Message) /\ Len(<<>>) = 0 /\ DOMAIN <<>> = {}
    BY EmptySeq, LenProperties
  <1>. QED
    BY <1>1 DEF Rising, Below, Within, Clean

\* Enqueue with overwrite_when_full: what is kept is a segment, and the new
\* element comes behind it.
LEMMA OverwritingIs ==
  ASSUME NEW s \in Seq(Message), NEW depth \in Nat \ {0}, Len(s) <= depth, NEW m \in Message
  PROVE  \E kept \in Seq(Message) :
            /\ Segment(kept, s) /\ Overwriting(s, depth, m) = kept \o <<m>>
            /\ Overwriting(s, depth, m) \in Seq(Message) /\ Len(Overwriting(s, depth, m)) <= depth
  <1> DEFINE kept == IF Len(s) = depth THEN Tail(s) ELSE s
  <1>1. kept \in Seq(Message) /\ Segment(kept, s) /\ Len(kept) < depth
    <2>1. CASE Len(s) = depth
      <3>1. s # <<>>
        BY <2>1, EmptySeq
      <3>2. Len(Tail(s)) = Len(s) - 1
        BY <3>1, HeadTailProperties
      <3>3. kept = Tail(s)
        BY <2>1
      <3>4. Len(kept) < depth
        BY <2>1, <3>2, <3>3
      <3>5. Tail(s) \in Seq(Message) /\ Segment(Tail(s), s)
        BY <3>1, Segments
      <3>. QED
        BY <3>3, <3>4, <3>5
    <2>2. CASE Len(s) # depth
      <3>1. kept = s /\ Len(s) \in Nat
        BY <2>2, LenProperties
      <3>2. Len(s) < depth
        BY <2>2, <3>1
      <3>3. Segment(s, s)
        BY Segments
      <3>. QED
        BY <3>1, <3>2, <3>3
    <2>. QED
      BY <2>1, <2>2
  <1>2. Overwriting(s, depth, m) = Append(kept, m)
    BY DEF Overwriting
  <1>3. Append(kept, m) = kept \o <<m>> /\ Append(kept, m) \in Seq(Message) /\ Len(Append(kept, m)) = Len(kept) + 1
    BY <1>1, AppendIsConcat, AppendProperties
  <1>4. Len(kept) + 1 <= depth
    BY <1>1, LenProperties
  <1> HIDE DEF kept
  <1>. QED
    BY <1>1, <1>2, <1>3, <1>4

-----------------------------------------------------------------------------
(* The stations of a kind.                                                 *)

LEMMA LengthsAre ==
  ASSUME NEW k \in MessageKinds
  PROVE  /\ RawLen[k] \in Nat \ {0} /\ DecodedLen[k] \in Nat \ {0} /\ HostLen[k] \in Nat \ {0}
         /\ PacketSize[k] \in Nat \ {0} /\ MaxMessages[k] \in Nat
  BY UATAssumption

LEMMA KindsAre ==
  "adsb" \in MessageKinds /\ "uplink" \in MessageKinds /\ \A k \in MessageKinds : k # "none" /\ k # "unset"
  BY DEF MessageKinds

StationTypes(k) ==
    /\ host[k] \in Seq(Message) /\ Answered(k) \in Seq(Message) /\ decoded[k] \in Seq(Message)
    /\ Deciding(k) \in Seq(Message) /\ raw[k] \in Seq(Message)
    /\ ingested[k] \in Nat /\ heard[k] \in Nat /\ Queued(k) \in Int /\ Queued(k) <= heard[k]

LEMMA StationsAre ==
  ASSUME NEW k \in MessageKinds
  PROVE  UATTypes => StationTypes(k)
  <1> SUFFICES ASSUME UATTypes PROVE StationTypes(k)
    OBVIOUS
  <1>1. host[k] \in Seq(Message) /\ decoded[k] \in Seq(Message) /\ raw[k] \in Seq(Message) /\ ingested[k] \in Nat
    BY DEF UATTypes, QueueTypes
  <1>2. Answered(k) \in Seq(Message)
    BY NothingIs DEF UATTypes, ReadTypes, Answered
  <1>3. Deciding(k) \in Seq(Message)
    <2>1. decoding # NoMessage => decoding \in Message
      BY DEF UATTypes, QueueTypes
    <2>2. decoding # NoMessage => <<decoding>> \in Seq(Message)
      BY <2>1, SingleIs
    <2>. QED
      BY <2>2, NothingIs DEF Deciding
  <1>4. heard[k] \in Nat
    BY DEF UATTypes, RadioTypes
  <1>5. Queued(k) \in Int /\ Queued(k) <= heard[k]
    BY <1>4 DEF Queued
  <1>. QED
    BY <1>1, <1>2, <1>3, <1>4, <1>5 DEF StationTypes

LEMMA StationsNext ==
  ASSUME NEW k \in MessageKinds
  PROVE  UATTypes' => StationTypes(k)'
  <1>1. UATTypes => StationTypes(k)
    BY StationsAre
  <1>. QED
    BY <1>1, PTL

LEMMA ChainOfSegments ==
  ASSUME NEW h \in Seq(Message), NEW a \in Seq(Message), NEW d \in Seq(Message),
         NEW c \in Seq(Message), NEW r \in Seq(Message),
         NEW h2 \in Seq(Message), NEW a2 \in Seq(Message), NEW d2 \in Seq(Message),
         NEW c2 \in Seq(Message), NEW r2 \in Seq(Message),
         Segment(h2, h), Segment(a2, a), Segment(d2, d), Segment(c2, c), Segment(r2, r),
         Chain(h, a, d, c, r)
  PROVE  Chain(h2, a2, d2, c2, r2)
  <1>1. /\ Rising(h) => Rising(h2)
        /\ \A x \in Seq(Message) : (Below(h, x) => Below(h2, x)) /\ (Below(x, h) => Below(x, h2))
    BY SegmentKeeps
  <1>2. /\ Rising(a) => Rising(a2)
        /\ \A x \in Seq(Message) : (Below(a, x) => Below(a2, x)) /\ (Below(x, a) => Below(x, a2))
    BY SegmentKeeps
  <1>3. /\ Rising(d) => Rising(d2)
        /\ \A x \in Seq(Message) : (Below(d, x) => Below(d2, x)) /\ (Below(x, d) => Below(x, d2))
    BY SegmentKeeps
  <1>4. /\ Rising(c) => Rising(c2)
        /\ \A x \in Seq(Message) : (Below(c, x) => Below(c2, x)) /\ (Below(x, c) => Below(x, c2))
    BY SegmentKeeps
  <1>5. /\ Rising(r) => Rising(r2)
        /\ \A x \in Seq(Message) : (Below(r, x) => Below(r2, x)) /\ (Below(x, r) => Below(x, r2))
    BY SegmentKeeps
  <1>. QED
    BY <1>1, <1>2, <1>3, <1>4, <1>5 DEF Chain

LEMMA WithinMore ==
  ASSUME NEW s \in Seq(Message), NEW k, NEW from \in Int, NEW to \in Int, NEW more \in Int, to <= more,
         Within(s, k, from, to)
  PROVE  Within(s, k, from, more)
  <1>1. \A m \in Message : m.number \in Nat
    BY DEF Message
  <1>2. \A i \in DOMAIN s : s[i] \in Message
    BY LenProperties, ElementOfSeq
  <1>. QED
    BY <1>1, <1>2 DEF Within

LEMMA SegmentWithin ==
  ASSUME NEW s \in Seq(Message), NEW t \in Seq(Message), Segment(t, s),
         NEW k, NEW from \in Int, NEW to \in Int, NEW more \in Int, to <= more,
         Within(s, k, from, to)
  PROVE  Within(t, k, from, more)
  <1>1. Within(t, k, from, to)
    BY SegmentKeeps
  <1>. QED
    BY <1>1, WithinMore

\* A step that only removes from the stations, and may add to what has been
\* queued by its number alone.
LEMMA LineShrinks ==
  ASSUME UATTypes, UATTypes', NEW k \in MessageKinds, Line(k),
         Segment(host[k]', host[k]), Segment(Answered(k)', Answered(k)), Segment(decoded[k]', decoded[k]),
         Segment(Deciding(k)', Deciding(k)), Segment(raw[k]', raw[k]),
         ingested[k]' = ingested[k], Queued(k) <= Queued(k)'
  PROVE  Line(k)'
  <1>1. /\ host[k] \in Seq(Message) /\ Answered(k) \in Seq(Message) /\ decoded[k] \in Seq(Message)
        /\ Deciding(k) \in Seq(Message) /\ raw[k] \in Seq(Message) /\ ingested[k] \in Nat /\ Queued(k) \in Int
    BY StationsAre DEF StationTypes
  <1>2. /\ host[k]' \in Seq(Message) /\ Answered(k)' \in Seq(Message) /\ decoded[k]' \in Seq(Message)
        /\ Deciding(k)' \in Seq(Message) /\ raw[k]' \in Seq(Message) /\ Queued(k)' \in Int
    BY StationsNext DEF StationTypes
  <1>3. Chain(host'[k], Answered(k)', decoded'[k], Deciding(k)', raw'[k])
    <2>1. Chain(host[k], Answered(k), decoded[k], Deciding(k), raw[k])
      BY DEF Line
    <2>. QED
      BY <1>1, <1>2, <2>1, ChainOfSegments
  <1>4. Inside(host'[k], Answered(k)', decoded'[k], Deciding(k)', raw'[k], k, ingested[k], Queued(k)')
    <2>1. Inside(host[k], Answered(k), decoded[k], Deciding(k), raw[k], k, ingested[k], Queued(k))
      BY DEF Line
    <2>2. Within(host'[k], k, ingested[k], Queued(k)')
      BY <1>1, <1>2, <2>1, SegmentWithin DEF Inside
    <2>3. Within(Answered(k)', k, ingested[k], Queued(k)')
      BY <1>1, <1>2, <2>1, SegmentWithin DEF Inside
    <2>4. Within(decoded'[k], k, ingested[k], Queued(k)')
      BY <1>1, <1>2, <2>1, SegmentWithin DEF Inside
    <2>5. Within(Deciding(k)', k, ingested[k], Queued(k)')
      BY <1>1, <1>2, <2>1, SegmentWithin DEF Inside
    <2>6. Within(raw'[k], k, ingested[k], Queued(k)')
      BY <1>1, <1>2, <2>1, SegmentWithin DEF Inside
    <2>7. Clean(host'[k]) /\ Clean(Answered(k)') /\ Clean(decoded'[k])
      BY <1>1, <1>2, <2>1, SegmentKeeps DEF Inside
    <2>. QED
      BY <2>2, <2>3, <2>4, <2>5, <2>6, <2>7 DEF Inside
  <1>5. ingested[k] <= Queued(k)'
    BY <1>1, <1>2 DEF Line
  <1>. QED
    BY <1>3, <1>4, <1>5 DEF Line

LEMMA LineStays ==
  ASSUME UATTypes, UATTypes', NEW k \in MessageKinds, Line(k),
         UNCHANGED <<host[k], Answered(k), decoded[k], Deciding(k), raw[k], ingested[k]>>,
         Queued(k) <= Queued(k)'
  PROVE  Line(k)'
  <1>1. StationTypes(k)
    BY StationsAre
  <1>2. /\ Segment(host[k], host[k]) /\ Segment(Answered(k), Answered(k)) /\ Segment(decoded[k], decoded[k])
        /\ Segment(Deciding(k), Deciding(k)) /\ Segment(raw[k], raw[k])
    BY <1>1, Segments DEF StationTypes
  <1>. QED
    BY <1>2, LineShrinks

-----------------------------------------------------------------------------
(* The radio and its callback.                                             *)

LEMMA SyncFoundKeeps ==
  ASSUME UATInv, SyncFound
  PROVE  UATInv'
  <1>1. UATTypes /\ RadioTypes /\ QueueTypes /\ ReadTypes /\ Reception
    BY DEF UATInv, UATTypes
  <1>2. PICK kind \in MessageKinds, clean \in BOOLEAN :
           /\ heard[kind] < MaxMessages[kind]
           /\ heard' = [heard EXCEPT ![kind] = @ + 1]
           /\ entry' = [kind |-> kind, number |-> heard'[kind], clean |-> clean]
    BY DEF SyncFound
  <1>3. /\ rfCore = "listening" /\ rfCore' = "synced" /\ rxLen' = FALSE
        /\ events' = events \cup {"MdmSoft"} /\ UNCHANGED current_packet_len_bytes
        /\ UNCHANGED <<raw, loopVars, decoded, readVars, host, ingested>>
    BY DEF SyncFound
  <1>4. ~Fresh /\ Fresh' /\ "RxOk" \notin events'
    BY <1>1, <1>3 DEF Fresh, Reception
  <1>5. heard'[kind] = heard[kind] + 1 /\ heard[kind] \in Nat /\ heard[kind] + 1 <= MaxMessages[kind]
    BY <1>1, <1>2, LengthsAre DEF RadioTypes
  <1>6. RadioTypes'
    <2>1. entry' \in Message
      BY <1>2, <1>5 DEF Message
    <2>2. heard' \in [MessageKinds -> Nat] /\ \A k \in MessageKinds : heard'[k] <= MaxMessages[k]
      BY <1>1, <1>2, <1>5 DEF RadioTypes
    <2>. QED
      BY <1>1, <1>3, <2>1, <2>2 DEF RadioTypes
  <1>7. UATTypes'
    BY <1>1, <1>3, <1>6 DEF UATTypes, QueueTypes, ReadTypes, loopVars, readVars
  <1>8. Reception'
    BY <1>2, <1>3, <1>4, <1>5, <1>6 DEF Reception, RadioTypes, Message
  <1>9. ASSUME NEW k \in MessageKinds PROVE Line(k)'
    <2>1. UNCHANGED <<host[k], Answered(k), decoded[k], Deciding(k), raw[k], ingested[k]>>
      BY <1>3 DEF Answered, Deciding, loopVars, readVars
    <2>2. Queued(k)' = Queued(k) /\ Queued(k) \in Int
      <3>1. entry'.kind = kind /\ heard[k] \in Nat /\ heard'[k] = IF k = kind THEN heard[k] + 1 ELSE heard[k]
        BY <1>1, <1>2 DEF RadioTypes
      <3>2. heard[k] + 1 - 1 = heard[k]
        BY <3>1
      <3>. QED
        BY <1>4, <3>1, <3>2 DEF Queued
    <2>. QED
      BY <1>1, <1>7, <2>1, <2>2, LineStays DEF UATInv
  <1>. QED
    BY <1>7, <1>8, <1>9 DEF UATInv

LEMMA ReceptionKeeps ==
  ASSUME UATInv, HeaderWritten \/ ReceptionEnds
  PROVE  UATInv'
  <1>1. UATTypes /\ RadioTypes /\ QueueTypes /\ ReadTypes /\ Reception
    BY DEF UATInv, UATTypes
  <1>2. /\ rfCore \in {"synced", "written"} /\ rfCore' \in {"off", "written"} /\ rxLen' = rxLen
        /\ events \subseteq events' /\ events' \subseteq {"MdmSoft", "NDataWritten", "RxOk", "LastCmdDone"}
        /\ rfCore' = "off" => ("RxOk" \in events' <=> rxLen) /\ events' \subseteq events \cup {"RxOk", "LastCmdDone"}
        /\ rfCore' = "written" => rfCore = "synced" /\ events' = events \cup {"NDataWritten"}
        /\ UNCHANGED <<heard, entry, current_packet_len_bytes, raw, loopVars, decoded, readVars, host, ingested>>
    <2>1. CASE HeaderWritten
      BY <1>1, <2>1 DEF HeaderWritten, RadioTypes
    <2>2. CASE ReceptionEnds
      <3>1. "RxOk" \notin events
        BY <1>1, <2>2 DEF ReceptionEnds, Reception
      <3>. QED
        BY <1>1, <2>2, <3>1 DEF ReceptionEnds, RadioTypes
    <2>. QED
      BY <2>1, <2>2
  <1>3. UATTypes'
    BY <1>1, <1>2 DEF UATTypes, RadioTypes, QueueTypes, ReadTypes, loopVars, readVars
  <1>4. Fresh
    BY <1>2 DEF Fresh
  <1>5. Reception'
    <2>1. Fresh' => entry' \in Message /\ entry'.number = heard'[entry'.kind]
      BY <1>1, <1>2, <1>4 DEF Reception
    <2>2. "RxOk" \in events' => rxLen' /\ rfCore' = "off"
      BY <1>1, <1>2 DEF Reception
    <2>3. rxLen' => /\ rfCore' # "synced" /\ {"MdmSoft", "NDataWritten"} \cap events' = {}
                    /\ current_packet_len_bytes' \in LengthsOf(entry')
      BY <1>1, <1>2 DEF Reception
    <2>. QED
      BY <2>1, <2>2, <2>3 DEF Reception
  <1>6. ASSUME NEW k \in MessageKinds PROVE Line(k)'
    <2>1. UNCHANGED <<host[k], Answered(k), decoded[k], Deciding(k), raw[k], ingested[k]>>
      BY <1>2 DEF Answered, Deciding, loopVars, readVars
    <2>2. heard[k] \in Nat /\ heard'[k] = heard[k] /\ entry' = entry
      BY <1>1, <1>2 DEF RadioTypes
    <2>3. Queued(k) <= Queued(k)'
      BY <1>4, <2>2 DEF Queued
    <2>. QED
      BY <1>1, <1>3, <2>1, <2>3, LineStays DEF UATInv
  <1>. QED
    BY <1>3, <1>5, <1>6 DEF UATInv

LEMMA ArrivesAbove ==
  ASSUME NEW s \in Seq(Message), NEW m \in Message, NEW k, NEW from \in Int, NEW to \in Int,
         Within(s, k, from, to), m.clean => to < m.number
  PROVE  Below(s, <<m>>)
  <1>1. \A n \in Message : n.number \in Nat
    BY DEF Message
  <1>2. \A i \in DOMAIN s : s[i] \in Message
    BY LenProperties, ElementOfSeq
  <1>3. \A i \in DOMAIN s : s[i].clean /\ m.clean => s[i].number < m.number
    BY <1>1, <1>2 DEF Within
  <1>. QED
    BY <1>3, SingleIs

LEMMA EntryQueued ==
  ASSUME UATInv, UATTypes', RFCallback, "RxOk" \in events,
         NEW k \in MessageKinds, current_packet_len_bytes' = k,
         raw' = [raw EXCEPT ![k] = Overwriting(@, RawLen[k], entry)], ~Fresh'
  PROVE  Line(k)'
  <1>1. UATTypes /\ QueueTypes /\ Reception /\ Line(k) /\ StationTypes(k)
    BY StationsAre DEF UATInv, UATTypes
  <1>2. /\ entry \in Message /\ entry.number = heard[entry.kind] /\ entry.kind \in MessageKinds
        /\ k \in LengthsOf(entry) /\ entry' = entry
    <2>1. Fresh /\ rxLen /\ entry \in Message /\ entry.number = heard[entry.kind]
      BY <1>1 DEF Reception, Fresh
    <2>2. current_packet_len_bytes \in LengthsOf(entry) /\ {"MdmSoft", "NDataWritten"} \cap events = {}
      BY <1>1, <2>1 DEF Reception
    <2>3. current_packet_len_bytes' = current_packet_len_bytes /\ entry' = entry
      BY <2>2 DEF RFCallback, LenBeforeHeader
    <2>. QED
      BY <2>1, <2>2, <2>3 DEF Message
  <1>3. entry.clean => entry.kind = k /\ entry.number = heard[k] /\ Queued(k) < entry.number
    <2>1. entry.clean => entry.kind = k
      BY <1>2 DEF LengthsOf
    <2>2. Fresh /\ heard[k] \in Nat
      BY <1>1 DEF Fresh, StationTypes
    <2>. QED
      BY <1>2, <2>1, <2>2 DEF Queued
  <1>4. /\ UNCHANGED <<host[k], Answered(k), decoded[k], Deciding(k), ingested[k]>>
        /\ Queued(k)' = heard[k] /\ Queued(k) <= Queued(k)' /\ Queued(k)' \in Int
    <2>1. UNCHANGED <<heard, entry, decoded, loopVars, readVars, host, ingested>>
      BY DEF RFCallback
    <2>. QED
      BY <1>1, <2>1 DEF Answered, Deciding, loopVars, readVars, Queued, StationTypes
  <1>5. PICK kept \in Seq(Message) :
           Segment(kept, raw[k]) /\ raw'[k] = kept \o <<entry>>
    <2>1. Len(raw[k]) <= RawLen[k] /\ RawLen[k] \in Nat \ {0}
      BY <1>1, LengthsAre DEF QueueTypes
    <2>2. raw'[k] = Overwriting(raw[k], RawLen[k], entry)
      BY <1>1 DEF QueueTypes
    <2>3. raw[k] \in Seq(Message)
      BY <1>1 DEF StationTypes
    <2>4. \E kept \in Seq(Message) :
             /\ Segment(kept, raw[k]) /\ Overwriting(raw[k], RawLen[k], entry) = kept \o <<entry>>
             /\ Overwriting(raw[k], RawLen[k], entry) \in Seq(Message)
             /\ Len(Overwriting(raw[k], RawLen[k], entry)) <= RawLen[k]
      BY <1>2, <2>1, <2>3, OverwritingIs
    <2>. QED
      BY <2>2, <2>4
  <1>6. /\ ingested[k] \in Int /\ Queued(k) \in Int /\ <<entry>> \in Seq(Message) /\ Rising(<<entry>>)
        /\ host[k] \in Seq(Message) /\ Answered(k) \in Seq(Message) /\ decoded[k] \in Seq(Message)
        /\ Deciding(k) \in Seq(Message) /\ raw[k] \in Seq(Message)
    BY <1>1, <1>2, SingleIs DEF StationTypes
  <1>7. /\ Within(host[k], k, ingested[k], Queued(k)) /\ Within(Answered(k), k, ingested[k], Queued(k))
        /\ Within(decoded[k], k, ingested[k], Queued(k)) /\ Within(Deciding(k), k, ingested[k], Queued(k))
        /\ Within(raw[k], k, ingested[k], Queued(k))
        /\ Clean(host[k]) /\ Clean(Answered(k)) /\ Clean(decoded[k])
    BY <1>1 DEF Line, Inside
  <1>8. Within(kept, k, ingested[k], Queued(k)) /\ Rising(kept)
    BY <1>1, <1>5, <1>6, <1>7, SegmentKeeps DEF Line, Chain
  <1>9. \A s \in {host[k], Answered(k), decoded[k], Deciding(k), kept} : Below(s, <<entry>>)
    BY <1>2, <1>3, <1>5, <1>6, <1>7, <1>8, ArrivesAbove
  <1>10. Chain(host[k], Answered(k), decoded[k], Deciding(k), raw'[k])
    <2>1. /\ Below(host[k], kept) /\ Below(Answered(k), kept) /\ Below(decoded[k], kept) /\ Below(Deciding(k), kept)
      BY <1>1, <1>5, <1>6, SegmentKeeps DEF Line, Chain
    <2>2. \A s \in {host[k], Answered(k), decoded[k], Deciding(k)} : Below(s, kept \o <<entry>>)
      BY <1>5, <1>6, <1>9, <2>1, JoinedAbove
    <2>3. Rising(kept \o <<entry>>)
      BY <1>5, <1>6, <1>8, <1>9, Joined
    <2>. QED
      BY <1>1, <1>5, <2>2, <2>3 DEF Line, Chain
  <1>11. Inside(host[k], Answered(k), decoded[k], Deciding(k), raw'[k], k, ingested[k], Queued(k)')
    <2>1. /\ Within(host[k], k, ingested[k], Queued(k)') /\ Within(Answered(k), k, ingested[k], Queued(k)')
          /\ Within(decoded[k], k, ingested[k], Queued(k)') /\ Within(Deciding(k), k, ingested[k], Queued(k)')
          /\ Within(kept, k, ingested[k], Queued(k)')
      BY <1>4, <1>5, <1>6, <1>7, <1>8, WithinMore
    <2>2. Within(<<entry>>, k, ingested[k], Queued(k)')
      <3>1. ingested[k] <= Queued(k)
        BY <1>1 DEF Line
      <3>2. entry.clean => entry.kind = k /\ ingested[k] < entry.number /\ entry.number <= Queued(k)'
        BY <1>1, <1>3, <1>4, <1>6, <3>1 DEF StationTypes
      <3>. QED
        BY <1>2, <3>2, SingleIs
    <2>3. Within(kept \o <<entry>>, k, ingested[k], Queued(k)')
      BY <1>5, <1>6, <2>1, <2>2, JoinedWithin
    <2>. QED
      BY <1>5, <1>7, <2>1, <2>3 DEF Inside
  <1>12. ingested[k] <= Queued(k)'
    BY <1>1, <1>4, <1>6 DEF Line
  <1>. QED
    BY <1>4, <1>10, <1>11, <1>12 DEF Line

LEMMA RFCallbackKeeps ==
  ASSUME UATInv, RFCallback
  PROVE  UATInv'
  <1>1. UATTypes /\ RadioTypes /\ QueueTypes /\ ReadTypes /\ Reception
    BY DEF UATInv, UATTypes
  <1>2. PICK len \in IF "NDataWritten" \in events /\ LenBeforeHeader = "unset"
                     THEN LengthsOf(entry) ELSE {LenBeforeHeader} :
          /\ current_packet_len_bytes' = len
          /\ rxLen' = (rxLen \/ (rfCore = "written" /\ LenBeforeHeader = "unset" /\ len # "unset"))
          /\ raw' = IF "RxOk" \in events /\ len # "unset"
                    THEN [raw EXCEPT ![len] = Overwriting(@, RawLen[len], entry)] ELSE raw
    BY DEF RFCallback
  <1>3. /\ events' = {}
        /\ UNCHANGED <<heard, rfCore, entry, loopVars, decoded, readVars, host, ingested>>
    BY DEF RFCallback
  <1>4. Fresh' <=> rfCore \in {"synced", "written"}
    BY <1>3 DEF Fresh
  <1>5. "RxOk" \in events => /\ entry \in Message /\ rxLen /\ rfCore = "off" /\ len = current_packet_len_bytes
                             /\ len \in LengthsOf(entry) /\ ~Fresh'
    <2>1. SUFFICES ASSUME "RxOk" \in events
                   PROVE  /\ entry \in Message /\ rxLen /\ rfCore = "off" /\ len = current_packet_len_bytes
                          /\ len \in LengthsOf(entry) /\ ~Fresh'
      OBVIOUS
    <2>2. rxLen /\ rfCore = "off" /\ Fresh
      BY <1>1, <2>1 DEF Reception, Fresh
    <2>3. /\ "MdmSoft" \notin events /\ "NDataWritten" \notin events
          /\ current_packet_len_bytes \in LengthsOf(entry) /\ entry \in Message
      BY <1>1, <2>2 DEF Reception
    <2>4. len = current_packet_len_bytes
      BY <1>2, <2>3 DEF LenBeforeHeader
    <2>. QED
      BY <1>4, <2>2, <2>3, <2>4
  <1>6. len \in MessageKinds \cup {"unset"}
    <2>1. LenBeforeHeader \in MessageKinds \cup {"unset"}
      BY <1>1 DEF LenBeforeHeader, RadioTypes
    <2>2. "NDataWritten" \in events /\ LenBeforeHeader = "unset" => LengthsOf(entry) \subseteq MessageKinds
      <3>1. entry \in Message => LengthsOf(entry) \subseteq MessageKinds
        BY DEF LengthsOf, Message
      <3>2. ~NoMessage.clean => LengthsOf(NoMessage) = MessageKinds
        BY DEF LengthsOf
      <3>. QED
        BY <1>1, <3>1, <3>2 DEF RadioTypes, NoMessage
    <2>. QED
      BY <1>2, <2>1, <2>2
  <1>7. UATTypes'
    <2>1. RadioTypes'
      BY <1>1, <1>2, <1>3, <1>6 DEF RadioTypes
    <2>2. /\ raw' \in [MessageKinds -> Seq(Message)]
          /\ \A k \in MessageKinds : Len(raw'[k]) <= RawLen[k]
      <3>1. CASE "RxOk" \in events /\ len # "unset"
        <4>1. len \in MessageKinds /\ entry \in Message
          BY <1>5, <1>6, <3>1
        <4>2. /\ Overwriting(raw[len], RawLen[len], entry) \in Seq(Message)
              /\ Len(Overwriting(raw[len], RawLen[len], entry)) <= RawLen[len]
          BY <1>1, <4>1, LengthsAre, OverwritingIs DEF QueueTypes
        <4>. QED
          BY <1>1, <1>2, <3>1, <4>1, <4>2 DEF QueueTypes
      <3>2. CASE ~("RxOk" \in events /\ len # "unset")
        BY <1>1, <1>2, <3>2 DEF QueueTypes
      <3>. QED
        BY <3>1, <3>2
    <2>3. QueueTypes'
      BY <1>1, <1>3, <2>2 DEF QueueTypes, loopVars
    <2>4. ReadTypes'
      BY <1>1, <1>3 DEF ReadTypes, readVars
    <2>. QED
      BY <2>1, <2>3, <2>4 DEF UATTypes
  <1>8. Reception'
    <2>1. Fresh' => entry' \in Message /\ entry'.number = heard'[entry'.kind]
      BY <1>1, <1>3, <1>4 DEF Reception, Fresh
    <2>2. rxLen' => rfCore' # "synced" /\ current_packet_len_bytes' \in LengthsOf(entry')
      <3>1. CASE rxLen
        <4>1. /\ rfCore # "synced" /\ "MdmSoft" \notin events /\ "NDataWritten" \notin events
              /\ current_packet_len_bytes \in LengthsOf(entry)
          BY <1>1, <3>1 DEF Reception
        <4>2. len = current_packet_len_bytes
          BY <1>2, <4>1 DEF LenBeforeHeader
        <4>. QED
          BY <1>2, <1>3, <4>1, <4>2
      <3>2. CASE rfCore = "written" /\ LenBeforeHeader = "unset" /\ len # "unset"
        BY <1>2, <1>3, <3>2
      <3>. QED
        BY <1>2, <3>1, <3>2
    <2>. QED
      BY <1>3, <2>1, <2>2 DEF Reception
  <1>9. ASSUME NEW k \in MessageKinds PROVE Line(k)'
    <2>1. CASE "RxOk" \in events /\ len = k
      BY <1>2, <1>5, <1>7, <2>1, KindsAre, EntryQueued
    <2>2. CASE ~("RxOk" \in events /\ len = k)
      <3>1. raw'[k] = raw[k]
        BY <1>1, <1>2, <2>2 DEF QueueTypes
      <3>2. UNCHANGED <<host[k], Answered(k), decoded[k], Deciding(k), raw[k], ingested[k]>>
        BY <1>3, <3>1 DEF Answered, Deciding, loopVars, readVars
      <3>3. Queued(k) <= Queued(k)'
        <4>1. heard[k] \in Nat /\ heard' = heard /\ entry' = entry
          BY <1>1, <1>3 DEF RadioTypes
        <4>2. Fresh' => Fresh
          BY <1>4 DEF Fresh
        <4>. QED
          BY <4>1, <4>2 DEF Queued
      <3>. QED
        BY <1>1, <1>7, <3>2, <3>3, LineStays DEF UATInv
    <2>. QED
      BY <2>1, <2>2
  <1>. QED
    BY <1>7, <1>8, <1>9 DEF UATInv

-----------------------------------------------------------------------------
(* The main loop of the CC1312.                                            *)

\* What leaves the radio alone leaves what has been queued by number alone.
LEMMA RadioStays ==
  ASSUME UATInv, UNCHANGED radioVars
  PROVE  /\ RadioTypes' /\ Reception' /\ (Fresh' <=> Fresh)
         /\ \A k \in MessageKinds : Queued(k)' = Queued(k) /\ Queued(k) \in Int
  <1>1. RadioTypes /\ Reception /\ UATTypes
    BY DEF UATInv, UATTypes
  <1>2. UNCHANGED <<heard, rfCore, entry, events, current_packet_len_bytes, rxLen>>
    BY DEF radioVars
  <1>3. Fresh' <=> Fresh
    BY <1>2 DEF Fresh
  <1>4. RadioTypes' /\ Reception'
    BY <1>1, <1>2, <1>3 DEF RadioTypes, Reception, LengthsOf
  <1>5. ASSUME NEW k \in MessageKinds PROVE Queued(k)' = Queued(k) /\ Queued(k) \in Int
    BY <1>1, <1>2, <1>3, StationsAre DEF Queued, StationTypes
  <1>. QED
    BY <1>3, <1>4, <1>5

LEMMA TakeMessageKeeps ==
  ASSUME UATInv, TakeMessage
  PROVE  UATInv'
  <1>1. UATTypes /\ RadioTypes /\ QueueTypes /\ ReadTypes /\ Reception
    BY DEF UATInv, UATTypes
  <1>2. /\ loopAt \in MessageKinds /\ decoding = NoMessage
        /\ UNCHANGED <<radioVars, decoded, readVars, host, ingested>>
    BY DEF TakeMessage
  <1>3. CASE raw[loopAt] = <<>>
    <2>1. loopAt' = After(loopAt) /\ UNCHANGED <<raw, decoding>>
      BY <1>3 DEF TakeMessage
    <2>2. UATTypes'
      <3>1. loopAt' \in MessageKinds \cup {"radio"}
        BY <2>1 DEF After, MessageKinds
      <3>. QED
        BY <1>1, <1>2, <2>1, <3>1, RadioStays DEF UATTypes, QueueTypes, ReadTypes, readVars
    <2>3. ASSUME NEW k \in MessageKinds PROVE Line(k)'
      <3>1. UNCHANGED <<host[k], Answered(k), decoded[k], Deciding(k), raw[k], ingested[k]>>
        BY <1>2, <2>1 DEF Answered, Deciding, readVars
      <3>. QED
        BY <1>1, <1>2, <2>2, <3>1, RadioStays, LineStays DEF UATInv
    <2>. QED
      BY <1>2, <2>2, <2>3, RadioStays DEF UATInv
  <1>4. CASE raw[loopAt] # <<>>
    <2>1. /\ decoding' = Head(raw[loopAt]) /\ raw' = [raw EXCEPT ![loopAt] = Tail(@)] /\ UNCHANGED loopAt
      BY <1>4 DEF TakeMessage
    <2> DEFINE q == raw[loopAt]
    <2>2. /\ q \in Seq(Message) /\ Tail(q) \in Seq(Message) /\ Head(q) \in Message
          /\ <<Head(q)>> \in Seq(Message)
          /\ Segment(Tail(q), q) /\ Segment(<<Head(q)>>, q) /\ Len(Tail(q)) = Len(q) - 1
      BY <1>1, <1>2, <1>4, Segments, HeadTailProperties DEF QueueTypes
    <2>3. raw'[loopAt] = Tail(q) /\ \A k \in MessageKinds : k # loopAt => raw'[k] = raw[k]
      BY <1>1, <1>2, <2>1 DEF QueueTypes
    <2>4. UATTypes'
      <3>1. Len(Tail(q)) <= RawLen[loopAt]
        BY <1>1, <1>2, <2>2, LengthsAre, LenProperties DEF QueueTypes
      <3>2. /\ raw' \in [MessageKinds -> Seq(Message)] /\ \A k \in MessageKinds : Len(raw'[k]) <= RawLen[k]
        BY <1>1, <1>2, <2>1, <2>2, <2>3, <3>1 DEF QueueTypes
      <3>3. decoding' \in Message
        BY <2>1, <2>2
      <3>. QED
        BY <1>1, <1>2, <2>1, <3>2, <3>3, RadioStays DEF UATTypes, QueueTypes, ReadTypes, readVars
    <2>5. ASSUME NEW k \in MessageKinds PROVE Line(k)'
      <3>1. CASE k # loopAt
        <4>1. UNCHANGED <<host[k], Answered(k), decoded[k], Deciding(k), raw[k], ingested[k]>>
          BY <1>2, <2>1, <2>3, <3>1 DEF Answered, Deciding, readVars
        <4>. QED
          BY <1>1, <1>2, <2>4, <4>1, RadioStays, LineStays DEF UATInv
      <3>2. CASE k = loopAt
        <4>1. /\ UNCHANGED <<host[k], Answered(k), decoded[k], ingested[k]>>
              /\ Queued(k)' = Queued(k)
          BY <1>2, RadioStays DEF Answered, readVars
        <4>2. raw'[k] = Tail(q) /\ Deciding(k) = <<>> /\ Deciding(k)' = <<Head(q)>> /\ raw[k] = q
          <5>1. Head(q) # NoMessage
            BY <2>2, KindsAre DEF Message, NoMessage
          <5>. QED
            BY <1>2, <2>1, <2>3, <3>2, <5>1 DEF Deciding
        <4>3. /\ Line(k) /\ host[k] \in Seq(Message) /\ Answered(k) \in Seq(Message) /\ decoded[k] \in Seq(Message)
          BY <1>1, StationsAre DEF UATInv, StationTypes
        <4>4. Chain(host[k], Answered(k), decoded[k], <<Head(q)>>, Tail(q))
          <5>1. /\ Rising(q) /\ Below(host[k], q) /\ Below(Answered(k), q) /\ Below(decoded[k], q)
            BY <4>2, <4>3 DEF Line, Chain
          <5>2. /\ Rising(Tail(q)) /\ Below(host[k], Tail(q)) /\ Below(Answered(k), Tail(q))
                /\ Below(decoded[k], Tail(q))
            BY <2>2, <4>3, <5>1, SegmentKeeps
          <5>3. /\ Rising(<<Head(q)>>) /\ Below(host[k], <<Head(q)>>) /\ Below(Answered(k), <<Head(q)>>)
                /\ Below(decoded[k], <<Head(q)>>)
            BY <2>2, <4>3, <5>1, SegmentKeeps
          <5>4. Below(<<Head(q)>>, Tail(q))
            BY <1>4, <2>2, <5>1, HeadBelowTail
          <5>. QED
            BY <4>3, <5>2, <5>3, <5>4 DEF Line, Chain
        <4>5. Inside(host[k], Answered(k), decoded[k], <<Head(q)>>, Tail(q), k, ingested[k], Queued(k))
          <5>1. Within(q, k, ingested[k], Queued(k))
            BY <4>2, <4>3 DEF Line, Inside
          <5>2. Within(<<Head(q)>>, k, ingested[k], Queued(k)) /\ Within(Tail(q), k, ingested[k], Queued(k))
            BY <2>2, <5>1, SegmentKeeps
          <5>. QED
            BY <4>3, <5>2 DEF Line, Inside
        <4>. QED
          BY <4>1, <4>2, <4>3, <4>4, <4>5 DEF Line
      <3>. QED
        BY <3>1, <3>2
    <2>. QED
      BY <1>2, <2>4, <2>5, RadioStays DEF UATInv
  <1>. QED
    BY <1>3, <1>4

LEMMA QueueDecodedKeeps ==
  ASSUME UATInv, QueueDecoded
  PROVE  UATInv'
  <1>1. UATTypes /\ RadioTypes /\ QueueTypes /\ ReadTypes /\ Reception
    BY DEF UATInv, UATTypes
  <1>2. /\ decoding # NoMessage /\ decoding' = NoMessage /\ decoding \in Message /\ loopAt \in MessageKinds
        /\ UNCHANGED <<radioVars, raw, loopAt, readVars, host, ingested>>
    BY <1>1 DEF QueueDecoded, QueueTypes
  <1>3. ASSUME NEW k \in MessageKinds
        PROVE  /\ UNCHANGED <<host[k], Answered(k), raw[k], ingested[k]>> /\ Queued(k)' = Queued(k)
               /\ Deciding(k)' = <<>> /\ Segment(Deciding(k)', Deciding(k))
    <2>1. Deciding(k) \in Seq(Message)
      BY <1>1, StationsAre DEF StationTypes
    <2>2. Deciding(k)' = <<>>
      BY <1>2 DEF Deciding
    <2>. QED
      BY <1>2, <2>1, <2>2, RadioStays, Segments DEF Answered, readVars
  <1>4. CASE ~(decoding.clean /\ decoding.kind = loopAt)
    <2>1. decoded' = decoded
      BY <1>4 DEF QueueDecoded
    <2>2. UATTypes'
      BY <1>1, <1>2, <2>1, RadioStays DEF UATTypes, QueueTypes, ReadTypes, readVars
    <2>3. ASSUME NEW k \in MessageKinds PROVE Line(k)'
      <3>1. StationTypes(k) /\ Line(k)
        BY <1>1, StationsAre DEF UATInv
      <3>2. /\ Segment(host'[k], host[k]) /\ Segment(Answered(k)', Answered(k)) /\ Segment(decoded'[k], decoded[k])
            /\ Segment(raw'[k], raw[k]) /\ Queued(k) <= Queued(k)'
        <4>1. /\ Segment(host[k], host[k]) /\ Segment(Answered(k), Answered(k))
              /\ Segment(decoded[k], decoded[k]) /\ Segment(raw[k], raw[k])
          BY <3>1, Segments DEF StationTypes
        <4>2. Queued(k) <= Queued(k)'
          BY <1>3, <3>1 DEF StationTypes
        <4>. QED
          BY <1>3, <2>1, <4>1, <4>2
      <3>. QED
        BY <1>1, <1>3, <2>2, <3>1, <3>2, LineShrinks
    <2>. QED
      BY <1>2, <2>2, <2>3, RadioStays DEF UATInv
  <1>5. CASE decoding.clean /\ decoding.kind = loopAt
    <2>1. decoded' = [decoded EXCEPT ![loopAt] = Overwriting(@, DecodedLen[loopAt], decoding)]
      BY <1>5 DEF QueueDecoded
    <2>2. /\ decoded[loopAt] \in Seq(Message) /\ Len(decoded[loopAt]) <= DecodedLen[loopAt]
          /\ DecodedLen[loopAt] \in Nat \ {0}
      BY <1>1, <1>2, LengthsAre DEF QueueTypes
    <2>3. PICK kept \in Seq(Message) :
             /\ Segment(kept, decoded[loopAt])
             /\ Overwriting(decoded[loopAt], DecodedLen[loopAt], decoding) = kept \o <<decoding>>
             /\ Overwriting(decoded[loopAt], DecodedLen[loopAt], decoding) \in Seq(Message)
             /\ Len(Overwriting(decoded[loopAt], DecodedLen[loopAt], decoding)) <= DecodedLen[loopAt]
      BY <1>2, <2>2, OverwritingIs
    <2>4. UATTypes'
      <3>1. /\ decoded' \in [MessageKinds -> Seq(Message)]
            /\ \A k \in MessageKinds : Len(decoded'[k]) <= DecodedLen[k]
        BY <1>1, <1>2, <2>1, <2>3 DEF QueueTypes
      <3>. QED
        BY <1>1, <1>2, <3>1, RadioStays DEF UATTypes, QueueTypes, ReadTypes, readVars
    <2>5. ASSUME NEW k \in MessageKinds PROVE Line(k)'
      <3>0. StationTypes(k) /\ Line(k)
        BY <1>1, StationsAre DEF UATInv
      <3>1. CASE k # loopAt
        <4>1. decoded'[k] = decoded[k]
          BY <1>1, <2>1, <3>1 DEF QueueTypes
        <4>2. UNCHANGED <<host[k], Answered(k), decoded[k], Deciding(k), raw[k], ingested[k]>>
          BY <1>2, <1>3, <3>1, <4>1 DEF Deciding
        <4>. QED
          BY <1>1, <1>2, <2>4, <3>0, <4>2, RadioStays, LineStays
      <3>2. CASE k = loopAt
        <4>1. /\ decoded'[k] = kept \o <<decoding>> /\ Deciding(k) = <<decoding>>
              /\ <<decoding>> \in Seq(Message) /\ kept \in Seq(Message) /\ Segment(kept, decoded[k])
              /\ host[k] \in Seq(Message) /\ Answered(k) \in Seq(Message) /\ raw[k] \in Seq(Message)
              /\ decoded[k] \in Seq(Message)
          BY <1>1, <1>2, <2>1, <2>3, <3>0, <3>2, SingleIs DEF QueueTypes, Deciding, StationTypes
        <4>2. Chain(host[k], Answered(k), decoded'[k], <<>>, raw[k])
          <5>1. /\ Rising(kept) /\ Below(host[k], kept) /\ Below(Answered(k), kept)
                /\ Below(kept, <<decoding>>) /\ Below(kept, raw[k])
            <6>1. /\ Rising(decoded[k]) /\ Below(host[k], decoded[k]) /\ Below(Answered(k), decoded[k])
                  /\ Below(decoded[k], <<decoding>>) /\ Below(decoded[k], raw[k])
              BY <3>0, <4>1 DEF Line, Chain
            <6>. QED
              BY <4>1, <6>1, SegmentKeeps
          <5>2. /\ Rising(<<decoding>>) /\ Below(host[k], <<decoding>>) /\ Below(Answered(k), <<decoding>>)
                /\ Below(<<decoding>>, raw[k])
            BY <3>0, <4>1 DEF Line, Chain
          <5>3. Rising(kept \o <<decoding>>)
            BY <4>1, <5>1, <5>2, Joined
          <5>4. Below(host[k], kept \o <<decoding>>) /\ Below(Answered(k), kept \o <<decoding>>)
            BY <4>1, <5>1, <5>2, JoinedAbove
          <5>5. Below(kept \o <<decoding>>, raw[k])
            BY <4>1, <5>1, <5>2, JoinedBelow
          <5>. QED
            BY <3>0, <4>1, <5>3, <5>4, <5>5, NothingIs DEF Line, Chain
        <4>3. Inside(host[k], Answered(k), decoded'[k], <<>>, raw[k], k, ingested[k], Queued(k))
          <5>1. Within(kept, k, ingested[k], Queued(k)) /\ Clean(kept)
            BY <3>0, <4>1, SegmentKeeps DEF Line, Inside
          <5>2. Within(<<decoding>>, k, ingested[k], Queued(k)) /\ Clean(<<decoding>>)
            BY <1>2, <1>5, <3>0, <4>1, SingleIs DEF Line, Inside
          <5>3. Within(kept \o <<decoding>>, k, ingested[k], Queued(k)) /\ Clean(kept \o <<decoding>>)
            BY <4>1, <5>1, <5>2, JoinedWithin, Joined
          <5>. QED
            BY <3>0, <4>1, <5>3, NothingIs DEF Line, Inside
        <4>. QED
          BY <1>3, <3>0, <4>2, <4>3 DEF Line
      <3>. QED
        BY <3>1, <3>2
    <2>. QED
      BY <1>2, <2>4, <2>5, RadioStays DEF UATInv
  <1>. QED
    BY <1>4, <1>5

LEMMA UpdateRadioKeeps ==
  ASSUME UATInv, UpdateRadio
  PROVE  UATInv'
  <1>1. UATTypes /\ RadioTypes /\ QueueTypes /\ ReadTypes /\ Reception
    BY DEF UATInv, UATTypes
  <1>2. /\ events = {} /\ loopAt = "radio" /\ loopAt' = "adsb"
        /\ rfCore' = IF rfCore = "off" THEN "listening" ELSE rfCore
        /\ UNCHANGED <<heard, entry, events, current_packet_len_bytes, rxLen, raw, decoding,
                       decoded, readVars, host, ingested>>
    BY DEF UpdateRadio
  <1>3. Fresh' <=> Fresh
    BY <1>2 DEF Fresh
  <1>4. decoding = NoMessage
    BY <1>1, <1>2 DEF QueueTypes, MessageKinds
  <1>5. UATTypes'
    <2>1. "adsb" \in MessageKinds
      BY KindsAre
    <2>. QED
      BY <1>1, <1>2, <1>4, <2>1 DEF UATTypes, RadioTypes, QueueTypes, ReadTypes, readVars
  <1>6. Reception'
    BY <1>1, <1>2, <1>3 DEF Reception, LengthsOf
  <1>7. ASSUME NEW k \in MessageKinds PROVE Line(k)'
    <2>1. UNCHANGED <<host[k], Answered(k), decoded[k], Deciding(k), raw[k], ingested[k]>>
      BY <1>2, <1>4 DEF Answered, Deciding, readVars
    <2>2. Queued(k)' = Queued(k) /\ Queued(k) \in Int
      BY <1>1, <1>2, <1>3, StationsAre DEF Queued, StationTypes
    <2>. QED
      BY <1>1, <1>5, <2>1, <2>2, LineStays DEF UATInv
  <1>. QED
    BY <1>5, <1>6, <1>7 DEF UATInv

-----------------------------------------------------------------------------
(* CC1312::Update, and the callback that answers it.                       *)

LEMMA ReadStatusKeeps ==
  ASSUME UATInv, ReadStatus
  PROVE  UATInv'
  <1>1. UATTypes /\ RadioTypes /\ QueueTypes /\ ReadTypes /\ Reception
    BY DEF UATInv, UATTypes
  <1>2. UNCHANGED <<radioVars, raw, loopVars, decoded, response, host, ingested>>
    BY DEF ReadStatus
  <1>3. ReadTypes'
    <2>1. response = NoResponse
      BY <1>1 DEF ReadStatus, ReadTypes
    <2>2. Len(decoded["adsb"]) * PacketSize["adsb"] + Len(decoded["uplink"]) * PacketSize["uplink"] \in Nat
      <3>1. /\ Len(decoded["adsb"]) \in Nat /\ PacketSize["adsb"] \in Nat
            /\ Len(decoded["uplink"]) \in Nat /\ PacketSize["uplink"] \in Nat
        BY <1>1, KindsAre, LengthsAre, LenProperties DEF QueueTypes
      <3>2. \A x, y, z, w \in Nat : x * y + z * w \in Nat
        OBVIOUS
      <3>. QED
        BY <3>1, <3>2, Zenon
    <2>3. CASE reading' = "failed" /\ UNCHANGED <<pendingLen, attemptsLeft>>
      BY <1>1, <1>2, <2>1, <2>3 DEF ReadTypes
    <2>4. CASE /\ reading' = "yes" /\ attemptsLeft' = ReadAttempts
               /\ pendingLen' = Len(decoded["adsb"]) * PacketSize["adsb"]
                                   + Len(decoded["uplink"]) * PacketSize["uplink"]
      <3>1. attemptsLeft' \in 0 .. ReadAttempts /\ attemptsLeft' > 0
        BY <2>4, UATAssumption
      <3>2. pendingLen' \in Nat
        BY <2>2, <2>4, Zenon
      <3>. QED
        BY <1>1, <1>2, <2>1, <2>4, <3>1, <3>2 DEF ReadTypes
    <2>. QED
      BY <2>3, <2>4 DEF ReadStatus
  <1>4. UATTypes'
    BY <1>1, <1>2, <1>3, RadioStays DEF UATTypes, QueueTypes, loopVars
  <1>5. ASSUME NEW k \in MessageKinds PROVE Line(k)'
    <2>1. UNCHANGED <<host[k], Answered(k), decoded[k], Deciding(k), raw[k], ingested[k]>>
      BY <1>2 DEF Answered, Deciding, loopVars
    <2>. QED
      BY <1>1, <1>2, <1>4, <2>1, RadioStays, LineStays DEF UATInv
  <1>. QED
    BY <1>2, <1>4, <1>5, RadioStays DEF UATInv

\* No more is packed than there is, and than the status has told of.
LEMMA PackableIs ==
  ASSUME UATTypes, NEW k \in MessageKinds
  PROVE  Packable(k) \in 0 .. Len(decoded[k])
  <1>1. /\ pendingLen \in Nat /\ PacketSize["adsb"] \in Nat \ {0} /\ PacketSize["uplink"] \in Nat \ {0}
        /\ Len(decoded["adsb"]) \in Nat /\ Len(decoded["uplink"]) \in Nat
    BY KindsAre, LengthsAre, LenProperties DEF UATTypes, QueueTypes, ReadTypes
  <1>2. \A a \in Nat, b \in Nat \ {0} : a \div b \in Nat /\ (a \div b) * b <= a
    BY Z3
  <1> DEFINE adsb == Smallest(Len(decoded["adsb"]), pendingLen \div PacketSize["adsb"])
  <1>3. adsb \in Nat /\ adsb <= Len(decoded["adsb"]) /\ adsb <= pendingLen \div PacketSize["adsb"]
        /\ pendingLen \div PacketSize["adsb"] \in Nat
    BY <1>1, <1>2 DEF Smallest
  <1>4. pendingLen - adsb * PacketSize["adsb"] \in Nat
    <2>1. \A a \in Nat, b \in Nat, c \in Nat : a <= b => a * c <= b * c
      BY Z3
    <2>2. adsb * PacketSize["adsb"] <= (pendingLen \div PacketSize["adsb"]) * PacketSize["adsb"]
      BY <1>1, <1>3, <2>1
    <2>3. (pendingLen \div PacketSize["adsb"]) * PacketSize["adsb"] <= pendingLen
      BY <1>1, <1>2
    <2>4. \A x, y \in Int : x * y \in Int
      OBVIOUS
    <2>5. /\ adsb * PacketSize["adsb"] \in Int
          /\ (pendingLen \div PacketSize["adsb"]) * PacketSize["adsb"] \in Int
      BY <1>1, <1>3, <2>4
    <2> HIDE DEF adsb
    <2>. QED
      BY <1>1, <2>2, <2>3, <2>5
  <1>5. (pendingLen - adsb * PacketSize["adsb"]) \div PacketSize["uplink"] \in Nat
    BY <1>1, <1>2, <1>4
  <1>6. CASE k = "adsb"
    <2>1. Packable(k) = adsb
      BY <1>6 DEF Packable
    <2>. QED
      BY <1>1, <1>3, <1>6, <2>1
  <1>7. CASE k = "uplink"
    <2>1. Packable(k) = Smallest(Len(decoded["uplink"]),
                                 (pendingLen - adsb * PacketSize["adsb"]) \div PacketSize["uplink"])
      BY <1>7 DEF Packable
    <2>. QED
      BY <1>1, <1>5, <1>7, <2>1 DEF Smallest
  <1>. QED
    BY <1>6, <1>7 DEF MessageKinds

LEMMA GetRawPacketsKeeps ==
  ASSUME UATInv, GetRawPackets
  PROVE  UATInv'
  <1>1. UATTypes /\ RadioTypes /\ QueueTypes /\ ReadTypes /\ Reception
    BY DEF UATInv, UATTypes
  <1>2. /\ reading = "yes" /\ response = NoResponse
        /\ response' = [k \in MessageKinds |-> Prefix(decoded[k], Packable(k))]
        /\ decoded' = [k \in MessageKinds |-> Beyond(decoded[k], Packable(k))]
        /\ UNCHANGED <<radioVars, raw, loopVars, reading, pendingLen, attemptsLeft, host, ingested>>
    BY DEF GetRawPackets
  <1>3. ASSUME NEW k \in MessageKinds
        PROVE  /\ decoded[k] \in Seq(Message)
               /\ Prefix(decoded[k], Packable(k)) \in Seq(Message)
               /\ Beyond(decoded[k], Packable(k)) \in Seq(Message)
               /\ Len(Beyond(decoded[k], Packable(k))) <= DecodedLen[k]
               /\ Segment(Prefix(decoded[k], Packable(k)), decoded[k])
               /\ Segment(Beyond(decoded[k], Packable(k)), decoded[k])
               /\ Rising(decoded[k]) => Below(Prefix(decoded[k], Packable(k)), Beyond(decoded[k], Packable(k)))
    <2>1. /\ decoded[k] \in Seq(Message) /\ Len(decoded[k]) <= DecodedLen[k] /\ DecodedLen[k] \in Nat
          /\ Len(decoded[k]) \in Nat
      BY <1>1, LengthsAre, LenProperties DEF QueueTypes
    <2> DEFINE n == Packable(k)
    <2>2. n \in 0 .. Len(decoded[k])
      BY <1>1, PackableIs
    <2> HIDE DEF n
    <2>3. /\ Prefix(decoded[k], n) \in Seq(Message) /\ Segment(Prefix(decoded[k], n), decoded[k])
          /\ Beyond(decoded[k], n) \in Seq(Message) /\ Len(Beyond(decoded[k], n)) = Len(decoded[k]) - n
          /\ Segment(Beyond(decoded[k], n), decoded[k])
          /\ Rising(decoded[k]) => Below(Prefix(decoded[k], n), Beyond(decoded[k], n))
      BY <2>1, <2>2, PrefixIs
    <2>4. Len(Beyond(decoded[k], n)) <= DecodedLen[k]
      BY <2>1, <2>2, <2>3
    <2>. QED
      BY <2>1, <2>3, <2>4 DEF n
  <1>4. UATTypes'
    <2>1. ReadTypes'
      BY <1>1, <1>2, <1>3 DEF ReadTypes
    <2>2. QueueTypes'
      BY <1>1, <1>2, <1>3 DEF QueueTypes, loopVars
    <2>. QED
      BY <1>2, <2>1, <2>2, RadioStays DEF UATTypes
  <1>5. ASSUME NEW k \in MessageKinds PROVE Line(k)'
    <2> DEFINE p == Prefix(decoded[k], Packable(k))
               b == Beyond(decoded[k], Packable(k))
    <2>1. StationTypes(k) /\ Line(k)
      BY <1>1, StationsAre DEF UATInv
    <2>2. /\ UNCHANGED <<host[k], Deciding(k), raw[k], ingested[k]>> /\ Queued(k)' = Queued(k)
          /\ decoded'[k] = b /\ Answered(k)' \in {p, <<>>}
      BY <1>2, RadioStays DEF Deciding, Answered, loopVars
    <2>3. /\ p \in Seq(Message) /\ b \in Seq(Message) /\ Segment(p, decoded[k]) /\ Segment(b, decoded[k])
          /\ (Rising(decoded[k]) => Below(p, b)) /\ decoded[k] \in Seq(Message)
          /\ host[k] \in Seq(Message) /\ Deciding(k) \in Seq(Message) /\ raw[k] \in Seq(Message)
      BY <1>3, <2>1 DEF StationTypes
    <2> HIDE DEF p, b
    <2>4. Chain(host[k], p, b, Deciding(k), raw[k])
      <3>1. /\ Rising(decoded[k]) /\ Below(host[k], decoded[k]) /\ Below(decoded[k], Deciding(k))
            /\ Below(decoded[k], raw[k])
        BY <2>1 DEF Line, Chain
      <3>2. Rising(p) /\ Below(host[k], p) /\ Below(p, Deciding(k)) /\ Below(p, raw[k])
        BY <2>3, <3>1, SegmentKeeps
      <3>3. Rising(b) /\ Below(host[k], b) /\ Below(b, Deciding(k)) /\ Below(b, raw[k])
        BY <2>3, <3>1, SegmentKeeps
      <3>. QED
        BY <2>1, <2>3, <3>1, <3>2, <3>3 DEF Line, Chain
    <2>5. Inside(host[k], p, b, Deciding(k), raw[k], k, ingested[k], Queued(k))
      <3>1. Within(decoded[k], k, ingested[k], Queued(k)) /\ Clean(decoded[k])
        BY <2>1 DEF Line, Inside
      <3>2. Within(p, k, ingested[k], Queued(k)) /\ Clean(p)
        BY <2>3, <3>1, SegmentKeeps
      <3>3. Within(b, k, ingested[k], Queued(k)) /\ Clean(b)
        BY <2>3, <3>1, SegmentKeeps
      <3>. QED
        BY <2>1, <3>2, <3>3 DEF Line, Inside
    <2>6. Chain(host[k], <<>>, b, Deciding(k), raw[k])
      BY <2>4, NothingIs DEF Chain
    <2>7. Inside(host[k], <<>>, b, Deciding(k), raw[k], k, ingested[k], Queued(k))
      BY <2>5, NothingIs DEF Inside
    <2>. QED
      BY <2>1, <2>2, <2>4, <2>5, <2>6, <2>7 DEF Line
  <1>. QED
    BY <1>2, <1>4, <1>5, RadioStays DEF UATInv

LEMMA AttemptLostKeeps ==
  ASSUME UATInv, AttemptLost
  PROVE  UATInv'
  <1>1. UATTypes /\ RadioTypes /\ QueueTypes /\ ReadTypes /\ Reception
    BY DEF UATInv, UATTypes
  <1>2. /\ reading = "yes" /\ response' = NoResponse /\ attemptsLeft' = attemptsLeft - 1
        /\ reading' = IF attemptsLeft' = 0 THEN "failed" ELSE "yes"
        /\ UNCHANGED <<radioVars, raw, loopVars, decoded, pendingLen, host, ingested>>
    BY DEF AttemptLost
  <1>3. ReadTypes'
    <2>1. attemptsLeft' \in 0 .. ReadAttempts /\ (reading' = "yes" => attemptsLeft' > 0)
      BY <1>1, <1>2, UATAssumption DEF ReadTypes
    <2>. QED
      BY <1>1, <1>2, <2>1 DEF ReadTypes
  <1>4. UATTypes'
    BY <1>1, <1>2, <1>3, RadioStays DEF UATTypes, QueueTypes, loopVars
  <1>5. ASSUME NEW k \in MessageKinds PROVE Line(k)'
    <2>1. StationTypes(k) /\ Line(k)
      BY <1>1, StationsAre DEF UATInv
    <2>2. Answered(k)' = <<>> /\ UNCHANGED <<host[k], decoded[k], Deciding(k), raw[k], ingested[k]>>
      BY <1>2 DEF Answered, Deciding, loopVars
    <2>3. /\ Segment(host[k], host[k]) /\ Segment(<<>>, Answered(k)) /\ Segment(decoded[k], decoded[k])
          /\ Segment(Deciding(k), Deciding(k)) /\ Segment(raw[k], raw[k])
      BY <2>1, Segments DEF StationTypes
    <2>4. Queued(k) <= Queued(k)'
      BY <1>2, RadioStays
    <2>. QED
      BY <1>1, <1>4, <2>1, <2>2, <2>3, <2>4, LineShrinks
  <1>. QED
    BY <1>2, <1>4, <1>5, RadioStays DEF UATInv

\* The host has room for what is unpacked.
LEMMA UnpackedIs ==
  ASSUME UATTypes, response # NoResponse, NEW k \in MessageKinds
  PROVE  /\ Unpacked(k) \in 0 .. Len(response[k]) /\ Unpacked(k) + Len(host[k]) <= HostLen[k]
         /\ response[k] \in Seq(Message) /\ host[k] \in Seq(Message)
  <1>1. /\ response[k] \in Seq(Message) /\ host[k] \in Seq(Message) /\ Len(host[k]) <= HostLen[k]
    BY DEF UATTypes, QueueTypes, ReadTypes
  <1>2. Len(response[k]) \in Nat /\ Len(host[k]) \in Nat /\ HostLen[k] \in Nat
    BY <1>1, LengthsAre, LenProperties
  <1>3. \A a, b, c \in Nat : b <= c =>
           /\ Smallest(a, c - b) \in 0 .. a /\ Smallest(a, c - b) + b <= c
           /\ 0 \in 0 .. a /\ 0 + b <= c
    BY DEF Smallest
  <1>4. Unpacked(k) \in {0, Smallest(Len(response[k]), HostLen[k] - Len(host[k]))}
    BY DEF Unpacked, HostRoom
  <1>5. CASE Unpacked(k) = 0
    BY <1>1, <1>2, <1>3, <1>5, Zenon
  <1>6. CASE Unpacked(k) = Smallest(Len(response[k]), HostLen[k] - Len(host[k]))
    BY <1>1, <1>2, <1>3, <1>6, Zenon
  <1>. QED
    BY <1>4, <1>5, <1>6

LEMMA UnpackResponseKeeps ==
  ASSUME UATInv, UnpackResponse
  PROVE  UATInv'
  <1>1. UATTypes /\ RadioTypes /\ QueueTypes /\ ReadTypes /\ Reception
    BY DEF UATInv, UATTypes
  <1>2. /\ response # NoResponse /\ response' = NoResponse /\ reading' \in {"no", "failed"}
        /\ host' = [k \in MessageKinds |-> host[k] \o Prefix(response[k], Unpacked(k))]
        /\ UNCHANGED <<radioVars, raw, loopVars, decoded, pendingLen, attemptsLeft, ingested>>
    BY DEF UnpackResponse
  <1>3. ASSUME NEW k \in MessageKinds
        PROVE  /\ host[k] \in Seq(Message) /\ response[k] \in Seq(Message)
               /\ Prefix(response[k], Unpacked(k)) \in Seq(Message)
               /\ Segment(Prefix(response[k], Unpacked(k)), response[k])
               /\ host'[k] = host[k] \o Prefix(response[k], Unpacked(k))
               /\ host'[k] \in Seq(Message) /\ Len(host'[k]) <= HostLen[k]
    <2> DEFINE n == Unpacked(k)
               p == Prefix(response[k], n)
    <2>1. /\ n \in 0 .. Len(response[k]) /\ n + Len(host[k]) <= HostLen[k]
          /\ response[k] \in Seq(Message) /\ host[k] \in Seq(Message)
      BY <1>1, <1>2, UnpackedIs
    <2>2. host'[k] = host[k] \o p
      BY <1>2
    <2> HIDE DEF n
    <2>3. p \in Seq(Message) /\ Len(p) = n /\ Segment(p, response[k])
      BY <2>1, PrefixIs
    <2> HIDE DEF p
    <2>4. host[k] \o p \in Seq(Message) /\ Len(host[k] \o p) = Len(host[k]) + Len(p)
      BY <2>1, <2>3, Joined
    <2>5. Len(host[k] \o p) <= HostLen[k]
      <3>1. Len(host[k] \o p) = Len(host[k]) + n
        BY <2>3, <2>4, Zenon
      <3>2. Len(host[k]) \in Nat /\ n \in Int /\ HostLen[k] \in Nat
        BY <2>1, LenProperties, LengthsAre
      <3>3. Len(host[k]) + n <= HostLen[k]
        BY <2>1, <3>2
      <3>. QED
        BY <3>1, <3>3, Zenon
    <2>. QED
      BY <2>1, <2>2, <2>3, <2>4, <2>5 DEF p, n
  <1>4. UATTypes'
    <2>1. ReadTypes'
      BY <1>1, <1>2 DEF ReadTypes
    <2>2. host' \in [MessageKinds -> Seq(Message)]
      <3>1. host' = [k \in MessageKinds |-> host'[k]]
        BY <1>2
      <3>. QED
        BY <1>3, <3>1
    <2>3. QueueTypes'
      BY <1>1, <1>2, <1>3, <2>2 DEF QueueTypes, loopVars
    <2>. QED
      BY <1>2, <2>1, <2>3, RadioStays DEF UATTypes
  <1>5. ASSUME NEW k \in MessageKinds PROVE Line(k)'
    <2> DEFINE p == Prefix(response[k], Unpacked(k))
    <2>1. StationTypes(k) /\ Line(k)
      BY <1>1, StationsAre DEF UATInv
    <2>2. /\ UNCHANGED <<decoded[k], Deciding(k), raw[k], ingested[k]>> /\ Queued(k)' = Queued(k)
          /\ Answered(k) = response[k] /\ Answered(k)' = <<>>
      BY <1>2, RadioStays DEF Deciding, Answered, loopVars
    <2>3. /\ p \in Seq(Message) /\ Segment(p, response[k]) /\ host'[k] = host[k] \o p
          /\ host[k] \in Seq(Message) /\ response[k] \in Seq(Message)
          /\ decoded[k] \in Seq(Message) /\ Deciding(k) \in Seq(Message) /\ raw[k] \in Seq(Message)
      BY <1>3, <2>1 DEF StationTypes
    <2> HIDE DEF p
    <2>4. Chain(host[k] \o p, <<>>, decoded[k], Deciding(k), raw[k])
      <3>1. /\ Rising(response[k]) /\ Below(host[k], response[k]) /\ Below(response[k], decoded[k])
            /\ Below(response[k], Deciding(k)) /\ Below(response[k], raw[k])
        BY <2>1, <2>2 DEF Line, Chain
      <3>2. /\ Rising(p) /\ Below(host[k], p) /\ Below(p, decoded[k])
            /\ Below(p, Deciding(k)) /\ Below(p, raw[k])
        BY <2>3, <3>1, SegmentKeeps
      <3>3. /\ Rising(host[k]) /\ Below(host[k], decoded[k]) /\ Below(host[k], Deciding(k))
            /\ Below(host[k], raw[k])
        BY <2>1 DEF Line, Chain
      <3>4. Rising(host[k] \o p)
        BY <2>3, <3>2, <3>3, Joined
      <3>5. /\ Below(host[k] \o p, decoded[k]) /\ Below(host[k] \o p, Deciding(k))
            /\ Below(host[k] \o p, raw[k])
        BY <2>3, <3>2, <3>3, JoinedBelow
      <3>. QED
        BY <2>1, <3>4, <3>5, NothingIs DEF Line, Chain
    <2>5. Inside(host[k] \o p, <<>>, decoded[k], Deciding(k), raw[k], k, ingested[k], Queued(k))
      <3>1. /\ Within(response[k], k, ingested[k], Queued(k)) /\ Clean(response[k])
            /\ Within(host[k], k, ingested[k], Queued(k)) /\ Clean(host[k])
        BY <2>1, <2>2 DEF Line, Inside
      <3>2. Within(p, k, ingested[k], Queued(k)) /\ Clean(p)
        BY <2>3, <3>1, SegmentKeeps
      <3>3. Within(host[k] \o p, k, ingested[k], Queued(k))
        BY <2>3, <3>1, <3>2, JoinedWithin
      <3>4. Clean(host[k] \o p)
        BY <2>3, <3>1, <3>2, Joined
      <3>. QED
        BY <2>1, <3>3, <3>4, NothingIs DEF Line, Inside
    <2>. QED
      BY <2>1, <2>2, <2>3, <2>4, <2>5 DEF Line
  <1>. QED
    BY <1>2, <1>4, <1>5, RadioStays DEF UATInv

\* What was above the messages ingested is above the last of them.
LEMMA AboveTheLast ==
  ASSUME NEW s \in Seq(Message), s # <<>>, Clean(s), NEW x \in Seq(Message), Below(s, x),
         NEW k, NEW from \in Int, NEW to \in Int, Within(x, k, from, to)
  PROVE  Within(x, k, s[Len(s)].number, to)
  <1>1. Len(s) \in DOMAIN s
    BY EmptySeq, LenProperties
  <1>2. s[Len(s)].clean
    BY <1>1 DEF Clean
  <1>. QED
    BY <1>1, <1>2 DEF Within, Below

LEMMA IngestHostKeeps ==
  ASSUME UATInv, IngestHost
  PROVE  UATInv'
  <1>1. UATTypes /\ RadioTypes /\ QueueTypes /\ ReadTypes /\ Reception
    BY DEF UATInv, UATTypes
  <1>2. /\ reading # "yes" /\ host' = EmptyQueues
        /\ ingested' = [k \in MessageKinds |->
                           IF host[k] = <<>> THEN ingested[k] ELSE host[k][Len(host[k])].number]
        /\ UNCHANGED <<radioVars, raw, loopVars, decoded, readVars>>
    BY DEF IngestHost
  <1>3. ASSUME NEW k \in MessageKinds, host[k] # <<>>
        PROVE  /\ ingested'[k] = host[k][Len(host[k])].number /\ ingested'[k] \in Nat
               /\ ingested'[k] <= Queued(k)
    <2>1. Line(k) /\ StationTypes(k)
      BY <1>1, StationsAre DEF UATInv
    <2>2. Len(host[k]) \in DOMAIN host[k] /\ host[k][Len(host[k])] \in Message
      BY <1>3, <2>1, EmptySeq, LenProperties, ElementOfSeq DEF StationTypes
    <2>3. host[k][Len(host[k])].clean
      BY <2>1, <2>2 DEF Line, Inside, Clean
    <2>4. host[k][Len(host[k])].number <= Queued(k)
      BY <2>1, <2>2, <2>3 DEF Line, Inside, Within
    <2>. QED
      BY <1>2, <1>3, <2>2, <2>4 DEF Message
  <1>4. UATTypes'
    <2>1. ReadTypes'
      BY <1>1, <1>2 DEF ReadTypes, readVars
    <2>2. ingested' \in [MessageKinds -> Nat]
      <3>1. ASSUME NEW k \in MessageKinds PROVE ingested'[k] \in Nat
        BY <1>1, <1>2, <1>3 DEF QueueTypes
      <3>2. ingested' = [k \in MessageKinds |-> ingested'[k]]
        BY <1>2
      <3>. QED
        BY <3>1, <3>2
    <2>3. host' \in [MessageKinds -> Seq(Message)] /\ \A k \in MessageKinds : Len(host'[k]) <= HostLen[k]
      BY <1>2, NothingIs, LengthsAre DEF EmptyQueues
    <2>4. QueueTypes'
      BY <1>1, <1>2, <2>2, <2>3 DEF QueueTypes, loopVars
    <2>. QED
      BY <1>2, <2>1, <2>4, RadioStays DEF UATTypes
  <1>5. ASSUME NEW k \in MessageKinds PROVE Line(k)'
    <2>1. StationTypes(k) /\ Line(k)
      BY <1>1, StationsAre DEF UATInv
    <2>2. /\ UNCHANGED <<decoded[k], Deciding(k), raw[k]>> /\ Queued(k)' = Queued(k)
          /\ Answered(k) = <<>> /\ Answered(k)' = <<>> /\ host'[k] = <<>>
      BY <1>1, <1>2, RadioStays DEF Deciding, Answered, loopVars, readVars, ReadTypes, EmptyQueues
    <2>3. /\ decoded[k] \in Seq(Message) /\ Deciding(k) \in Seq(Message) /\ raw[k] \in Seq(Message)
          /\ host[k] \in Seq(Message) /\ ingested[k] \in Nat /\ Queued(k) \in Int
      BY <2>1 DEF StationTypes
    <2>4. Chain(<<>>, <<>>, decoded[k], Deciding(k), raw[k])
      BY <2>1, NothingIs DEF Line, Chain
    <2>5. /\ Within(decoded[k], k, ingested'[k], Queued(k)) /\ Within(Deciding(k), k, ingested'[k], Queued(k))
          /\ Within(raw[k], k, ingested'[k], Queued(k)) /\ ingested'[k] <= Queued(k)
      <3>1. /\ Within(decoded[k], k, ingested[k], Queued(k)) /\ Within(Deciding(k), k, ingested[k], Queued(k))
            /\ Within(raw[k], k, ingested[k], Queued(k)) /\ ingested[k] <= Queued(k)
        BY <2>1 DEF Line, Inside
      <3>2. CASE host[k] = <<>>
        BY <1>2, <3>1, <3>2
      <3>3. CASE host[k] # <<>>
        <4>1. /\ Below(host[k], decoded[k]) /\ Below(host[k], Deciding(k)) /\ Below(host[k], raw[k])
              /\ Clean(host[k])
          BY <2>1 DEF Line, Chain, Inside
        <4>2. /\ Within(decoded[k], k, host[k][Len(host[k])].number, Queued(k))
              /\ Within(Deciding(k), k, host[k][Len(host[k])].number, Queued(k))
              /\ Within(raw[k], k, host[k][Len(host[k])].number, Queued(k))
          BY <2>3, <3>1, <3>3, <4>1, AboveTheLast
        <4>. QED
          BY <1>3, <3>3, <4>2
      <3>. QED
        BY <3>2, <3>3
    <2>6. Inside(<<>>, <<>>, decoded[k], Deciding(k), raw[k], k, ingested'[k], Queued(k))
      BY <2>1, <2>5, NothingIs DEF Line, Inside
    <2>. QED
      BY <2>2, <2>4, <2>5, <2>6 DEF Line
  <1>. QED
    BY <1>2, <1>4, <1>5, RadioStays DEF UATInv

LEMMA RebootSubGKeeps ==
  ASSUME UATInv, RebootSubG
  PROVE  UATInv'
  <1>1. UATTypes /\ RadioTypes /\ QueueTypes /\ ReadTypes /\ Reception
    BY DEF UATInv, UATTypes
  <1>2. /\ reading = "failed"
        /\ rfCore' = "off" /\ entry' = NoMessage /\ events' = {}
        /\ current_packet_len_bytes' = "unset" /\ rxLen' = FALSE
        /\ raw' = EmptyQueues /\ loopAt' = "adsb" /\ decoding' = NoMessage
        /\ decoded' = EmptyQueues /\ reading' = "no"
        /\ UNCHANGED <<heard, pendingLen, attemptsLeft, response, host, ingested>>
    BY DEF RebootSubG
  <1>3. response = NoResponse /\ ~Fresh'
    BY <1>1, <1>2 DEF ReadTypes, Fresh
  <1>4. /\ EmptyQueues \in [MessageKinds -> Seq(Message)]
        /\ \A k \in MessageKinds : EmptyQueues[k] = <<>> /\ Len(EmptyQueues[k]) = 0
    BY NothingIs DEF EmptyQueues
  <1>5. RadioTypes'
    BY <1>1, <1>2 DEF RadioTypes
  <1>6. QueueTypes'
    <2>1. \A k \in MessageKinds : 0 <= RawLen[k] /\ 0 <= DecodedLen[k]
      BY LengthsAre
    <2>2. /\ raw' \in [MessageKinds -> Seq(Message)] /\ decoded' \in [MessageKinds -> Seq(Message)]
          /\ \A k \in MessageKinds : Len(raw'[k]) <= RawLen[k] /\ Len(decoded'[k]) <= DecodedLen[k]
      BY <1>2, <1>4, <2>1
    <2>. QED
      BY <1>1, <1>2, <2>2, KindsAre DEF QueueTypes
  <1>7. ReadTypes'
    BY <1>1, <1>2, <1>3 DEF ReadTypes
  <1>8. UATTypes'
    BY <1>5, <1>6, <1>7 DEF UATTypes
  <1>9. Reception'
    BY <1>2, <1>3 DEF Reception
  <1>10. ASSUME NEW k \in MessageKinds PROVE Line(k)'
    <2>1. StationTypes(k) /\ Line(k)
      BY <1>1, StationsAre DEF UATInv
    <2>2. /\ Answered(k)' = <<>> /\ decoded'[k] = <<>> /\ Deciding(k)' = <<>> /\ raw'[k] = <<>>
          /\ host'[k] = host[k] /\ ingested'[k] = ingested[k]
      BY <1>2, <1>3, <1>4 DEF Answered, Deciding
    <2>3. Queued(k) <= Queued(k)'
      <3>1. Queued(k)' = heard[k]
        BY <1>2, <1>3 DEF Queued
      <3>. QED
        BY <2>1, <3>1 DEF StationTypes
    <2>4. /\ Segment(host[k], host[k]) /\ Segment(<<>>, Answered(k)) /\ Segment(<<>>, decoded[k])
          /\ Segment(<<>>, Deciding(k)) /\ Segment(<<>>, raw[k])
      BY <2>1, Segments DEF StationTypes
    <2>. QED
      BY <1>1, <1>8, <2>1, <2>2, <2>3, <2>4, LineShrinks
  <1>. QED
    BY <1>8, <1>9, <1>10 DEF UATInv

-----------------------------------------------------------------------------

LEMMA UATInvInit ==
  ASSUME UATInit
  PROVE  UATInv
  <1>1. /\ EmptyQueues \in [MessageKinds -> Seq(Message)]
        /\ \A k \in MessageKinds : EmptyQueues[k] = <<>> /\ Len(EmptyQueues[k]) = 0
    BY NothingIs DEF EmptyQueues
  <1>2. ~Fresh
    BY DEF UATInit, Fresh
  <1>3. UATTypes
    <2>1. \A k \in MessageKinds : 0 <= RawLen[k] /\ 0 <= DecodedLen[k] /\ 0 <= HostLen[k] /\ 0 <= MaxMessages[k]
      BY LengthsAre
    <2>2. RadioTypes
      BY <2>1 DEF UATInit, RadioTypes
    <2>3. QueueTypes
      BY <1>1, <2>1, KindsAre DEF UATInit, QueueTypes
    <2>4. ReadTypes
      BY UATAssumption DEF UATInit, ReadTypes
    <2>. QED
      BY <2>2, <2>3, <2>4 DEF UATTypes
  <1>4. Reception
    BY <1>2 DEF UATInit, Reception
  <1>5. ASSUME NEW k \in MessageKinds PROVE Line(k)
    <2>1. /\ host[k] = <<>> /\ Answered(k) = <<>> /\ decoded[k] = <<>> /\ Deciding(k) = <<>> /\ raw[k] = <<>>
      BY <1>1 DEF UATInit, Answered, Deciding
    <2>2. ingested[k] <= Queued(k)
      BY <1>2 DEF UATInit, Queued
    <2>. QED
      BY <2>1, <2>2, NothingIs DEF Line, Chain, Inside
  <1>. QED
    BY <1>3, <1>4, <1>5 DEF UATInv

LEMMA UATInvStep ==
  ASSUME UATInv, [UATNext]_uatVars
  PROVE  UATInv'
  <1>1. CASE UNCHANGED uatVars
    <2>1. UNCHANGED <<radioVars, raw, loopVars, decoded, readVars, host, ingested>>
      BY <1>1 DEF uatVars
    <2>2. UATTypes /\ QueueTypes /\ ReadTypes
      BY DEF UATInv, UATTypes
    <2>3. UATTypes'
      BY <2>1, <2>2, RadioStays DEF UATTypes, QueueTypes, ReadTypes, loopVars, readVars
    <2>4. ASSUME NEW k \in MessageKinds PROVE Line(k)'
      <3>1. UNCHANGED <<host[k], Answered(k), decoded[k], Deciding(k), raw[k], ingested[k]>>
        BY <2>1 DEF Answered, Deciding, loopVars, readVars
      <3>. QED
        BY <2>1, <2>2, <2>3, <3>1, RadioStays, LineStays DEF UATInv
    <2>. QED
      BY <2>1, <2>3, <2>4, RadioStays DEF UATInv
  <1>2. CASE UATNext
    BY <1>2, SyncFoundKeeps, ReceptionKeeps, RFCallbackKeeps, TakeMessageKeeps, QueueDecodedKeeps,
       UpdateRadioKeeps, ReadStatusKeeps, GetRawPacketsKeeps, AttemptLostKeeps, UnpackResponseKeeps,
       IngestHostKeeps, RebootSubGKeeps DEF UATNext
  <1>. QED
    BY <1>1, <1>2

LEMMA UATInvTypes ==
  ASSUME UATInv
  PROVE  UATTypeOK
  <1>1. UATTypes /\ RadioTypes /\ QueueTypes /\ ReadTypes
    BY DEF UATInv, UATTypes
  <1>2. ASSUME NEW k \in MessageKinds
        PROVE  heard[k] \in 0 .. MaxMessages[k] /\ ingested[k] \in 0 .. heard[k]
    <2>1. StationTypes(k) /\ Line(k) /\ heard[k] <= MaxMessages[k] /\ MaxMessages[k] \in Nat
      BY <1>1, StationsAre, LengthsAre DEF UATInv, RadioTypes
    <2>. QED
      BY <2>1 DEF StationTypes, Line
  <1>. QED
    BY <1>1, <1>2 DEF UATTypeOK, RadioTypes, QueueTypes, ReadTypes

\* The five stations one behind the other.
LEMMA UATInvOrder ==
  ASSUME UATInv
  PROVE  UATInOrder
  <1> SUFFICES ASSUME NEW k \in MessageKinds
               PROVE  LET way == OnTheirWay(k)
                      IN  /\ \A i \in DOMAIN way :
                                way[i].clean =>
                                   /\ way[i].kind = k /\ way[i].number > ingested[k]
                                   /\ \A j \in 1 .. i - 1 : way[j].clean => way[j].number < way[i].number
                          /\ \A i \in DOMAIN host[k] : host[k][i].clean
    BY DEF UATInOrder
  <1> DEFINE h == host[k]
             a == Answered(k)
             d == decoded[k]
             c == Deciding(k)
             r == raw[k]
             way == h \o a \o d \o c \o r
  <1>1. OnTheirWay(k) = way
    BY DEF OnTheirWay, Answered, Deciding
  <1>2. Line(k) /\ StationTypes(k)
    BY StationsAre DEF UATInv
  <1>3. /\ h \in Seq(Message) /\ a \in Seq(Message) /\ d \in Seq(Message) /\ c \in Seq(Message)
        /\ r \in Seq(Message) /\ ingested[k] \in Nat /\ Queued(k) \in Int
    BY <1>2 DEF StationTypes
  <1>4. Chain(h, a, d, c, r) /\ Inside(h, a, d, c, r, k, ingested[k], Queued(k))
    BY <1>2 DEF Line
  <1> DEFINE from == ingested[k]
             to == Queued(k)
  <1> HIDE DEF h, a, d, c, r, from, to
  <1>5. /\ h \o a \in Seq(Message) /\ Rising(h \o a) /\ Below(h \o a, d) /\ Below(h \o a, c)
        /\ Below(h \o a, r) /\ Within(h \o a, k, from, to)
    <2>1. h \o a \in Seq(Message) /\ Rising(h \o a)
      BY <1>3, <1>4, Joined DEF Chain
    <2>2. Below(h \o a, d) /\ Below(h \o a, c) /\ Below(h \o a, r)
      BY <1>3, <1>4, JoinedBelow DEF Chain
    <2>3. Within(h \o a, k, from, to)
      BY <1>3, <1>4, JoinedWithin DEF Inside, from, to
    <2>. QED
      BY <2>1, <2>2, <2>3
  <1>6. /\ h \o a \o d \in Seq(Message) /\ Rising(h \o a \o d) /\ Below(h \o a \o d, c)
        /\ Below(h \o a \o d, r) /\ Within(h \o a \o d, k, from, to)
    <2>1. h \o a \o d \in Seq(Message) /\ Rising(h \o a \o d)
      BY <1>3, <1>4, <1>5, Joined DEF Chain
    <2>2. Below(h \o a \o d, c) /\ Below(h \o a \o d, r)
      BY <1>3, <1>4, <1>5, JoinedBelow DEF Chain
    <2>3. Within(h \o a \o d, k, from, to)
      BY <1>3, <1>4, <1>5, JoinedWithin DEF Inside, from, to
    <2>. QED
      BY <2>1, <2>2, <2>3
  <1>7. /\ h \o a \o d \o c \in Seq(Message) /\ Rising(h \o a \o d \o c) /\ Below(h \o a \o d \o c, r)
        /\ Within(h \o a \o d \o c, k, from, to)
    <2>1. h \o a \o d \o c \in Seq(Message) /\ Rising(h \o a \o d \o c)
      BY <1>3, <1>4, <1>6, Joined DEF Chain
    <2>2. Below(h \o a \o d \o c, r)
      BY <1>3, <1>4, <1>6, JoinedBelow DEF Chain
    <2>3. Within(h \o a \o d \o c, k, from, to)
      BY <1>3, <1>4, <1>6, JoinedWithin DEF Inside, from, to
    <2>. QED
      BY <2>1, <2>2, <2>3
  <1>8. way \in Seq(Message) /\ Rising(way) /\ Within(way, k, from, to)
    <2>1. way \in Seq(Message) /\ Rising(way)
      BY <1>3, <1>4, <1>7, Joined DEF Chain
    <2>2. Within(way, k, from, to)
      BY <1>3, <1>4, <1>7, JoinedWithin DEF Inside, from, to
    <2>. QED
      BY <2>1, <2>2
  <1>9. Clean(host[k])
    BY <1>4 DEF Inside, h
  <1> HIDE DEF way
  <1>10. DOMAIN way = 1 .. Len(way) /\ Len(way) \in Nat
    BY <1>8, LenProperties
  <1>11. \A i \in DOMAIN way : \A j \in 1 .. i - 1 : j \in DOMAIN way /\ j < i
    BY <1>10
  <1>12. \A i \in DOMAIN way : way[i].clean =>
            /\ way[i].kind = k /\ way[i].number > ingested[k]
            /\ \A j \in 1 .. i - 1 : way[j].clean => way[j].number < way[i].number
    <2>1. \A i \in DOMAIN way : way[i] \in Message /\ way[i].number \in Nat
      <3>1. \A i \in DOMAIN way : way[i] \in Message
        BY <1>8, <1>10, ElementOfSeq
      <3>2. \A m \in Message : m.number \in Nat
        BY DEF Message
      <3>. QED
        BY <3>1, <3>2
    <2>2. \A i \in DOMAIN way : way[i].clean => way[i].kind = k /\ ingested[k] < way[i].number
      BY <1>8 DEF Within, from
    <2>3. \A i, j \in DOMAIN way : way[i].clean /\ way[j].clean /\ j < i => way[j].number < way[i].number
      BY <1>8 DEF Rising
    <2>. QED
      BY <1>3, <1>11, <2>1, <2>2, <2>3
  <1>. QED
    BY <1>1, <1>9, <1>12 DEF Clean

\* Counters and queues of the CC1312 and of its host stay in their bounds, and
\* nothing is ingested that the radio has not synchronised to.
THEOREM UATTypesHold == UATSpec => []UATTypeOK
  <1>1. UATInit => UATInv
    BY UATInvInit
  <1>2. UATInv /\ [UATNext]_uatVars => UATInv'
    BY UATInvStep
  <1>3. UATInv => UATTypeOK
    BY UATInvTypes
  <1>. QED
    BY <1>1, <1>2, <1>3, PTL DEF UATSpec

\* No UAT message is read twice or overtakes another on its way from the radio
\* to the aircraft dictionary, and none is queued as what it is not.
THEOREM MessagesInOrder == UATSpec => []UATInOrder
  <1>1. UATInit => UATInv
    BY UATInvInit
  <1>2. UATInv /\ [UATNext]_uatVars => UATInv'
    BY UATInvStep
  <1>3. UATInv => UATInOrder
    BY UATInvOrder
  <1>. QED
    BY <1>1, <1>2, <1>3, PTL DEF UATSpec
=============================================================================
