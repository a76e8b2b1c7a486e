------------------------------ MODULE FeedQueue ------------------------------
(***************************************************************************)
(* The ESP32's half of a packet's way: the composite arrays of the RP2040  *)
(* are taken apart into three queues (object_dictionary.cpp), packed into  *)
(* arrays again (adsbee_server.cpp, composite_array.cpp), and queued for   *)
(* the task that serves the feeds (comms_wifi.cpp, comms_ip.cpp).  While   *)
(* that queue is half full arrays are merged in a scratch buffer.          *)
(*                                                                         *)
(* Three tasks: SPI reception (Unpack), the server's loop (Pack to Send)   *)
(* and IPWANTask (WaitForIP, Feed).  A packet is its kind and its number   *)
(* among those of its kind, and takes one cell of an array.                *)
(***************************************************************************)
EXTENDS Integers, Sequences

CONSTANTS
    CellsPerArray,     \* RawPackets::kMaxLenBytes
    InLen,             \* kMaxNumModeSPackets, kMaxNumUATADSBPackets, kMaxNumUATUplinkPackets
    WANQueueLen,       \* kReportingCompositeArrayQueueNumElements
    MaxPackets         \* bound: packets of each kind the RP2040 sends

PacketKinds == 1 .. 3      \* Mode S, UAT ADS-B, UAT uplink: their order in an array

ASSUME FeedAssumption ==
    /\ {CellsPerArray, WANQueueLen} \subseteq Nat \ {0}
    /\ InLen \in [PacketKinds -> Nat \ {0}] /\ MaxPackets \in [PacketKinds -> Nat]

VARIABLES
    arrived,       \* number of packets of each kind the RP2040 has sent
    in_queue,      \* raw_mode_s_packet_in_queue and so on
    carried,       \* raw_packets_buf_, while it is being forwarded
    slots_used,    \* the server's reading of the length of wanQueue
    stage,         \* where the server's loop is
    scratch,       \* composite_array_scratch_buf_, NoArray: composite_array_scratch_has_data_ is false
    wanQueue,      \* ip_wan_reporting_composite_array_queue_
    wanTask,       \* whether IPWANTask waits for an IP address or for an array
    hasIP,
    fed            \* the last packet of each kind the feeds were given

serverVars == <<carried, slots_used, stage, scratch>>
feedVars == <<arrived, in_queue, serverVars, wanQueue, wanTask, hasIP, fed>>

Cells == 1 .. CellsPerArray
NoPacket == <<0, 0>>
NoneOf == [k \in PacketKinds |-> 0]
NoArray == [num |-> NoneOf, cells |-> [c \in Cells |-> NoPacket]]

AtMost(a, b) == IF a < b THEN a ELSE b

\* Cells taken by the packets of the kinds before k, for k = 4 by all of them.
Before(num, k) ==
    (IF k > 1 THEN num[1] ELSE 0) + (IF k > 2 THEN num[2] ELSE 0) + (IF k > 3 THEN num[3] ELSE 0)

Cardinal(num) == Before(num, 4)

-----------------------------------------------------------------------------
(* SetBytes of kAddrCompositeArrayRawPackets.                              *)

Room(k) == InLen[k] - Len(in_queue[k])

\* Mutant: what Enqueue returns is ignored.
EnqueuedRegardless(num, k) == num[k]

\* The first packet that does not fit ends the unpacking; the write is
\* acknowledged all the same.
Enqueued(num, k) ==
    IF \A j \in 1 .. k - 1 : num[j] <= Room(j) THEN AtMost(num[k], Room(k)) ELSE 0

Unpack ==
    /\ \E num \in [PacketKinds -> 0 .. CellsPerArray] :
          /\ Cardinal(num) \in Cells
          /\ \A k \in PacketKinds : arrived[k] + num[k] <= MaxPackets[k]
          /\ arrived' = [k \in PacketKinds |-> arrived[k] + num[k]]
          /\ in_queue' = [k \in PacketKinds |->
                in_queue[k] \o [i \in 1 .. Enqueued(num, k) |-> <<k, arrived[k] + i>>]]
    /\ UNCHANGED <<serverVars, wanQueue, wanTask, hasIP, fed>>

-----------------------------------------------------------------------------
(* ADSBeeServer::Update and IPWANSendRawPacketCompositeArray.              *)

\* What PackRawPacketsBuffer takes of each kind: as many as still fit.
Taken ==
    LET modeS == AtMost(Len(in_queue[1]), CellsPerArray)
        adsb == AtMost(Len(in_queue[2]), CellsPerArray - modeS)
    IN  <<modeS, adsb, AtMost(Len(in_queue[3]), CellsPerArray - modeS - adsb)>>

PackedArray(num) ==
    LET packets == SubSeq(in_queue[1], 1, num[1]) \o SubSeq(in_queue[2], 1, num[2])
                      \o SubSeq(in_queue[3], 1, num[3])
    IN  [num |-> num, cells |-> [c \in Cells |->
            IF c \in DOMAIN packets THEN packets[c] ELSE NoPacket]]

\* Without an IP address the array goes no further.
Pack ==
    /\ stage = "idle"
    /\ Cardinal(Taken) > 0
    /\ in_queue' = [k \in PacketKinds |-> SubSeq(in_queue[k], Taken[k] + 1, Len(in_queue[k]))]
    /\ IF hasIP
       THEN /\ carried' = PackedArray(Taken)
            /\ slots_used' = Len(wanQueue)
            /\ stage' = "flush"
       ELSE UNCHANGED <<carried, slots_used, stage>>
    /\ UNCHANGED <<arrived, scratch, wanQueue, wanTask, hasIP, fed>>

\* The reading may be stale: IPWANTask can have taken arrays since.
QueueHalfFull == slots_used * 2 >= WANQueueLen

OpportuneFlush ==
    /\ stage = "flush"
    /\ stage' = "send"
    /\ IF scratch # NoArray /\ ~QueueHalfFull
       THEN /\ wanQueue' = Append(wanQueue, scratch)
            /\ scratch' = NoArray
            /\ slots_used' = slots_used + 1
       ELSE UNCHANGED <<wanQueue, scratch, slots_used>>
    /\ UNCHANGED <<arrived, in_queue, carried, wanTask, hasIP, fed>>

\* memmove and memcpy: n cells of "from", behind its first "at", to behind
\* the first "to" of "cells".
Copied(cells, to, from, at, n) ==
    [c \in Cells |-> IF c \in to + 1 .. to + n THEN from[at + c - to] ELSE cells[c]]

MergedNum(dst, src) == [k \in PacketKinds |-> dst.num[k] + src.num[k]]
Mergeable(dst, src) == Cardinal(MergedNum(dst, src)) <= CellsPerArray

\* Mutant: the new Mode S packets are copied in before the others have moved.
MergedOverwriting(dst, src) ==
    LET adsbStart == dst.num[1]
        uplinkStart == dst.num[1] + src.num[1] + dst.num[2]
        a == Copied(dst.cells, adsbStart, src.cells, 0, src.num[1])
        b == Copied(a, adsbStart + src.num[1], a, adsbStart, dst.num[2] + dst.num[3])
        c == Copied(b, uplinkStart + src.num[2], b, uplinkStart, dst.num[3])
        d == Copied(c, uplinkStart, src.cells, src.num[1], src.num[2])
        e == Copied(d, uplinkStart + src.num[2] + dst.num[3], src.cells,
                    src.num[1] + src.num[2], src.num[3])
    IN  [num |-> MergedNum(dst, src), cells |-> e]

\* MergeRawPacketsBuffers: room is made behind the packets of each kind.
Merged(dst, src) ==
    LET adsbStart == dst.num[1]
        uplinkStart == dst.num[1] + src.num[1] + dst.num[2]
        a == Copied(dst.cells, adsbStart + src.num[1], dst.cells, adsbStart,
                    dst.num[2] + dst.num[3])
        b == Copied(a, adsbStart, src.cells, 0, src.num[1])
        c == Copied(b, uplinkStart + src.num[2], b, uplinkStart, dst.num[3])
        d == Copied(c, uplinkStart, src.cells, src.num[1], src.num[2])
        e == Copied(d, uplinkStart + src.num[2] + dst.num[3], src.cells,
                    src.num[1] + src.num[2], src.num[3])
    IN  [num |-> MergedNum(dst, src), cells |-> e]

Merge ==
    /\ QueueHalfFull /\ scratch # NoArray /\ Mergeable(scratch, carried)
    /\ scratch' = Merged(scratch, carried)
    /\ UNCHANGED wanQueue

Keep ==
    /\ QueueHalfFull /\ scratch = NoArray
    /\ scratch' = carried
    /\ UNCHANGED wanQueue

\* What the scratch buffer cannot take in replaces it.  A queue that stays
\* full until the time-out is emptied, and the scratch buffer is lost as well.
PushScratch ==
    /\ QueueHalfFull /\ scratch # NoArray /\ ~Mergeable(scratch, carried)
    /\ scratch' = carried
    /\ wanQueue' = IF Len(wanQueue) < WANQueueLen THEN Append(wanQueue, scratch) ELSE <<>>

\* The queue has room: IPWANTask takes arrays out, and nobody else puts any in.
PushDirectly ==
    /\ ~QueueHalfFull
    /\ wanQueue' = Append(wanQueue, carried)
    /\ UNCHANGED scratch

Send ==
    /\ stage = "send"
    /\ Merge \/ Keep \/ PushScratch \/ PushDirectly
    /\ stage' = "idle"
    /\ carried' = NoArray /\ slots_used' = 0       \* out of scope
    /\ UNCHANGED <<arrived, in_queue, wanTask, hasIP, fed>>

-----------------------------------------------------------------------------
(* IPWANTask, the network and the chip's restart.                          *)

WaitForIP ==
    /\ wanTask = "waiting" /\ hasIP
    /\ wanTask' = "receiving"
    /\ UNCHANGED <<arrived, in_queue, serverVars, wanQueue, hasIP, fed>>

\* The packets of kind k a receiver finds in array a.
Section(a, k) == SubSeq(a.cells, Before(a.num, k) + 1, Before(a.num, k) + a.num[k])

LastOf(packets, k, otherwise) == IF packets = <<>> THEN otherwise ELSE packets[Len(packets)][2]

\* UpdateReporting with an array, or none within the time-out; the address may
\* be gone by then.
Feed ==
    /\ wanTask = "receiving"
    /\ wanTask' = "waiting"
    /\ IF wanQueue = <<>> THEN UNCHANGED <<wanQueue, fed>>
       ELSE /\ wanQueue' = Tail(wanQueue)
            /\ fed' = [k \in PacketKinds |-> LastOf(Section(Head(wanQueue), k), k, fed[k])]
    /\ UNCHANGED <<arrived, in_queue, serverVars, hasIP>>

IPChanges ==
    /\ hasIP' = ~hasIP
    /\ UNCHANGED <<arrived, in_queue, serverVars, wanQueue, wanTask, fed>>

NoneQueued == [k \in PacketKinds |-> <<>>]

Restart ==
    /\ in_queue' = NoneQueued
    /\ carried' = NoArray /\ slots_used' = 0 /\ stage' = "idle"
    /\ scratch' = NoArray /\ wanQueue' = <<>>
    /\ wanTask' = "waiting" /\ hasIP' = FALSE
    /\ UNCHANGED <<arrived, fed>>

-----------------------------------------------------------------------------

FeedInit ==
    /\ arrived = NoneOf /\ fed = NoneOf
    /\ in_queue = NoneQueued
    /\ carried = NoArray /\ slots_used = 0 /\ stage = "idle"
    /\ scratch = NoArray /\ wanQueue = <<>>
    /\ wanTask = "waiting" /\ hasIP = FALSE

FeedNext ==
    \/ Unpack
    \/ Pack \/ OpportuneFlush \/ Send
    \/ WaitForIP \/ Feed
    \/ IPChanges \/ Restart

FeedSpec == FeedInit /\ [][FeedNext]_feedVars

-----------------------------------------------------------------------------

\* The queues stay within their length; the buffers are in use only while the
\* server forwards an array.
FeedTypeOK ==
    /\ \A k \in PacketKinds :
          /\ arrived[k] \in 0 .. MaxPackets[k] /\ Len(in_queue[k]) <= InLen[k]
    /\ carried.num \in [PacketKinds -> 0 .. CellsPerArray]
    /\ scratch.num \in [PacketKinds -> 0 .. CellsPerArray]
    /\ slots_used \in 0 .. WANQueueLen
    /\ stage \in {"idle", "flush", "send"} /\ (stage = "idle" <=> carried = NoArray)
    /\ Len(wanQueue) <= WANQueueLen
    /\ wanTask \in {"waiting", "receiving"} /\ hasIP \in BOOLEAN

\* Where the packets of kind k are in an array, and the arrays on their way to
\* the feeds, the next one first.
Span(a, k) == Before(a.num, k) + 1 .. Before(a.num, k) + a.num[k]
Arrays == wanQueue \o <<scratch, carried>>

\* However the arrays are merged, kept back or dropped, the feeds are given
\* the packets of a kind in the order of the RP2040, each at most once and
\* none taken for another kind.
FeedsInOrder ==
    \A k \in PacketKinds :
        /\ \A i \in DOMAIN Arrays : \A c \in Span(Arrays[i], k) :
              LET packet == Arrays[i].cells[c]
              IN  /\ packet[1] = k /\ fed[k] < packet[2]
                  /\ \A d \in Span(Arrays[i], k) : c < d => packet[2] < Arrays[i].cells[d][2]
                  /\ \A j \in i + 1 .. Len(Arrays) : \A d \in Span(Arrays[j], k) :
                        packet[2] < Arrays[j].cells[d][2]
                  /\ \A x \in DOMAIN in_queue[k] : packet[2] < in_queue[k][x][2]
        /\ \A x \in DOMAIN in_queue[k] :
              /\ in_queue[k][x][1] = k /\ fed[k] < in_queue[k][x][2]
              /\ \A y \in 1 .. x - 1 : in_queue[k][y][2] < in_queue[k][x][2]
=============================================================================
