---------------------------- MODULE ModeSReceiver ----------------------------
(***************************************************************************)
(* Core 1 of the RP2040: the way of a Mode S transmission from the         *)
(* demodulator's state machines to the packets core 0 is given             *)
(* (adsbee.cc, mode_s_packet_decoder.cc).                                  *)
(*                                                                         *)
(* Several state machines, the sources, hear the same transmission.  Each  *)
(* interrupts core 1 when it begins, which takes the time stamp, and when  *)
(* it is done, which queues what it heard.  The decoder loop takes the     *)
(* packets out of that queue and passes on one copy of each transmission.  *)
(*                                                                         *)
(* Time is in ms.  The stamp is a counter of wraps, kept by the SysTick    *)
(* handler, and the SysTick register: two reads, and the SysTick handler,  *)
(* of the highest priority, can run between them.                          *)
(***************************************************************************)
EXTENDS Integers, Sequences

CONSTANTS
    NumSources,            \* r1090_num_demod_state_machines
    Senders,               \* addresses of aircraft, numbers other than 0
    Period,                \* ms until SysTick wraps
    DuplicateInterval,     \* kMinSameAircraftMessageIntervalMs
    RawQueueLen, DecodedQueueLen,      \* kPacketQueueLen
    TimestampModulus,      \* number of values of a uint32_t
    MaxTime,               \* bound: the last ms
    MaxTransmissions       \* bound: transmissions

ASSUME ReceiverAssumption ==
    /\ {NumSources, RawQueueLen, DecodedQueueLen, Period} \subseteq Nat \ {0}
    /\ Senders \subseteq Nat \ {0}
    /\ DuplicateInterval \in Nat /\ MaxTime \in Nat /\ MaxTransmissions \in Nat
    /\ TimestampModulus \in Nat /\ TimestampModulus > MaxTime + Period + DuplicateInterval

VARIABLES
    now,           \* time, which SysTick counts
    onAir,         \* "no", or the last of sent is on the air since "now" or the ms "before"
    sent,          \* the transmissions so far
    sources,       \* each state machine and the stamp of what it hears
    stamping,      \* where OnDemodBegin is between its two reads
    rawQueue,      \* raw_mode_s_packet_in_queue
    toProcess,     \* num_packets_to_process left in UpdateDecoderLoop
    last_demod_,   \* last_demod_icao_, last_demod_timestamp_ms_
    numDecoded     \* packets in decoded_mode_s_packet_out_queue

receiverVars == <<now, onAir, sent, sources, stamping, rawQueue, toProcess, last_demod_, numDecoded>>

Sources == 0 .. NumSources - 1
NoSource == NumSources
\* A state machine that waits for a preamble; what it heard last is overwritten.
Idle == [state |-> "idle", heard |-> 0, stamp |-> 0]
NotStamping == [source |-> NoSource, read |-> "wraps", value |-> 0]
Stamping == stamping # NotStamping
Core1Free == ~Stamping

-----------------------------------------------------------------------------
(* What happens around core 1.                                             *)

\* A transmission takes at most 120 us: no more than one ms ends during it.
Tick ==
    /\ now < MaxTime
    /\ onAir # "before"
    /\ now' = now + 1
    /\ onAir' = IF onAir = "now" THEN "before" ELSE "no"
    /\ UNCHANGED <<sent, sources, stamping, rawQueue, toProcess, last_demod_, numDecoded>>

\* top, misstamped and reports are history: the latest stamp queued with it,
\* whether a stamp was wrong, how often it was passed on.
Transmit(a) ==
    /\ onAir = "no"
    /\ \A s \in Sources : sources[s].state \notin {"begun", "demod"}
    /\ Len(sent) < MaxTransmissions
    /\ onAir' = "now"
    /\ sent' = Append(sent, [icao |-> a, top |-> 0, misstamped |-> FALSE, reports |-> 0])
    /\ UNCHANGED <<now, sources, stamping, rawQueue, toProcess, last_demod_, numDecoded>>

EndTransmission ==
    /\ onAir # "no"
    /\ ~Stamping /\ \A s \in Sources : sources[s].state # "begun"
    /\ onAir' = "no"
    /\ UNCHANGED <<now, sent, sources, stamping, rawQueue, toProcess, last_demod_, numDecoded>>

\* The preamble detector finds a preamble and raises the demod pin.
DetectPreamble(s) ==
    /\ onAir # "no"
    /\ sources[s] = Idle
    /\ sources' = [sources EXCEPT ![s].state = "begun", ![s].heard = Len(sent)]
    /\ UNCHANGED <<now, onAir, sent, stamping, rawQueue, toProcess, last_demod_, numDecoded>>

\* The message is over and the state machine waits with its interrupt flag
\* set.  The handler is quicker than the next message: what was heard of an
\* earlier transmission has been queued by then.
FinishMessage(s) ==
    /\ onAir = "no" /\ sources[s].state = "demod"
    /\ \A r \in Sources : sources[r].state = "done" => sources[r].heard = sources[s].heard
    /\ sources' = [sources EXCEPT ![s].state = "done"]
    /\ UNCHANGED <<now, onAir, sent, stamping, rawQueue, toProcess, last_demod_, numDecoded>>

-----------------------------------------------------------------------------
(* OnDemodBegin: GetMLAT48MHzCounts reads mlat_counter_wraps_ and the      *)
(* SysTick register in the order the compiler chooses.                     *)

Wraps == now \div Period
SysTickCounts == now % Period

ReadFirst(s) ==
    /\ Core1Free
    /\ sources[s].state = "begun"
    /\ stamping' \in {[source |-> s, read |-> "wraps", value |-> Wraps],
                      [source |-> s, read |-> "counts", value |-> SysTickCounts]}
    /\ UNCHANGED <<now, onAir, sent, sources, rawQueue, toProcess, last_demod_, numDecoded>>

MLATCounts ==
    IF stamping.read = "wraps" THEN stamping.value * Period + SysTickCounts
    ELSE Wraps * Period + stamping.value

ReadSecond ==
    /\ Stamping
    /\ sources' = [sources EXCEPT ![stamping.source].state = "demod",
                                  ![stamping.source].stamp = MLATCounts]
    /\ stamping' = NotStamping
    /\ sent' = [sent EXCEPT ![Len(sent)].misstamped =
                   @ \/ MLATCounts \notin IF onAir = "now" THEN {now} ELSE {now - 1, now}]
    /\ UNCHANGED <<now, onAir, rawQueue, toProcess, last_demod_, numDecoded>>

-----------------------------------------------------------------------------
(* OnDemodComplete: what all triggered state machines heard is queued, in  *)
(* the order of their index.                                               *)

Packet(s, valid) ==
    [source |-> s, of |-> sources[s].heard, valid |-> valid, stamp |-> sources[s].stamp]

\* Any of the sources, in the order of their index.
InIndexOrder ==
    {q \in UNION {[1 .. n -> Sources] : n \in 0 .. NumSources} :
        \A i, j \in DOMAIN q : i < j => q[i] < q[j]}

\* Copies of transmission t among the packets, with the stamps they carry.
Copies(t, packets) == {i \in DOMAIN packets : packets[i].of = t}

\* A stamp earlier than that of a copy queued before.
Misordered(t, packets, i) ==
    \/ packets[i].stamp < sent[t].top
    \/ \E j \in Copies(t, packets) : j < i /\ packets[i].stamp < packets[j].stamp

Noted(t, packets) ==
    LET copies == Copies(t, packets)
        stamps == {packets[i].stamp : i \in copies} \cup {sent[t].top}
    IN  [sent[t] EXCEPT
            !.top = CHOOSE m \in stamps : \A k \in stamps : k <= m,
            !.misstamped = @ \/ \E i \in copies : Misordered(t, packets, i)]

FirstOf(n, packets) == SubSeq(packets, 1, IF n < Len(packets) THEN n ELSE Len(packets))

\* Some packets are too short to be queued, others are queued although bits of
\* them are wrong.
OnDemodComplete ==
    /\ Core1Free
    /\ \E s \in Sources : sources[s].state = "done"
    /\ \A s \in Sources : sources[s].state # "begun"
    /\ \E heardBy \in InIndexOrder, readable \in SUBSET Sources :
          LET packets == [i \in DOMAIN heardBy |-> Packet(heardBy[i], heardBy[i] \in readable)]
              queued == FirstOf(RawQueueLen - Len(rawQueue), packets)
          IN  /\ \A i \in DOMAIN heardBy : sources[heardBy[i]].state = "done"
              /\ rawQueue' = rawQueue \o queued
              /\ sent' = [t \in DOMAIN sent |-> Noted(t, queued)]
    /\ sources' = [s \in Sources |->
                     IF sources[s].state = "done" THEN Idle ELSE sources[s]]
    /\ UNCHANGED <<now, onAir, stamping, toProcess, last_demod_, numDecoded>>

-----------------------------------------------------------------------------
(* The decoder loop of core 1, and core 0 that takes its packets.          *)

UpdateDecoderLoop ==
    /\ Core1Free
    /\ toProcess = 0 /\ rawQueue # <<>>
    /\ toProcess' = Len(rawQueue)
    /\ UNCHANGED <<now, onAir, sent, sources, stamping, rawQueue, last_demod_, numDecoded>>

\* The difference is one of uint32_t: a packet stamped before is not recent.
Recent(ms, last) == (ms - last) % TimestampModulus < DuplicateInterval

\* Mutant: only what the same state machine heard is compared.
SeenBySource(p) ==
    last_demod_[p.source].icao = sent[p.of].icao /\ Recent(p.stamp, last_demod_[p.source].ms)

AlreadySeen(p) ==
    \E s \in Sources : last_demod_[s].icao = sent[p.of].icao /\ Recent(p.stamp, last_demod_[s].ms)

\* What does not fit into the output queue is dropped and yet remembered.
PushPacketIfNotDuplicate(p) ==
    IF AlreadySeen(p) THEN UNCHANGED <<sent, last_demod_, numDecoded>>
    ELSE /\ last_demod_' = [last_demod_ EXCEPT
                              ![p.source] = [icao |-> sent[p.of].icao, ms |-> p.stamp]]
         /\ IF numDecoded = DecodedQueueLen THEN UNCHANGED <<sent, numDecoded>>
            ELSE /\ numDecoded' = numDecoded + 1
                 /\ sent' = [sent EXCEPT ![p.of].reports = @ + 1]

DecodePacket ==
    /\ Core1Free
    /\ toProcess > 0
    /\ toProcess' = toProcess - 1
    /\ rawQueue' = Tail(rawQueue)
    /\ IF Head(rawQueue).valid THEN PushPacketIfNotDuplicate(Head(rawQueue))
       ELSE UNCHANGED <<sent, last_demod_, numDecoded>>
    /\ UNCHANGED <<now, onAir, sources, stamping>>

IngestDecoded ==
    /\ numDecoded > 0
    /\ numDecoded' = numDecoded - 1
    /\ UNCHANGED <<now, onAir, sent, sources, stamping, rawQueue, toProcess, last_demod_>>

-----------------------------------------------------------------------------

ReceiverInit ==
    /\ now = 0 /\ onAir = "no" /\ sent = <<>>
    /\ sources = [s \in Sources |-> Idle]
    /\ stamping = NotStamping
    /\ rawQueue = <<>> /\ toProcess = 0 /\ numDecoded = 0
    /\ last_demod_ = [s \in Sources |-> [icao |-> 0, ms |-> 0]]

ReceiverNext ==
    \/ Tick
    \/ \E a \in Senders : Transmit(a)
    \/ EndTransmission
    \/ \E s \in Sources : DetectPreamble(s) \/ FinishMessage(s) \/ ReadFirst(s)
    \/ ReadSecond
    \/ OnDemodComplete
    \/ UpdateDecoderLoop \/ DecodePacket
    \/ IngestDecoded

ReceiverSpec == ReceiverInit /\ [][ReceiverNext]_receiverVars

-----------------------------------------------------------------------------

\* The stamps are no further from the time than one period, the queues within
\* their length, and the loop never counts on more packets than there are.
ReceiverTypeOK ==
    /\ now \in 0 .. MaxTime
    /\ \A s \in Sources :
          /\ sources[s].state \in {"idle", "begun", "demod", "done"}
          /\ sources[s].heard \in 0 .. Len(sent)
          /\ sources[s].stamp \in 0 .. MaxTime + Period
    /\ Len(rawQueue) <= RawQueueLen /\ numDecoded \in 0 .. DecodedQueueLen
    /\ toProcess \in 0 .. Len(rawQueue)

\* However many state machines hear a transmission, core 0 is given one copy of
\* it, unless a copy is stamped wrongly or before one that was queued first:
\* the difference in PushPacketIfNotDuplicate is then huge.
TransmissionOnce ==
    \A t \in DOMAIN sent : sent[t].reports <= 1 \/ sent[t].misstamped

\* adsbee.hh says that the SysTick interrupt has the highest priority because
\* time stamps would otherwise not be monotonic: no stamp is earlier than one
\* taken before.
StampsMonotonic ==
    [][ReadSecond => \A t \in DOMAIN sent : MLATCounts >= sent[t].top]_receiverVars
=============================================================================
