------------------------------ MODULE Reporting ------------------------------
(***************************************************************************)
(* Core 0 of the RP2040: the reporting queues, one for each kind of        *)
(* packet, that ADSBee::IngestAndForwardPackets fills and                  *)
(* CommsManager::ForceFlushRawPackets empties, and the reports on the      *)
(* aircraft of the dictionary, which UpdateReporting sends in rounds that  *)
(* go on over many calls (adsbee.cc, comms.cc, comms_reporting.cpp).       *)
(*                                                                         *)
(* Core 0 does one thing at a time: UpdateReporting is one step.  A round  *)
(* of a protocol walks the snapshot of the dictionary that was taken when  *)
(* it began; the protocols that have sinks begin together.                 *)
(***************************************************************************)
EXTENDS Integers, Sequences, FiniteSets

CONSTANTS
    ArrayLen,          \* room for packets in a composite array
    Size,              \* size of a packet of each kind: Mode S, UAT ADS-B, UAT uplink
    MaxFlushes,        \* kMaxForceFlushIterations
    Protocols,         \* the protocols that report on the dictionary
    Craft,             \* aircraft
    MaxCraft           \* kAircraftDictionaryMaxNumAircraft

Kinds == 1 .. 3

\* Each kind of packet fits into an array (composite_array.hh), and there is
\* an iteration for each (comms.hh).
ASSUME ReportingAssumption ==
    /\ ArrayLen \in Nat
    /\ Size \in [Kinds -> Nat \ {0}]
    /\ \A k \in Kinds : Size[k] <= ArrayLen
    /\ MaxFlushes \in Nat /\ MaxFlushes >= 3
    /\ IsFiniteSet(Craft) /\ MaxCraft \in Nat \ {0}

VARIABLES
    queued,            \* number of packets in each reporting queue
    ingesting,         \* the loop of IngestAndForwardPackets, 0 outside
    pending,           \* a packet waits there for a flush
    flushes,           \* iterations of ForceFlushRawPackets, 0 outside
    dict,              \* aircraft in the dictionary
    sinks,             \* protocols some interface reports with
    report_uids_,      \* the snapshot
    active,            \* protocols in a round: csbee_round_active_ and so on
    report_index,      \* csbee_report_uid_index_ and so on
    due,               \* a reporting interval has passed since the last snapshot
    reported,          \* history: what each round has reported on
    stayed             \* history: aircraft in the dictionary ever since the snapshot

flushVars == <<queued, ingesting, pending, flushes>>
roundVars == <<report_uids_, active, report_index, due, reported>>
reportingVars == <<flushVars, dict, sinks, roundVars, stayed>>

\* Mutant: the header of the array is counted as room.
DepthOverHeader(k) == (ArrayLen + 1) \div Size[k]

\* Each queue is as long as packets of its kind alone fit into an array.
Depth(k) == ArrayLen \div Size[k]
AllEmpty == \A k \in Kinds : queued[k] = 0
Flushing == flushes > 0

\* Of kind k, with room left, PackRawPacketsBuffer takes as many as fit.
Packed(k, room) == IF queued[k] * Size[k] <= room THEN queued[k] ELSE room \div Size[k]

-----------------------------------------------------------------------------
(* The dictionary, which core 0 alone changes.                             *)

ChangeDict(d) ==
    /\ dict' = d
    /\ stayed' = stayed \cap d

\* An aircraft heard is there or comes in, for another one when it is full.
Heard(a) ==
    IF a \in dict THEN {dict}
    ELSE IF Cardinality(dict) < MaxCraft THEN {dict \cup {a}}
    ELSE {(dict \ {b}) \cup {a} : b \in dict}

Prune ==
    /\ ingesting = 0 /\ ~Flushing
    /\ \E a \in dict : ChangeDict(dict \ {a})
    /\ UNCHANGED <<flushVars, sinks, roundVars>>

-----------------------------------------------------------------------------
(* IngestAndForwardPackets                                                 *)

BeginIngest ==
    /\ ingesting = 0 /\ ~Flushing
    /\ ingesting' = 1
    /\ UNCHANGED <<queued, pending, flushes, dict, sinks, roundVars, stayed>>

\* A packet of the kind whose loop runs, or the end of the loop.
Ingest ==
    /\ ingesting \in Kinds /\ ~pending /\ ~Flushing
    /\ \E d \in {dict} \cup UNION {Heard(a) : a \in Craft} : ChangeDict(d)
    /\ IF queued[ingesting] = Depth(ingesting)
       THEN pending' = TRUE /\ flushes' = 1 /\ UNCHANGED queued
       ELSE queued' = [queued EXCEPT ![ingesting] = @ + 1] /\ UNCHANGED <<pending, flushes>>
    /\ UNCHANGED <<ingesting, sinks, roundVars>>

\* A queue that is still full refuses the packet.
EnqueuePending ==
    /\ pending /\ ~Flushing
    /\ pending' = FALSE
    /\ queued' = [queued EXCEPT ![ingesting] = IF @ < Depth(ingesting) THEN @ + 1 ELSE @]
    /\ UNCHANGED <<ingesting, flushes, dict, sinks, roundVars, stayed>>

NextLoop ==
    /\ ingesting \in Kinds /\ ~pending /\ ~Flushing
    /\ ingesting' = (ingesting + 1) % 4
    /\ UNCHANGED <<queued, pending, flushes, dict, sinks, roundVars, stayed>>

\* CommsManager::Update: the queues fill an array, or the time is over.
FlushInTime ==
    /\ ingesting = 0 /\ ~Flushing
    /\ flushes' = 1
    /\ UNCHANGED <<queued, ingesting, pending, dict, sinks, roundVars, stayed>>

-----------------------------------------------------------------------------
(* UpdateReporting, for the protocols that report on the dictionary.       *)

\* Mutant: a protocol that lost its sinks stays in its round.
StillActiveRegardless == active

\* A protocol that lost its sinks does not keep the others waiting.
StillActive == active \cap sinks

BeginsRound == due /\ sinks # {} /\ StillActive = {}

\* The snapshot, in whatever order the map has its entries.
Snapshots ==
    LET n == Cardinality(dict)
    IN  {q \in [1 .. n -> dict] : \A i, j \in 1 .. n : q[i] = q[j] => i = j}

\* One call of Report...: the next aircraft of the snapshot, at least one and
\* as many as the time budget allows.  Without sinks nothing is reported.
Reached(acting, from, count) ==
    {to \in [Protocols -> 0 .. count] :
        \A p \in Protocols :
           IF p \in acting \cap sinks
           THEN to[p] >= from[p] /\ (to[p] > from[p] \/ to[p] = count)
           ELSE to[p] = from[p]}

\* Aircraft that are gone by now are skipped.
Sent(uids, from, to) == {uids[i] : i \in (from + 1) .. to} \cap dict

Advance(acting, uids, from, sofar) ==
    \E to \in Reached(acting, from, Len(uids)) :
       /\ report_uids_' = uids
       /\ report_index' = to
       /\ reported' = [p \in Protocols |-> sofar[p] \cup Sent(uids, from[p], to[p])]
       /\ active' = {p \in acting : p \notin sinks \/ to[p] < Len(uids)}

NoneReported == [p \in Protocols |-> {}]

\* Mutant: the indices stay where the last round left them.
FirstIndexKept == report_index

FirstIndex == [p \in Protocols |-> 0]

UpdateReporting ==
    IF BeginsRound
    THEN /\ \E uids \in Snapshots : Advance(sinks, uids, FirstIndex, NoneReported)
         /\ due' = FALSE
         /\ stayed' = dict
    ELSE /\ Advance(StillActive, report_uids_, report_index, reported)
         /\ UNCHANGED <<due, stayed>>

IntervalPasses ==
    /\ ~due
    /\ due' = TRUE
    /\ UNCHANGED <<flushVars, dict, sinks, report_uids_, active, report_index, reported, stayed>>

\* AT+PROTOCOL_OUT, in CommsManager::Update.
ChangeProtocol ==
    /\ ingesting = 0 /\ ~Flushing
    /\ sinks' \in SUBSET Protocols
    /\ UNCHANGED <<flushVars, dict, roundVars, stayed>>

-----------------------------------------------------------------------------
(* ForceFlushRawPackets                                                    *)

Flush ==
    /\ Flushing /\ flushes <= MaxFlushes /\ ~AllEmpty
    /\ flushes' = flushes + 1
    /\ LET modeS == Packed(1, ArrayLen)
           adsb == Packed(2, ArrayLen - modeS * Size[1])
           uplink == Packed(3, ArrayLen - modeS * Size[1] - adsb * Size[2])
       IN  queued' = [queued EXCEPT ![1] = @ - modeS, ![2] = @ - adsb, ![3] = @ - uplink]
    /\ UpdateReporting
    /\ UNCHANGED <<ingesting, pending, dict, sinks>>

EndFlush ==
    /\ Flushing /\ (flushes > MaxFlushes \/ AllEmpty)
    /\ flushes' = 0
    /\ UNCHANGED <<queued, ingesting, pending, dict, sinks, roundVars, stayed>>

-----------------------------------------------------------------------------

ReportingInit ==
    /\ queued = [k \in Kinds |-> 0]
    /\ ingesting = 0 /\ pending = FALSE /\ flushes = 0
    /\ dict = {} /\ stayed = {} /\ sinks = {}
    /\ report_uids_ = <<>> /\ active = {}
    /\ report_index = [p \in Protocols |-> 0]
    /\ due = FALSE
    /\ reported = NoneReported

ReportingNext ==
    \/ BeginIngest \/ Ingest \/ EnqueuePending \/ NextLoop
    \/ FlushInTime \/ Flush \/ EndFlush
    \/ Prune \/ ChangeProtocol \/ IntervalPasses

ReportingSpec == ReportingInit /\ [][ReportingNext]_reportingVars

FairReportingSpec == ReportingSpec /\ WF_reportingVars(IntervalPasses)

-----------------------------------------------------------------------------

\* The queues stay within their length, a packet waits only inside a loop, and
\* no protocol is further than the end of the snapshot.
ReportingTypeOK ==
    /\ \A k \in Kinds : queued[k] \in 0 .. Depth(k)
    /\ ingesting \in 0 .. 3 /\ pending \in BOOLEAN
    /\ pending => ingesting \in Kinds /\ queued[ingesting] <= Depth(ingesting)
    /\ flushes \in 0 .. MaxFlushes + 1
    /\ Cardinality(dict) <= MaxCraft
    /\ active \subseteq Protocols /\ sinks \subseteq Protocols
    /\ \A p \in Protocols : report_index[p] \in 0 .. Len(report_uids_)

\* A flush leaves nothing behind, whatever the queues held: the packet it was
\* called for is never refused ("reporting queue overflowed"), and "not fully
\* drained" is never printed.
FlushMakesRoom == [][Flushing /\ flushes' = 0 => AllEmpty]_reportingVars

EndsRound(p) == Flush /\ p \in sinks /\ p \notin active' /\ (BeginsRound \/ p \in active)

\* A protocol that ends its round has reported on every aircraft that was in
\* the dictionary all the while, although the others walk the same snapshot
\* at their own pace and aircraft come and go.
RoundCoversDictionary ==
    [][\A p \in Protocols : EndsRound(p) => stayed' \subseteq reported'[p]]_reportingVars

\* As long as there is traffic, a protocol that keeps a sink begins and ends
\* rounds for ever, whatever becomes of the sinks of the others.
RoundsGoOn ==
    \A p \in Protocols :
       <>[](p \in sinks) /\ []<><<Flush>>_reportingVars => []<><<EndsRound(p)>>_reportingVars
=============================================================================
