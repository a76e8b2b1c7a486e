-------------------------- MODULE AircraftDictionary --------------------------
(***************************************************************************)
(* AircraftDictionary: the table of the aircraft that are being heard, on  *)
(* the RP2040 and again on the ESP32, its fixed pool of map nodes, and     *)
(* lowest_aircraft_entry, a raw pointer into one of the nodes from which   *)
(* the receiver takes its own position, the reference against which the    *)
(* positions of Mode S aircraft on the ground are decoded in turn.         *)
(*                                                                         *)
(* The dictionary and its users run on one core.  What can go wrong is the *)
(* order of messages, prunings and evictions: a node is freed and given to *)
(* another aircraft while the pointer stays.  How a position comes about   *)
(* is ModeSTrack's subject; here a message may yield one, lose one, or     *)
(* leave it alone.                                                         *)
(***************************************************************************)
EXTENDS Integers, FiniteSets, Functions

CONSTANTS
    ModeS, UAT,            \* the UIDs of Mode S and of UAT aircraft
    kMaxNumAircraft,
    aircraft_prune_interval_ms,
    Altitudes,             \* GNSS altitudes that messages report
    Processors,            \* where the dictionary is
    MaxTime,               \* bound on the time since boot
    NULL

Aircraft == ModeS \cup UAT
Blocks == 1 .. kMaxNumAircraft

ASSUME DictionaryAssumption ==
    /\ IsFiniteSet(Aircraft) /\ ModeS \cap UAT = {}
    /\ kMaxNumAircraft \in Nat \ {0}
    /\ aircraft_prune_interval_ms \in Nat
    /\ Altitudes \subseteq Int /\ 0 \in Altitudes
    /\ Processors \subseteq {"rp2040", "esp32"}
    /\ MaxTime \in Nat \ {0}
    /\ NULL \notin Nat

VARIABLES
    now,                     \* get_time_since_boot_ms()
    processor,               \* fixed when the firmware is built
    dict,                    \* the entries, by UID
    lowest_aircraft_entry,   \* the node it points into, or NULL
    reference                \* what the reference position was decoded from

vars == <<now, processor, dict, lowest_aircraft_entry, reference>>

\* How the position an entry shows was decoded: "none" while it is not valid,
\* "relative" with the help of the reference position.
Fixes == {"none", "direct", "relative"}

\* A node that the free list could not provide comes from the memory of the
\* hash buckets.
NoBlock == 0

Entry ==
    [block : Blocks \cup {NoBlock}, last_message : 0 .. MaxTime, airborne : BOOLEAN,
     gnss : Altitudes, gnss_valid : BOOLEAN, fix : Fixes]

TypeOK ==
    /\ now \in 1 .. MaxTime
    /\ processor \in Processors
    /\ DOMAIN dict \subseteq Aircraft
    /\ dict \in [DOMAIN dict -> Entry]
    /\ lowest_aircraft_entry \in Blocks \cup {NULL}
    /\ reference \in Fixes

Init ==
    /\ now = 1
    /\ processor \in Processors
    /\ dict = [u \in {} |-> 0]
    /\ lowest_aircraft_entry = NULL
    /\ reference = "none"

Owners(block) == {u \in DOMAIN dict : dict[u].block = block}
Owner(block) == CHOOSE u \in Owners(block) : TRUE

-----------------------------------------------------------------------------
(* The table: nodes, eviction, insertion.  A table is taken together with  *)
(* the pointer into it.                                                    *)

Table == [dict |-> dict, lowest |-> lowest_aircraft_entry]

Free(d) == Blocks \ {d[u].block : u \in DOMAIN d}

\* The free list hands out what was freed last; which node that is does not
\* matter here.
Allocate(d) == IF Free(d) = {} THEN {NoBlock} ELSE Free(d)

Oldest == {u \in DOMAIN dict : \A v \in DOMAIN dict : dict[u].last_message <= dict[v].last_message}

\* Mutant: the pointer is not looked at.
EraseOnly(uid) ==
    [dict |-> Restrict(dict, DOMAIN dict \ {uid}), lowest |-> lowest_aircraft_entry]

Erase(uid) ==
    [dict |-> Restrict(dict, DOMAIN dict \ {uid}),
     lowest |-> IF lowest_aircraft_entry = dict[uid].block THEN NULL
                ELSE lowest_aircraft_entry]

\* Mutant: the aircraft heard last makes room.
RemoveNewestAircraft ==
    {Erase(u) : u \in {w \in DOMAIN dict :
        \A v \in DOMAIN dict : dict[w].last_message >= dict[v].last_message}}

RemoveOldestAircraft == {Erase(u) : u \in Oldest}

\* Mutant: one more than there are nodes.
MakeRoomLate ==
    IF Cardinality(DOMAIN dict) > kMaxNumAircraft THEN RemoveOldestAircraft ELSE {Table}

MakeRoom ==
    IF Cardinality(DOMAIN dict) >= kMaxNumAircraft THEN RemoveOldestAircraft ELSE {Table}

NewEntry(block) ==
    [block |-> block, last_message |-> 0, airborne |-> FALSE,
     gnss |-> 0, gnss_valid |-> FALSE, fix |-> "none"]

Insert(table, uid, block) ==
    [table EXCEPT !.dict = [u \in DOMAIN table.dict \cup {uid} |->
        IF u = uid THEN NewEntry(block) ELSE table.dict[u]]]

\* The tables in which uid can be found, inserted if it was not.
GetAircraftPtr(uid) ==
    IF uid \in DOMAIN dict THEN {Table}
    ELSE UNION {{Insert(table, uid, block) : block \in Allocate(table.dict)} :
                  table \in MakeRoom}

\* The entry of uid, made if need be, becomes one of Updates(entry).
Apply(uid, Updates(_)) ==
    \E table \in GetAircraftPtr(uid) : \E entry \in Updates(table.dict[uid]) :
        /\ dict' = [table.dict EXCEPT ![uid] = entry]
        /\ lowest_aircraft_entry' = table.lowest
        /\ UNCHANGED <<now, processor, reference>>

-----------------------------------------------------------------------------
(* Messages.                                                               *)

Heard(entry) == [entry EXCEPT !.last_message = now]

\* All-call replies, identification, status and military squitters.
JustHeard(entry) == {Heard(entry)}

ReportedAltitudes(entry) ==
    {[entry EXCEPT !.gnss = altitude, !.gnss_valid = TRUE] : altitude \in Altitudes}

\* A GNSS altitude is reported, found not to be available, or not mentioned.
GNSSAltitudes(entry) ==
    ReportedAltitudes(entry) \cup {[entry EXCEPT !.gnss_valid = FALSE], entry}

Positions(entries, fix) ==
    entries \cup {[e EXCEPT !.fix = f] : e \in entries, f \in {fix, "none"}}

Flying(entry) == [entry EXCEPT !.airborne = TRUE]

AirbornePosition(entry) == Positions(GNSSAltitudes(Flying(Heard(entry))), "direct")

\* The difference between the GNSS and the barometric altitude.
AirborneVelocities(entry) ==
    LET heard == Flying(Heard(entry)) IN ReportedAltitudes(heard) \cup {heard}

SurfacePosition(entry) ==
    Positions({[Heard(entry) EXCEPT !.airborne = FALSE]}, "relative")

\* UAT messages report the position itself.
StateVector(entry) ==
    Positions(GNSSAltitudes(Heard(entry)) \cup GNSSAltitudes(Flying(Heard(entry))), "direct")

\* An identity or altitude reply: a sign of life that is not written down.
Reply(entry) == {[entry EXCEPT !.airborne = value] : value \in BOOLEAN}

IngestModeSADSBPacket ==
    \E uid \in ModeS :
        \/ Apply(uid, JustHeard)
        \/ Apply(uid, AirbornePosition)
        \/ Apply(uid, AirborneVelocities)
        \/ Apply(uid, SurfacePosition)

IngestModeSAllCallReplyPacket == \E uid \in ModeS : Apply(uid, JustHeard)

\* The address of a reply is only known from its parity: the RP2040 believes
\* it if it knows the aircraft, the ESP32 believes the RP2040.
IngestModeSReplyPacket ==
    \E uid \in ModeS :
        /\ uid \in DOMAIN dict \/ processor = "esp32"
        /\ Apply(uid, Reply)

IngestDecodedUATADSBPacket ==
    \E uid \in UAT : Apply(uid, JustHeard) \/ Apply(uid, StateVector)

-----------------------------------------------------------------------------
(* Pruning, and the receiver's own position.                               *)

Stale(uid) == now - dict[uid].last_message > aircraft_prune_interval_ms

\* Mode S aircraft on the ground need the reference position themselves.
Candidates ==
    {u \in DOMAIN dict : ~ Stale(u) /\ dict[u].gnss_valid /\ (u \in ModeS => dict[u].airborne)}

Below(uid, block) == block = NULL \/ dict[uid].gnss < dict[Owner(block)].gnss

\* Where a pointer that starts at block may end when uids are visited in some
\* order: at the first of the lowest ones, if that is below the block.
Visit(block, uids) ==
    LET lower == {u \in uids : Below(u, block)}
    IN  IF lower = {} THEN {block}
        ELSE {dict[u].block : u \in {w \in lower : \A v \in lower : dict[w].gnss <= dict[v].gnss}}

LowestStale == lowest_aircraft_entry # NULL /\ Stale(Owner(lowest_aircraft_entry))

\* Mutant: pruning does not look at the pointer.
UpdateErasingOnly ==
    /\ dict' = Restrict(dict, {u \in DOMAIN dict : ~ Stale(u)})
    /\ \E block \in Visit(lowest_aircraft_entry, Candidates) : lowest_aircraft_entry' = block
    /\ UNCHANGED <<now, processor, reference>>

\* Mutant: what is higher replaces what is lower.
UpdateToHighest ==
    /\ dict' = Restrict(dict, {u \in DOMAIN dict : ~ Stale(u)})
    /\ lowest_aircraft_entry' \in {dict[u].block : u \in Candidates} \cup
          (IF LowestStale THEN {NULL} ELSE {lowest_aircraft_entry})
    /\ UNCHANGED <<now, processor, reference>>

\* One pass over the map in the order of its buckets: some candidates, those
\* in Before, are compared with the lowest entry before it is found stale, the
\* others afterwards.
Update ==
    /\ dict' = Restrict(dict, {u \in DOMAIN dict : ~ Stale(u)})
    /\ \E Before \in SUBSET Candidates : \E block \in Visit(lowest_aircraft_entry, Before) :
          lowest_aircraft_entry' \in
              Visit(IF LowestStale /\ block = lowest_aircraft_entry THEN NULL ELSE block,
                    Candidates \ Before)
    /\ UNCHANGED <<now, processor, reference>>

\* The receiver's position source is the lowest aircraft.  The ESP32 takes the
\* reference the RP2040 has.
UpdateRxPosition ==
    /\ processor = "rp2040"
    /\ lowest_aircraft_entry # NULL
    /\ dict[Owner(lowest_aircraft_entry)].fix # "none"
    /\ reference' = dict[Owner(lowest_aircraft_entry)].fix
    /\ UNCHANGED <<now, processor, dict, lowest_aircraft_entry>>

Tick ==
    /\ now < MaxTime /\ now' = now + 1
    /\ UNCHANGED <<processor, dict, lowest_aircraft_entry, reference>>

Next ==
    \/ IngestModeSADSBPacket
    \/ IngestModeSAllCallReplyPacket
    \/ IngestModeSReplyPacket
    \/ IngestDecodedUATADSBPacket
    \/ Update
    \/ UpdateRxPosition
    \/ Tick

Spec == Init /\ [][Next]_vars

-----------------------------------------------------------------------------

(***************************************************************************)
(* The capacity guard of InsertAircraft is what keeps the fixed pool from  *)
(* running out: every aircraft has a node of the free list, and no two     *)
(* have the same one.                                                      *)
(***************************************************************************)
PoolNeverExhausted ==
    \A u \in DOMAIN dict :
        /\ dict[u].block \in Blocks
        /\ \A v \in DOMAIN dict : dict[v].block = dict[u].block => v = u

(***************************************************************************)
(* lowest_aircraft_entry never dangles: the node it points into belongs to *)
(* an aircraft of the dictionary ...                                       *)
(***************************************************************************)
LowestEntryLive ==
    lowest_aircraft_entry # NULL => Owners(lowest_aircraft_entry) # {}

(***************************************************************************)
(* ... and while the pointer stays, to the same aircraft, although nodes   *)
(* are handed from one aircraft to the next.                               *)
(***************************************************************************)
LowestEntryKeepsAircraft ==
    [][(lowest_aircraft_entry # NULL /\ lowest_aircraft_entry' = lowest_aircraft_entry) =>
          Owners(lowest_aircraft_entry)' = Owners(lowest_aircraft_entry)]_vars

(***************************************************************************)
(* No aircraft heard from within the pruning interval is removed, unless   *)
(* the dictionary is full and no other one has been silent for longer.     *)
(***************************************************************************)
FreshAircraftKept ==
    [][\A u \in DOMAIN dict \ DOMAIN dict' :
          \/ Stale(u)
          \/ /\ Cardinality(DOMAIN dict) = kMaxNumAircraft
             /\ u \in Oldest]_vars

(***************************************************************************)
(* On the RP2040 no aircraft is in the dictionary that has not sent a      *)
(* message whose checksum says by itself that it is valid: noise that      *)
(* looks like a reply makes no aircraft.                                   *)
(***************************************************************************)
EveryAircraftHeard ==
    processor = "rp2040" => \A u \in DOMAIN dict : dict[u].last_message > 0

(***************************************************************************)
(* After an update no aircraft that qualifies is below the lowest one,     *)
(* and there is a lowest one if any qualifies - unless the entry pointed   *)
(* to was itself found stale on the way.                                   *)
(***************************************************************************)
LowestIsLowest ==
    [][(Update /\ ~ LowestStale) =>
          \A u \in Candidates :
              /\ lowest_aircraft_entry' # NULL
              /\ ~ Below(u, lowest_aircraft_entry')]_vars

(***************************************************************************)
(* "Don't trust Mode S Aircraft that are already on the ground to provide  *)
(* a reference location, since they need a reference location to be        *)
(* decoded!" - the reference is never a position decoded from a reference. *)
(***************************************************************************)
ReferenceNotFromReference == reference # "relative"

=============================================================================
