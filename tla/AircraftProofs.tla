--------------------------- MODULE AircraftProofs ---------------------------
(***************************************************************************)
(* The dictionary, for every finite set of aircraft, every capacity, pruning*)
(* interval and set of altitudes; and the track of one aircraft, for all   *)
(* places, speeds, clock offsets, delays and interval and filter constants,*)
(* as long as timestamps do not wrap.                                      *)
(***************************************************************************)
EXTENDS MCAircraft, FiniteSetTheorems, TLAPS

\* What makes a table and the pointer into it sound: nodes are of the pool and
\* have one owner, there is one node for every aircraft, and the pointer
\* points into one of them.
Sound(d, lowest) ==
    /\ DOMAIN d \subseteq Aircraft
    /\ d \in [DOMAIN d -> Entry]
    /\ \A u \in DOMAIN d : d[u].block \in Blocks
    /\ \A u, v \in DOMAIN d : d[u].block = d[v].block => u = v
    /\ Cardinality(DOMAIN d) <= kMaxNumAircraft
    /\ lowest # NULL => \E u \in DOMAIN d : d[u].block = lowest

DictInv ==
    /\ now \in 1 .. MaxTime /\ processor \in Processors /\ reference \in Fixes
    /\ Sound(dict, lowest_aircraft_entry)

\* The pointer is not moved to another aircraft by leaving it where it is.
SameLowest(d, lowest) ==
    (lowest_aircraft_entry # NULL /\ lowest = lowest_aircraft_entry) =>
        {u \in DOMAIN d : d[u].block = lowest} = Owners(lowest_aircraft_entry)

LEMMA FiniteDomain ==
    ASSUME NEW d, DOMAIN d \subseteq Aircraft
    PROVE  IsFiniteSet(DOMAIN d) /\ Cardinality(DOMAIN d) \in Nat
  BY DictionaryAssumption, FS_Subset, FS_CardinalityType

\* As long as the table is not full there is a free node.
LEMMA RoomLeft ==
    ASSUME NEW d, NEW lowest, Sound(d, lowest), Cardinality(DOMAIN d) < kMaxNumAircraft
    PROVE  Free(d) # {}
<1>. SUFFICES ASSUME Free(d) = {} PROVE FALSE
  OBVIOUS
<1>. DEFINE f == [u \in DOMAIN d |-> d[u].block]
<1>1. f \in Surjection(DOMAIN d, Blocks)
  <2>1. f \in [DOMAIN d -> Blocks]
    BY DEF Sound
  <2>2. \A b \in Blocks : \E u \in DOMAIN d : f[u] = b
    BY DEF Free
  <2>. QED
    BY <2>1, <2>2 DEF Surjection
<1>2. Cardinality(Blocks) <= Cardinality(DOMAIN d)
  BY <1>1, FiniteDomain, FS_Surjection DEF Sound
<1>3. Cardinality(Blocks) = kMaxNumAircraft
  BY DictionaryAssumption, FS_Interval DEF Blocks
<1>. QED
  BY <1>2, <1>3, FiniteDomain, DictionaryAssumption DEF Sound

\* Restricting the table keeps it sound, if the pointer goes with its node.
LEMMA RestrictSound ==
    ASSUME NEW d, NEW lowest, NEW D \in SUBSET DOMAIN d, NEW l,
           Sound(d, lowest), l # NULL => \E u \in D : d[u].block = l
    PROVE  Sound(Restrict(d, D), l)
<1>1. DOMAIN Restrict(d, D) = D /\ \A u \in D : Restrict(d, D)[u] = d[u]
  BY DEF Restrict
<1>2. Restrict(d, D) \in [D -> Entry]
  BY DEF Restrict, Sound
<1>3. Cardinality(D) <= Cardinality(DOMAIN d) /\ Cardinality(D) \in Nat
  BY FiniteDomain, FS_Subset, FS_CardinalityType DEF Sound
<1>4. Cardinality(D) <= kMaxNumAircraft
  BY <1>3, FiniteDomain, DictionaryAssumption DEF Sound
<1>. QED
  BY <1>1, <1>2, <1>4 DEF Sound

LEMMA EraseSound ==
    ASSUME DictInv, NEW uid \in DOMAIN dict
    PROVE  /\ Sound(Erase(uid).dict, Erase(uid).lowest)
           /\ SameLowest(Erase(uid).dict, Erase(uid).lowest)
           /\ Cardinality(DOMAIN Erase(uid).dict) < kMaxNumAircraft
           /\ DOMAIN Erase(uid).dict = DOMAIN dict \ {uid}
           /\ \A u \in DOMAIN dict \ {uid} : Erase(uid).dict[u] = dict[u]
<1>. DEFINE D == DOMAIN dict \ {uid}
            l == IF lowest_aircraft_entry = dict[uid].block THEN NULL ELSE lowest_aircraft_entry
<1>1. Erase(uid).dict = Restrict(dict, D) /\ Erase(uid).lowest = l
  BY DEF Erase
<1>2. l # NULL => \E u \in D : dict[u].block = l
  BY DEF DictInv, Sound
<1>3. DOMAIN Restrict(dict, D) = D /\ \A u \in D : Restrict(dict, D)[u] = dict[u]
  BY DEF Restrict
<1>4. Sound(Restrict(dict, D), l)
  BY <1>2, RestrictSound DEF DictInv
<1>5. SameLowest(Restrict(dict, D), l)
  BY <1>3 DEF SameLowest, Owners
<1>6. Cardinality(D) < kMaxNumAircraft
  <2>1. Cardinality(D) = Cardinality(DOMAIN dict) - 1
    BY FiniteDomain, FS_RemoveElement DEF DictInv, Sound
  <2>. QED
    BY <2>1, FiniteDomain, DictionaryAssumption DEF DictInv, Sound
<1>. QED
  BY <1>1, <1>3, <1>4, <1>5, <1>6

LEMMA MakeRoomSound ==
    ASSUME DictInv, NEW table \in MakeRoom
    PROVE  /\ Sound(table.dict, table.lowest) /\ SameLowest(table.dict, table.lowest)
           /\ Cardinality(DOMAIN table.dict) < kMaxNumAircraft
           /\ DOMAIN table.dict \subseteq DOMAIN dict
           /\ \A u \in DOMAIN table.dict : table.dict[u] = dict[u]
<1>1. CASE Cardinality(DOMAIN dict) >= kMaxNumAircraft
  <2>1. PICK uid \in DOMAIN dict : table = Erase(uid)
    BY <1>1 DEF MakeRoom, RemoveOldestAircraft, Oldest
  <2>. QED
    BY <2>1, EraseSound
<1>2. CASE ~ (Cardinality(DOMAIN dict) >= kMaxNumAircraft)
  <2>1. table.dict = dict /\ table.lowest = lowest_aircraft_entry
    BY <1>2 DEF MakeRoom, Table
  <2>2. Cardinality(DOMAIN dict) < kMaxNumAircraft
    BY <1>2, FiniteDomain, DictionaryAssumption DEF DictInv, Sound
  <2>. QED
    BY <2>1, <2>2 DEF DictInv, SameLowest, Owners
<1>. QED
  BY <1>1, <1>2

LEMMA InsertSound ==
    ASSUME DictInv, NEW table \in MakeRoom, NEW uid \in Aircraft \ DOMAIN dict,
           NEW block \in Free(table.dict)
    PROVE  LET t == Insert(table, uid, block)
           IN  /\ Sound(t.dict, t.lowest) /\ SameLowest(t.dict, t.lowest)
               /\ DOMAIN t.dict = DOMAIN table.dict \cup {uid}
               /\ \A u \in DOMAIN table.dict : t.dict[u] = dict[u]
<1>. DEFINE d == [u \in DOMAIN table.dict \cup {uid} |->
                    IF u = uid THEN NewEntry(block) ELSE table.dict[u]]
<1>1. Insert(table, uid, block).dict = d /\ Insert(table, uid, block).lowest = table.lowest
  <2>1. \E x, y : table = [dict |-> x, lowest |-> y]
    BY DEF MakeRoom, RemoveOldestAircraft, Erase, Table
  <2>. QED
    BY <2>1 DEF Insert
<1>2. /\ Sound(table.dict, table.lowest) /\ SameLowest(table.dict, table.lowest)
      /\ Cardinality(DOMAIN table.dict) < kMaxNumAircraft
      /\ DOMAIN table.dict \subseteq DOMAIN dict
      /\ \A u \in DOMAIN table.dict : table.dict[u] = dict[u]
  BY MakeRoomSound
<1>3. NewEntry(block) \in Entry /\ NewEntry(block).block = block /\ block \in Blocks
  BY DictionaryAssumption DEF NewEntry, Entry, Free, Fixes
<1>4. d \in [DOMAIN table.dict \cup {uid} -> Entry]
  BY <1>2, <1>3 DEF Sound
<1>5. Cardinality(DOMAIN d) <= kMaxNumAircraft
  <2>1. IsFiniteSet(DOMAIN table.dict) /\ Cardinality(DOMAIN table.dict) \in Nat
    BY <1>2, FiniteDomain DEF Sound
  <2>2. Cardinality(DOMAIN d) = Cardinality(DOMAIN table.dict) + 1
    BY <1>2, <2>1, FS_AddElement
  <2>. QED
    BY <1>2, <2>1, <2>2, DictionaryAssumption
<1>6. /\ \A u \in DOMAIN d : d[u].block \in Blocks
      /\ \A u, v \in DOMAIN d : d[u].block = d[v].block => u = v
  BY <1>2, <1>3 DEF Sound, Free
<1>7. table.lowest # NULL => \E u \in DOMAIN d : d[u].block = table.lowest
  BY <1>2 DEF Sound
<1>8. Sound(d, table.lowest)
  BY <1>2, <1>4, <1>5, <1>6, <1>7 DEF Sound
<1>9. SameLowest(d, table.lowest)
  BY <1>2, <1>3 DEF SameLowest, Sound, Free
<1>. QED
  BY <1>1, <1>2, <1>8, <1>9

\* Wherever an aircraft is looked up, the free list provides its node.
LEMMA GetSound ==
    ASSUME DictInv, NEW uid \in Aircraft, NEW table \in GetAircraftPtr(uid)
    PROVE  /\ Sound(table.dict, table.lowest) /\ SameLowest(table.dict, table.lowest)
           /\ uid \in DOMAIN table.dict
           /\ \A u \in DOMAIN table.dict \ {uid} : u \in DOMAIN dict /\ table.dict[u] = dict[u]
           /\ uid \in DOMAIN dict => table.dict[uid] = dict[uid]
<1>1. CASE uid \in DOMAIN dict
  <2>1. table.dict = dict /\ table.lowest = lowest_aircraft_entry
    BY <1>1 DEF GetAircraftPtr, Table
  <2>. QED
    BY <1>1, <2>1 DEF DictInv, SameLowest, Owners
<1>2. CASE uid \notin DOMAIN dict
  <2>0. PICK room \in MakeRoom :
           table \in {Insert(room, uid, block) : block \in Allocate(room.dict)}
    BY <1>2 DEF GetAircraftPtr
  <2>1. PICK block \in Allocate(room.dict) : table = Insert(room, uid, block)
    BY <2>0
  <2>2. /\ Sound(room.dict, room.lowest)
        /\ Cardinality(DOMAIN room.dict) < kMaxNumAircraft
        /\ DOMAIN room.dict \subseteq DOMAIN dict
    BY MakeRoomSound
  <2>3. block \in Free(room.dict)
    BY <2>2, RoomLeft DEF Allocate
  <2>. QED
    BY <1>2, <2>1, <2>2, <2>3, InsertSound
<1>. QED
  BY <1>1, <1>2

-----------------------------------------------------------------------------

\* What the messages have in common.
Touch(uid) ==
    \E table \in GetAircraftPtr(uid) : \E entry \in Entry :
        /\ entry.block = table.dict[uid].block
        /\ \/ entry.last_message = now
           \/ /\ uid \in DOMAIN dict \/ processor = "esp32"
              /\ entry.last_message = table.dict[uid].last_message
        /\ dict' = [table.dict EXCEPT ![uid] = entry]
        /\ lowest_aircraft_entry' = table.lowest
        /\ UNCHANGED <<now, processor, reference>>

LEMMA HeardEntry ==
    ASSUME now \in 1 .. MaxTime, NEW e \in Entry
    PROVE  /\ Heard(e) \in Entry /\ Heard(e).block = e.block /\ Heard(e).last_message = now
           /\ Flying(e) \in Entry /\ Flying(e).block = e.block
           /\ Flying(e).last_message = e.last_message
<1>1. now \in 0 .. MaxTime
  BY DictionaryAssumption
<1>2. Heard(e) \in Entry /\ Heard(e).block = e.block /\ Heard(e).last_message = now
  BY <1>1 DEF Heard, Entry
<1>3. /\ Flying(e) \in Entry /\ Flying(e).block = e.block
      /\ Flying(e).last_message = e.last_message
  BY DEF Flying, Entry
<1>. QED
  BY <1>2, <1>3

LEMMA AltitudeEntries ==
    ASSUME NEW e \in Entry, NEW x \in GNSSAltitudes(e)
    PROVE  /\ x \in Entry /\ x.block = e.block /\ x.last_message = e.last_message
           /\ ReportedAltitudes(e) \subseteq GNSSAltitudes(e) /\ e \in GNSSAltitudes(e)
  BY DEF GNSSAltitudes, ReportedAltitudes, Entry

LEMMA PositionEntries ==
    ASSUME NEW E \in SUBSET Entry, NEW fix \in Fixes, NEW x \in Positions(E, fix)
    PROVE  x \in Entry /\ \E e \in E : x.block = e.block /\ x.last_message = e.last_message
  BY DEF Positions, Entry, Fixes

\* Every message but a reply writes down when it was heard, and leaves the
\* aircraft its node.
LEMMA MessageEntries ==
    ASSUME now \in 1 .. MaxTime, NEW e \in Entry,
           NEW x \in JustHeard(e) \cup AirbornePosition(e) \cup AirborneVelocities(e)
                       \cup SurfacePosition(e) \cup StateVector(e)
    PROVE  x \in Entry /\ x.block = e.block /\ x.last_message = now
<1>. DEFINE Good == {y \in Entry : y.block = e.block /\ y.last_message = now}
<1>0. Heard(e) \in Good /\ Flying(Heard(e)) \in Good
  BY HeardEntry
<1>1. GNSSAltitudes(Heard(e)) \subseteq Good /\ GNSSAltitudes(Flying(Heard(e))) \subseteq Good
  BY <1>0, AltitudeEntries
<1>2. \A E \in SUBSET Good : \A fix \in Fixes : Positions(E, fix) \subseteq Good
  BY PositionEntries
<1>3. "direct" \in Fixes /\ "relative" \in Fixes
  BY DEF Fixes
<1>4. CASE x \in JustHeard(e)
  BY <1>0, <1>4 DEF JustHeard
<1>5. CASE x \in AirbornePosition(e)
  BY <1>1, <1>2, <1>3, <1>5 DEF AirbornePosition
<1>6. CASE x \in AirborneVelocities(e)
  <2>1. ReportedAltitudes(Flying(Heard(e))) \subseteq Good
    BY <1>1 DEF GNSSAltitudes
  <2>. QED
    BY <1>0, <1>6, <2>1 DEF AirborneVelocities
<1>7. CASE x \in SurfacePosition(e)
  <2>1. [Heard(e) EXCEPT !.airborne = FALSE] \in Good
    BY <1>0 DEF Entry
  <2>. QED
    BY <1>2, <1>3, <1>7, <2>1 DEF SurfacePosition
<1>8. CASE x \in StateVector(e)
  BY <1>1, <1>2, <1>3, <1>8 DEF StateVector
<1>. QED
  BY <1>4, <1>5, <1>6, <1>7, <1>8

LEMMA ReplyEntries ==
    ASSUME NEW e \in Entry, NEW x \in Reply(e)
    PROVE  x \in Entry /\ x.block = e.block /\ x.last_message = e.last_message
  BY DEF Reply, Entry

LEMMA MessagesTouch ==
    ASSUME DictInv,
           \/ IngestModeSADSBPacket \/ IngestModeSAllCallReplyPacket
           \/ IngestModeSReplyPacket \/ IngestDecodedUATADSBPacket
    PROVE  \E uid \in Aircraft : Touch(uid)
<1>1. \A uid \in Aircraft : \A table \in GetAircraftPtr(uid) : table.dict[uid] \in Entry
  BY GetSound DEF Sound
<1>2. ASSUME NEW uid \in Aircraft, Apply(uid, JustHeard) PROVE Touch(uid)
  <2>1. PICK table \in GetAircraftPtr(uid) : \E entry \in JustHeard(table.dict[uid]) :
           /\ dict' = [table.dict EXCEPT ![uid] = entry]
           /\ lowest_aircraft_entry' = table.lowest
           /\ UNCHANGED <<now, processor, reference>>
    BY <1>2 DEF Apply
  <2>. QED
    BY ZenonT(40), <1>1, <2>1, MessageEntries DEF Touch, DictInv
<1>3. ASSUME NEW uid \in Aircraft, Apply(uid, AirbornePosition) PROVE Touch(uid)
  <2>1. PICK table \in GetAircraftPtr(uid) : \E entry \in AirbornePosition(table.dict[uid]) :
           /\ dict' = [table.dict EXCEPT ![uid] = entry]
           /\ lowest_aircraft_entry' = table.lowest
           /\ UNCHANGED <<now, processor, reference>>
    BY <1>3 DEF Apply
  <2>. QED
    BY ZenonT(40), <1>1, <2>1, MessageEntries DEF Touch, DictInv
<1>4. ASSUME NEW uid \in Aircraft, Apply(uid, AirborneVelocities) PROVE Touch(uid)
  <2>1. PICK table \in GetAircraftPtr(uid) : \E entry \in AirborneVelocities(table.dict[uid]) :
           /\ dict' = [table.dict EXCEPT ![uid] = entry]
           /\ lowest_aircraft_entry' = table.lowest
           /\ UNCHANGED <<now, processor, reference>>
    BY <1>4 DEF Apply
  <2>. QED
    BY ZenonT(40), <1>1, <2>1, MessageEntries DEF Touch, DictInv
<1>5. ASSUME NEW uid \in Aircraft, Apply(uid, SurfacePosition) PROVE Touch(uid)
  <2>1. PICK table \in GetAircraftPtr(uid) : \E entry \in SurfacePosition(table.dict[uid]) :
           /\ dict' = [table.dict EXCEPT ![uid] = entry]
           /\ lowest_aircraft_entry' = table.lowest
           /\ UNCHANGED <<now, processor, reference>>
    BY <1>5 DEF Apply
  <2>. QED
    BY ZenonT(40), <1>1, <2>1, MessageEntries DEF Touch, DictInv
<1>6. ASSUME NEW uid \in Aircraft, Apply(uid, StateVector) PROVE Touch(uid)
  <2>1. PICK table \in GetAircraftPtr(uid) : \E entry \in StateVector(table.dict[uid]) :
           /\ dict' = [table.dict EXCEPT ![uid] = entry]
           /\ lowest_aircraft_entry' = table.lowest
           /\ UNCHANGED <<now, processor, reference>>
    BY <1>6 DEF Apply
  <2>. QED
    BY ZenonT(40), <1>1, <2>1, MessageEntries DEF Touch, DictInv
<1>7. ASSUME NEW uid \in Aircraft, uid \in DOMAIN dict \/ processor = "esp32",
             Apply(uid, Reply)
      PROVE  Touch(uid)
  <2>1. PICK table \in GetAircraftPtr(uid) : \E entry \in Reply(table.dict[uid]) :
           /\ dict' = [table.dict EXCEPT ![uid] = entry]
           /\ lowest_aircraft_entry' = table.lowest
           /\ UNCHANGED <<now, processor, reference>>
    BY <1>7 DEF Apply
  <2>. QED
    BY ZenonT(40), <1>1, <1>7, <2>1, ReplyEntries DEF Touch
<1>8. ModeS \subseteq Aircraft /\ UAT \subseteq Aircraft
  BY DEF Aircraft
<1>a. CASE IngestModeSADSBPacket
  BY <1>a, <1>2, <1>3, <1>4, <1>5, <1>8 DEF IngestModeSADSBPacket
<1>b. CASE IngestModeSAllCallReplyPacket
  BY <1>b, <1>2, <1>8 DEF IngestModeSAllCallReplyPacket
<1>c. CASE IngestModeSReplyPacket
  BY <1>c, <1>7, <1>8 DEF IngestModeSReplyPacket
<1>d. CASE IngestDecodedUATADSBPacket
  BY <1>d, <1>2, <1>6, <1>8 DEF IngestDecodedUATADSBPacket
<1>. QED
  BY <1>a, <1>b, <1>c, <1>d

LEMMA TouchSound ==
    ASSUME DictInv, NEW uid \in Aircraft, Touch(uid)
    PROVE  Sound(dict, lowest_aircraft_entry)' /\ SameLowest(dict', lowest_aircraft_entry')
<1>1. PICK table \in GetAircraftPtr(uid), entry \in Entry :
         /\ entry.block = table.dict[uid].block
         /\ dict' = [table.dict EXCEPT ![uid] = entry]
         /\ lowest_aircraft_entry' = table.lowest
  BY DEF Touch
<1>2. /\ Sound(table.dict, table.lowest) /\ SameLowest(table.dict, table.lowest)
      /\ uid \in DOMAIN table.dict
  BY GetSound
<1>3. /\ DOMAIN dict' = DOMAIN table.dict
      /\ \A u \in DOMAIN table.dict : dict'[u].block = table.dict[u].block
  BY <1>1, <1>2
<1>4. dict' \in [DOMAIN dict' -> Entry]
  BY <1>1, <1>2 DEF Sound
<1>5. Sound(dict', lowest_aircraft_entry')
  BY <1>1, <1>2, <1>3, <1>4 DEF Sound
<1>6. SameLowest(dict', lowest_aircraft_entry')
  BY <1>1, <1>2, <1>3 DEF SameLowest
<1>. QED
  BY <1>5, <1>6 DEF Sound

\* An update moves the pointer only to entries that it keeps, whatever the
\* order it visits them in.
LEMMA UpdateSound ==
    ASSUME DictInv, Update
    PROVE  Sound(dict, lowest_aircraft_entry)' /\ SameLowest(dict', lowest_aircraft_entry')
<1>. DEFINE Fresh == {u \in DOMAIN dict : ~ Stale(u)}
<1>1. dict' = Restrict(dict, Fresh)
  BY DEF Update
<1>2. \A b, U : \A r \in Visit(b, U) : r = b \/ \E u \in U : r = dict[u].block
  BY DEF Visit
<1>3. PICK Before \in SUBSET Candidates : \E block \in Visit(lowest_aircraft_entry, Before) :
         lowest_aircraft_entry' \in
             Visit(IF LowestStale /\ block = lowest_aircraft_entry THEN NULL ELSE block,
                   Candidates \ Before)
  BY DEF Update
<1>4. PICK block \in Visit(lowest_aircraft_entry, Before) :
         lowest_aircraft_entry' \in
             Visit(IF LowestStale /\ block = lowest_aircraft_entry THEN NULL ELSE block,
                   Candidates \ Before)
  BY <1>3
<1>5. Candidates \subseteq Fresh
  BY DEF Candidates
<1>6. lowest_aircraft_entry # NULL /\ ~ LowestStale =>
         \E u \in Fresh : dict[u].block = lowest_aircraft_entry
  <2>. SUFFICES ASSUME lowest_aircraft_entry # NULL, ~ LowestStale
                PROVE  \E u \in Fresh : dict[u].block = lowest_aircraft_entry
    OBVIOUS
  <2>1. Owners(lowest_aircraft_entry) # {}
    BY DEF DictInv, Sound, Owners
  <2>2. Owner(lowest_aircraft_entry) \in Owners(lowest_aircraft_entry)
    BY <2>1 DEF Owner
  <2>3. ~ Stale(Owner(lowest_aircraft_entry))
    BY DEF LowestStale
  <2>. QED
    BY <2>2, <2>3 DEF Owners
<1>7. lowest_aircraft_entry' # NULL => \E u \in Fresh : dict[u].block = lowest_aircraft_entry'
  <2>1. block = lowest_aircraft_entry \/ \E u \in Fresh : block = dict[u].block
    BY <1>2, <1>4, <1>5
  <2>2. \/ lowest_aircraft_entry' = NULL
        \/ ~ (LowestStale /\ block = lowest_aircraft_entry) /\ lowest_aircraft_entry' = block
        \/ \E u \in Fresh : lowest_aircraft_entry' = dict[u].block
    BY <1>2, <1>4, <1>5
  <2>. QED
    BY <1>6, <2>1, <2>2
<1>8. Fresh \in SUBSET DOMAIN dict
  OBVIOUS
<1>9. Sound(dict', lowest_aircraft_entry')
  BY <1>1, <1>7, <1>8, RestrictSound DEF DictInv
<1>10. SameLowest(dict', lowest_aircraft_entry')
  <2>. SUFFICES ASSUME lowest_aircraft_entry # NULL,
                       lowest_aircraft_entry' = lowest_aircraft_entry
                PROVE  {u \in DOMAIN dict' : dict'[u].block = lowest_aircraft_entry}
                          = Owners(lowest_aircraft_entry)
    BY DEF SameLowest
  <2>1. DOMAIN dict' = Fresh /\ \A u \in Fresh : dict'[u] = dict[u]
    BY <1>1 DEF Restrict
  <2>2. PICK w \in Fresh : dict[w].block = lowest_aircraft_entry
    BY <1>7
  <2>3. \A u \in Owners(lowest_aircraft_entry) : u = w
    BY <2>2 DEF Owners, DictInv, Sound
  <2>. QED
    BY <2>1, <2>2, <2>3 DEF Owners
<1>. QED
  BY <1>9, <1>10 DEF Sound

-----------------------------------------------------------------------------

LEMMA InitInv == Init => DictInv
<1>. SUFFICES ASSUME Init PROVE DictInv
  OBVIOUS
<1>1. DOMAIN dict = {} /\ lowest_aircraft_entry = NULL
  BY DEF Init
<1>2. Cardinality({}) = 0
  BY FS_EmptySet
<1>3. dict \in [DOMAIN dict -> Entry]
  BY DEF Init
<1>4. Sound(dict, lowest_aircraft_entry)
  BY <1>1, <1>2, <1>3, DictionaryAssumption DEF Sound
<1>5. now \in 1 .. MaxTime /\ processor \in Processors /\ reference \in Fixes
  BY DictionaryAssumption DEF Init, Fixes
<1>. QED
  BY <1>4, <1>5 DEF DictInv

LEMMA NextInv ==
    ASSUME DictInv, [Next]_vars
    PROVE  DictInv' /\ SameLowest(dict', lowest_aircraft_entry')
<1>1. ASSUME NEW uid \in Aircraft, Touch(uid)
      PROVE  DictInv' /\ SameLowest(dict', lowest_aircraft_entry')
  <2>1. UNCHANGED <<now, processor, reference>>
    BY <1>1 DEF Touch
  <2>. QED
    BY <1>1, <2>1, TouchSound DEF DictInv
<1>2. CASE Update
  <2>1. UNCHANGED <<now, processor, reference>>
    BY <1>2 DEF Update
  <2>. QED
    BY <1>2, <2>1, UpdateSound DEF DictInv
<1>3. CASE UpdateRxPosition
  <2>1. UNCHANGED <<now, processor, dict, lowest_aircraft_entry>>
    BY <1>3 DEF UpdateRxPosition
  <2>2. reference' \in Fixes
    <3>1. Owners(lowest_aircraft_entry) # {}
      BY <1>3 DEF UpdateRxPosition, DictInv, Sound, Owners
    <3>2. Owner(lowest_aircraft_entry) \in DOMAIN dict
      BY <3>1 DEF Owner, Owners
    <3>. QED
      BY <1>3, <3>2 DEF UpdateRxPosition, DictInv, Sound, Entry
  <2>. QED
    BY <2>1, <2>2 DEF DictInv, SameLowest, Owners, Sound
<1>4. CASE Tick
  <2>1. UNCHANGED <<processor, dict, lowest_aircraft_entry, reference>>
    BY <1>4 DEF Tick
  <2>2. now' \in 1 .. MaxTime
    BY <1>4, DictionaryAssumption DEF Tick, DictInv
  <2>. QED
    BY <2>1, <2>2 DEF DictInv, SameLowest, Owners, Sound
<1>5. CASE UNCHANGED vars
  BY <1>5 DEF vars, DictInv, SameLowest, Owners, Sound
<1>. QED
  BY <1>1, <1>2, <1>3, <1>4, <1>5, MessagesTouch DEF Next

LEMMA InvType == DictInv => TypeOK
  BY DEF DictInv, Sound, TypeOK

LEMMA InvPool == DictInv => PoolNeverExhausted
  BY DEF DictInv, Sound, PoolNeverExhausted

LEMMA InvLowest == DictInv => LowestEntryLive
  BY DEF DictInv, Sound, LowestEntryLive, Owners

\* The dictionary's entries and its pointer are always well-formed.
THEOREM DictionaryTypes == Spec => []TypeOK
<1>. QED
  BY InitInv, NextInv, InvType, PTL DEF Spec

\* The free list of nodes never runs out, and no node has two owners: the
\* capacity guard of InsertAircraft is enough, for every capacity.
THEOREM PoolSuffices == Spec => []PoolNeverExhausted
<1>. QED
  BY InitInv, NextInv, InvPool, PTL DEF Spec

\* lowest_aircraft_entry never dangles: every operation that frees a node
\* looks at the pointer first.
THEOREM LowestNeverDangles == Spec => []LowestEntryLive
<1>. QED
  BY InitInv, NextInv, InvLowest, PTL DEF Spec

\* A pointer that stays goes on pointing to the same aircraft.
THEOREM LowestNeverChangesOwner == Spec => LowestEntryKeepsAircraft
<1>1. DictInv /\ [Next]_vars =>
         [(lowest_aircraft_entry # NULL /\ lowest_aircraft_entry' = lowest_aircraft_entry) =>
            Owners(lowest_aircraft_entry)' = Owners(lowest_aircraft_entry)]_vars
  BY NextInv DEF SameLowest, Owners
<1>. QED
  BY <1>1, InitInv, NextInv, PTL DEF Spec, LowestEntryKeepsAircraft

-----------------------------------------------------------------------------

LEMMA TouchHeard ==
    ASSUME DictInv, EveryAircraftHeard, NEW uid \in Aircraft, Touch(uid)
    PROVE  EveryAircraftHeard'
<1>. SUFFICES ASSUME processor = "rp2040", NEW u \in DOMAIN dict'
              PROVE  dict'[u].last_message > 0
  BY DEF EveryAircraftHeard, Touch
<1>1. PICK table \in GetAircraftPtr(uid), entry \in Entry :
         /\ entry.last_message = now \/
            (uid \in DOMAIN dict /\ entry.last_message = table.dict[uid].last_message)
         /\ dict' = [table.dict EXCEPT ![uid] = entry]
  BY DEF Touch
<1>2. /\ uid \in DOMAIN table.dict
      /\ \A v \in DOMAIN table.dict \ {uid} : v \in DOMAIN dict /\ table.dict[v] = dict[v]
      /\ uid \in DOMAIN dict => table.dict[uid] = dict[uid]
  BY GetSound
<1>3. CASE u # uid
  <2>1. u \in DOMAIN dict /\ dict'[u] = dict[u]
    BY <1>1, <1>2, <1>3
  <2>. QED
    BY <2>1 DEF EveryAircraftHeard
<1>4. CASE u = uid
  <2>1. dict'[u] = entry
    BY <1>1, <1>2, <1>4
  <2>2. CASE entry.last_message = now
    BY <2>1, <2>2 DEF DictInv
  <2>3. CASE uid \in DOMAIN dict /\ entry.last_message = table.dict[uid].last_message
    BY <1>2, <2>1, <2>3 DEF EveryAircraftHeard
  <2>. QED
    BY <1>1, <2>2, <2>3
<1>. QED
  BY <1>3, <1>4

\* On the RP2040 noise that looks like a reply never makes an aircraft.
THEOREM AlwaysEveryAircraftHeard == Spec => []EveryAircraftHeard
<1>1. Init => EveryAircraftHeard
  BY DEF Init, EveryAircraftHeard
<1>2. DictInv /\ EveryAircraftHeard /\ [Next]_vars => EveryAircraftHeard'
  <2>. SUFFICES ASSUME DictInv, EveryAircraftHeard, [Next]_vars PROVE EveryAircraftHeard'
    OBVIOUS
  <2>1. CASE Update
    <3>1. /\ DOMAIN dict' \subseteq DOMAIN dict
          /\ \A u \in DOMAIN dict' : dict'[u] = dict[u]
      BY <2>1 DEF Update, Restrict
    <3>2. processor' = processor
      BY <2>1 DEF Update
    <3>. QED
      BY <3>1, <3>2 DEF EveryAircraftHeard
  <2>2. CASE UpdateRxPosition \/ Tick \/ UNCHANGED vars
    BY <2>2 DEF UpdateRxPosition, Tick, vars, EveryAircraftHeard
  <2>. QED
    BY <2>1, <2>2, MessagesTouch, TouchHeard DEF Next
<1>. QED
  BY <1>1, <1>2, InitInv, NextInv, PTL DEF Spec

-----------------------------------------------------------------------------
(* Who is removed.                                                         *)

\* A lookup removes an aircraft only when the table is full, and then one that
\* has been silent for longest.
LEMMA GetRemovesOldest ==
    ASSUME DictInv, NEW uid \in Aircraft, NEW table \in GetAircraftPtr(uid),
           NEW u \in DOMAIN dict \ DOMAIN table.dict
    PROVE  Cardinality(DOMAIN dict) = kMaxNumAircraft /\ u \in Oldest
<1>1. uid \notin DOMAIN dict
  BY DEF GetAircraftPtr, Table
<1>2. PICK room \in MakeRoom :
         table \in {Insert(room, uid, block) : block \in Allocate(room.dict)}
  BY <1>1 DEF GetAircraftPtr
<1>3. PICK block \in Allocate(room.dict) : table = Insert(room, uid, block)
  BY <1>2
<1>4. block \in Free(room.dict)
  BY MakeRoomSound, RoomLeft DEF Allocate
<1>5. u \notin DOMAIN room.dict
  BY <1>1, <1>3, <1>4, InsertSound
<1>6. Cardinality(DOMAIN dict) >= kMaxNumAircraft
  BY <1>5 DEF MakeRoom, Table
<1>7. PICK oldest \in Oldest : room = Erase(oldest)
  BY <1>6 DEF MakeRoom, RemoveOldestAircraft
<1>8. u = oldest
  <2>1. oldest \in DOMAIN dict
    BY DEF Oldest
  <2>. QED
    BY <1>5, <1>7, <2>1, EraseSound
<1>9. Cardinality(DOMAIN dict) = kMaxNumAircraft
  BY <1>6, FiniteDomain, DictionaryAssumption DEF DictInv, Sound
<1>. QED
  BY <1>7, <1>8, <1>9

\* For every capacity and pruning interval: an aircraft heard from within the
\* interval is removed only from a full dictionary in which none has been
\* silent for longer.
THEOREM FreshAlwaysKept == Spec => FreshAircraftKept
<1>. DEFINE Kept == \A u \in DOMAIN dict \ DOMAIN dict' :
          \/ Stale(u)
          \/ /\ Cardinality(DOMAIN dict) = kMaxNumAircraft
             /\ u \in Oldest
<1>1. DictInv /\ [Next]_vars => [Kept]_vars
  <2>. SUFFICES ASSUME DictInv, Next, NEW u \in DOMAIN dict \ DOMAIN dict'
                PROVE  \/ Stale(u)
                       \/ Cardinality(DOMAIN dict) = kMaxNumAircraft /\ u \in Oldest
    OBVIOUS
  <2>1. ASSUME NEW uid \in Aircraft, Touch(uid)
        PROVE  Cardinality(DOMAIN dict) = kMaxNumAircraft /\ u \in Oldest
    <3>1. PICK table \in GetAircraftPtr(uid) : \E entry : dict' = [table.dict EXCEPT ![uid] = entry]
      BY <2>1 DEF Touch
    <3>2. DOMAIN dict' = DOMAIN table.dict
      BY <3>1
    <3>. QED
      BY <3>2, GetRemovesOldest
  <2>2. CASE Update
    BY <2>2 DEF Update, Restrict
  <2>3. ~ (UpdateRxPosition \/ Tick)
    BY DEF UpdateRxPosition, Tick
  <2>. QED
    BY <2>1, <2>2, <2>3, MessagesTouch DEF Next
<1>. QED
  BY <1>1, InitInv, NextInv, PTL DEF Spec, FreshAircraftKept

-----------------------------------------------------------------------------
(* The lowest aircraft.                                                    *)

\* A node has the aircraft it was given to as its owner.
LEMMA OwnerOf ==
    ASSUME DictInv, NEW u \in DOMAIN dict
    PROVE  /\ Owner(dict[u].block) = u
           /\ dict[u].block # NULL /\ dict[u].gnss \in Int
<1>1. Owners(dict[u].block) = {u}
  BY DEF DictInv, Sound, Owners
<1>2. dict[u].block # NULL
  BY DictionaryAssumption DEF DictInv, Sound, Blocks
<1>3. dict[u].gnss \in Int
  BY DictionaryAssumption DEF DictInv, Sound, Entry
<1>. QED
  BY <1>1, <1>2, <1>3 DEF Owner

\* A visit ends at an entry that none of those visited is below, and that is
\* not above the one it started from.
LEMMA VisitLowest ==
    ASSUME DictInv, NEW block, block # NULL => \E w \in DOMAIN dict : block = dict[w].block,
           NEW uids \in SUBSET DOMAIN dict, NEW result \in Visit(block, uids)
    PROVE  /\ result # NULL => \E w \in DOMAIN dict : result = dict[w].block
           /\ \A u \in uids : ~ Below(u, result)
           /\ \A u \in DOMAIN dict : ~ Below(u, block) => ~ Below(u, result)
<1>. DEFINE lower == {u \in uids : Below(u, block)}
<1>1. CASE lower = {}
  <2>1. result = block
    BY <1>1 DEF Visit
  <2>. QED
    BY <1>1, <2>1
<1>2. CASE lower # {}
  <2>1. PICK w \in lower : /\ \A v \in lower : dict[w].gnss <= dict[v].gnss
                           /\ result = dict[w].block
    BY <1>2 DEF Visit
  <2>2. w \in DOMAIN dict /\ Below(w, block)
    BY <2>1
  <2>3. Owner(result) = w /\ result # NULL
    BY <2>1, <2>2, OwnerOf
  <2>4. \A u \in DOMAIN dict : Below(u, result) <=> dict[u].gnss < dict[w].gnss
    BY <2>3 DEF Below
  <2>5. \A u \in lower : ~ Below(u, result)
    BY <2>1, <2>2, <2>4, OwnerOf
  <2>6. ASSUME NEW u \in DOMAIN dict, ~ Below(u, block) PROVE ~ Below(u, result)
    <3>1. PICK v \in DOMAIN dict : block = dict[v].block
      BY <2>6 DEF Below
    <3>2. Owner(block) = v
      BY <3>1, OwnerOf
    <3>3. dict[w].gnss < dict[v].gnss /\ ~ (dict[u].gnss < dict[v].gnss)
      BY <2>2, <2>6, <3>1, <3>2, OwnerOf DEF Below
    <3>. QED
      BY <2>2, <2>4, <3>3, OwnerOf
  <2>. QED
    BY <2>1, <2>2, <2>5, <2>6
<1>. QED
  BY <1>1, <1>2

\* After an update no candidate is below the entry pointed to, for every set
\* of altitudes and in whatever order the map is gone through.
THEOREM LowestAlwaysLowest == Spec => LowestIsLowest
<1>. DEFINE Lowest == (Update /\ ~ LowestStale) =>
          \A u \in Candidates :
              /\ lowest_aircraft_entry' # NULL
              /\ ~ Below(u, lowest_aircraft_entry')
<1>1. DictInv => Lowest
  <2>. SUFFICES ASSUME DictInv, Update, ~ LowestStale, NEW u \in Candidates
                PROVE  lowest_aircraft_entry' # NULL /\ ~ Below(u, lowest_aircraft_entry')
    OBVIOUS
  <2>1. PICK Before \in SUBSET Candidates : \E block \in Visit(lowest_aircraft_entry, Before) :
           lowest_aircraft_entry' \in Visit(block, Candidates \ Before)
    BY DEF Update
  <2>2. PICK block \in Visit(lowest_aircraft_entry, Before) :
           lowest_aircraft_entry' \in Visit(block, Candidates \ Before)
    BY <2>1
  <2>3. Before \in SUBSET DOMAIN dict /\ Candidates \ Before \in SUBSET DOMAIN dict
    BY DEF Candidates
  <2>4. lowest_aircraft_entry # NULL => \E w \in DOMAIN dict : lowest_aircraft_entry = dict[w].block
    BY DEF DictInv, Sound
  <2>5. block # NULL => \E w \in DOMAIN dict : block = dict[w].block
    BY ZenonT(40), <2>2, <2>3, <2>4, VisitLowest
  <2>6. \A v \in Before : ~ Below(v, block)
    BY ONLY <2>2, <2>3, <2>4, DictInv, VisitLowest
  <2>7. ~ Below(u, lowest_aircraft_entry')
    <3>1. CASE u \in Before
      BY ONLY <2>2, <2>3, <2>5, <2>6, <3>1, DictInv, VisitLowest
    <3>2. CASE u \in Candidates \ Before
      BY ONLY <2>2, <2>3, <2>5, <3>2, DictInv, VisitLowest
    <3>. QED
      BY <3>1, <3>2
  <2>. QED
    BY <2>7 DEF Below
<1>2. DictInv => [Lowest]_vars
  BY <1>1
<1>. QED
  BY <1>2, InitInv, NextInv, PTL DEF Spec, LowestIsLowest

-----------------------------------------------------------------------------
(* The track of one aircraft.                                              *)

Packet == [t : 0 .. MaxTrackTime, kind : Messages \cup {"none"}]

\* What a message leaves in the packets.
LEMMA StoredPackets ==
    ASSUME NEW old \in [Parities -> Packet], NEW parity \in Parities,
           NEW t \in 0 .. MaxTrackTime, NEW kind \in Messages, NEW kts
    PROVE  LET new == SetCPRLatLon(old, parity, t, kind, kts)
           IN  /\ new \in [Parities -> Packet]
               /\ new[parity] = [t |-> t, kind |-> kind]
               /\ \A p \in Parities \ {parity} : new[p] = old[p] \/ new[p] = NoPacket
<1>1. NoPacket \in Packet
  BY TrackAssumption DEF NoPacket, Packet
<1>2. [t |-> t, kind |-> kind] \in Packet
  BY DEF Packet
<1>3. Cleared \in [Parities -> Packet]
  BY <1>1 DEF Cleared
<1>. QED
  BY <1>2, <1>3 DEF SetCPRLatLon, Cleared

LEMMA WrittenPackets ==
    ASSUME packets \in [Parities -> Packet], NEW value \in BOOLEAN
    PROVE  WriteAirborne(value) \in [Parities -> Packet]
<1>1. NoPacket \in Packet
  BY TrackAssumption DEF NoPacket, Packet
<1>. QED
  BY <1>1 DEF WriteAirborne, Cleared

\* The three things a step can do to a track.
Keeps ==
    /\ UNCHANGED <<candidate, last_filter, position, last_track_update, decodes>>
    /\ position_valid' \in {position_valid, FALSE}

Decodes ==
    \E place \in Places, lag \in 0 .. 1 : Unfiltered(place, lag) \/ Filtered(place, lag)

LEMMA DecodeCases == ASSUME position_valid \in BOOLEAN, DecodePosition PROVE Keeps \/ Decodes
<1>1. CASE NoPair
  BY <1>1 DEF NoPair, Keeps, track
<1>2. ASSUME NEW lag \in 0 .. 1, TooFarApart(lag) PROVE Keeps
  BY <1>2 DEF TooFarApart, Keeps
<1>3. ASSUME NEW lag \in 0 .. 1, ZonesDiffer(lag) \/ NotNewer(lag) PROVE Keeps
  BY <1>3 DEF ZonesDiffer, NotNewer, Keeps, track
<1>. QED
  BY <1>1, <1>2, <1>3 DEF DecodePosition, Decodes

\* What every step has in common.
LEMMA StepCases ==
    ASSUME TrackTypeOK, [TrackNext]_trackVars
    PROVE  /\ packets' \in [Parities -> Packet]
           /\ mlat' \in 0 .. MaxTrackTime /\ filter' = filter /\ airborne' \in BOOLEAN
           /\ speed' \in Speeds \cup {NotSet}
           /\ Keeps \/ Decodes
<1>. USE TrackAssumption
<1>0. packets \in [Parities -> Packet]
  BY DEF TrackTypeOK, Packet
<1>1. CASE UNCHANGED trackVars
  BY <1>0, <1>1 DEF trackVars, track, TrackTypeOK, Keeps
<1>2. CASE ClockTick
  BY SMTT(30), <1>0, <1>2 DEF ClockTick, track, TrackTypeOK, Keeps
<1>3. CASE ApplyAirborneVelocitiesMessage
  BY <1>0, <1>3, WrittenPackets DEF ApplyAirborneVelocitiesMessage, track, TrackTypeOK, Keeps
<1>4. CASE IngestReply
  BY <1>0, <1>4, WrittenPackets DEF IngestReply, track, TrackTypeOK, Keeps
<1>5. ASSUME NEW parity \in Parities, NEW t \in Received,
             ApplyAirbornePositionMessage(parity, t)
      PROVE  /\ packets' \in [Parities -> Packet]
             /\ mlat' \in 0 .. MaxTrackTime /\ filter' = filter /\ airborne' \in BOOLEAN
             /\ speed' \in Speeds \cup {NotSet}
             /\ Keeps \/ Decodes
  <2>1. WriteAirborne(TRUE) \in [Parities -> Packet]
    BY <1>0, WrittenPackets
  <2>2. packets' \in [Parities -> Packet]
    BY <1>5, <2>1, StoredPackets DEF ApplyAirbornePositionMessage, Received, Messages
  <2>3. Keeps \/ Decodes
    BY <1>5, DecodeCases DEF ApplyAirbornePositionMessage, TrackTypeOK
  <2>. QED
    BY <1>5, <2>2, <2>3 DEF ApplyAirbornePositionMessage, TrackTypeOK
<1>6. ASSUME NEW parity \in Parities, NEW t \in Received, NEW kts \in Speeds,
             ApplySurfacePositionMessage(parity, t, kts)
      PROVE  /\ packets' \in [Parities -> Packet]
             /\ mlat' \in 0 .. MaxTrackTime /\ filter' = filter /\ airborne' \in BOOLEAN
             /\ speed' \in Speeds \cup {NotSet}
             /\ Keeps \/ Decodes
  <2>1. WriteAirborne(FALSE) \in [Parities -> Packet]
    BY <1>0, WrittenPackets
  <2>2. packets' \in [Parities -> Packet]
    BY <1>6, <2>1, StoredPackets DEF ApplySurfacePositionMessage, Received, Messages
  <2>3. Keeps \/ Decodes
    BY <1>6, DecodeCases DEF ApplySurfacePositionMessage, TrackTypeOK
  <2>. QED
    BY <1>6, <2>2, <2>3 DEF ApplySurfacePositionMessage, TrackTypeOK
<1>. QED
  BY <1>1, <1>2, <1>3, <1>4, <1>5, <1>6 DEF TrackNext

LEMMA MostRecentType ==
    ASSUME packets' \in [Parities -> Packet]
    PROVE  MostRecent \in 0 .. MaxTrackTime
<1>1. packets'["even"] \in Packet /\ packets'["odd"] \in Packet
  BY DEF Parities
<1>2. packets'["even"].t \in 0 .. MaxTrackTime /\ packets'["odd"].t \in 0 .. MaxTrackTime
  BY <1>1 DEF Packet
<1>. QED
  BY <1>2, TrackAssumption DEF MostRecent, Greater

LEMMA RecordedType ==
    ASSUME TrackTypeOK, NEW place \in Places
    PROVE  /\ Recorded(place) \in Seq(Places)
           /\ Len(Recorded(place)) \in 1 .. 2
           /\ Recorded(place)[Len(Recorded(place))] = place
           /\ Len(Recorded(place)) = 2 =>
                 decodes # << >> /\ Recorded(place)[1] = decodes[Len(decodes)]
<1>1. CASE decodes = << >>
  <2>1. Recorded(place) = <<place>>
    BY <1>1 DEF Recorded
  <2>. QED
    BY <2>1
<1>2. CASE decodes # << >>
  <2>1. decodes[Len(decodes)] \in Places
    BY <1>2 DEF TrackTypeOK
  <2>2. Recorded(place) = <<decodes[Len(decodes)], place>>
    BY <1>2 DEF Recorded
  <2>. QED
    BY <1>2, <2>1, <2>2
<1>. QED
  BY <1>1, <1>2

-----------------------------------------------------------------------------

LEMMA InitType == TrackInit => TrackTypeOK
<1>1. Cleared \in [Parities -> Packet]
  BY TrackAssumption DEF Cleared, NoPacket, Packet
<1>2. Greater(0, -ClockOffset) \in 0 .. MaxTrackTime /\ 0 \in 0 .. MaxTrackTime
  BY TrackAssumption DEF Greater
<1>3. << >> \in Seq(Places) /\ Len(<< >>) = 0
  OBVIOUS
<1>. SUFFICES ASSUME TrackInit PROVE TrackTypeOK
  OBVIOUS
<1>4. filter \in BOOLEAN /\ airborne \in BOOLEAN /\ position_valid \in BOOLEAN
  BY DEF TrackInit
<1>5. packets \in [Parities -> Packet]
  BY <1>1 DEF TrackInit
<1>6. /\ mlat \in 0 .. MaxTrackTime /\ last_filter \in 0 .. MaxTrackTime
      /\ last_track_update \in 0 .. MaxTrackTime
  BY <1>2 DEF TrackInit
<1>7. decodes \in Seq(Places) /\ Len(decodes) <= 2
  BY <1>3 DEF TrackInit
<1>8. /\ speed \in Speeds \cup {NotSet}
      /\ candidate \in Places \cup {NotSet} /\ position \in Places \cup {NotSet}
  BY DEF TrackInit
<1>. QED
  BY <1>4, <1>5, <1>6, <1>7, <1>8 DEF TrackTypeOK, Packet

LEMMA NextType == TrackTypeOK /\ [TrackNext]_trackVars => TrackTypeOK'
<1>. SUFFICES ASSUME TrackTypeOK, [TrackNext]_trackVars PROVE TrackTypeOK'
  OBVIOUS
<1>1. CASE Keeps
  BY <1>1, StepCases DEF Keeps, TrackTypeOK, Packet
<1>2. CASE Decodes
  <2>1. MostRecent \in 0 .. MaxTrackTime
    BY StepCases, MostRecentType
  <2>2. \A place \in Places : Recorded(place) \in Seq(Places) /\ Len(Recorded(place)) <= 2
    BY RecordedType
  <2>3. PICK place \in Places, lag \in 0 .. 1 : Unfiltered(place, lag) \/ Filtered(place, lag)
    BY <1>2 DEF Decodes
  <2>4. /\ position' \in Places \cup {NotSet} /\ candidate' \in Places \cup {NotSet}
        /\ decodes' \in Seq(Places) /\ Len(decodes') <= 2
    BY <2>2, <2>3 DEF Unfiltered, Filtered, Show, TrackTypeOK
  <2>5. position_valid' \in BOOLEAN
    BY <2>3 DEF Unfiltered, Filtered, Show, TrackTypeOK
  <2>6. last_filter' \in 0 .. MaxTrackTime /\ last_track_update' \in 0 .. MaxTrackTime
    BY <2>1, <2>3 DEF Unfiltered, Filtered, Show, TrackTypeOK
  <2>. QED
    BY <2>4, <2>5, <2>6, StepCases DEF TrackTypeOK, Packet
<1>. QED
  BY <1>1, <1>2, StepCases

\* In every execution each variable of a track has the type it is declared
\* with, however messages are delayed and the clocks are apart.
THEOREM TrackTypes == TrackSpec => []TrackTypeOK
<1>. QED
  BY InitType, NextType, PTL DEF TrackSpec

-----------------------------------------------------------------------------

\* A step that leaves airborne as it is drops packets or adds one of the right
\* kind; one that changes it drops them all first.
LEMMA StoredAlike ==
    ASSUME packets \in [Parities -> Packet], PairsAlike, airborne \in BOOLEAN,
           NEW value \in BOOLEAN, NEW parity \in Parities, NEW t \in 0 .. MaxTrackTime, NEW kts,
           NEW kind \in Messages, kind = IF value THEN "airborne" ELSE "surface"
    PROVE  \A p \in Parities :
               LET new == SetCPRLatLon(WriteAirborne(value), parity, t, kind, kts)
               IN  new[p].t > 0 => new[p].kind = kind
<1>. SUFFICES ASSUME NEW p \in Parities
              PROVE  LET new == SetCPRLatLon(WriteAirborne(value), parity, t, kind, kts)
                     IN  new[p].t > 0 => new[p].kind = kind
  OBVIOUS
<1>1. WriteAirborne(value) \in [Parities -> Packet]
  BY WrittenPackets
<1>2. WriteAirborne(value)[p].t > 0 => WriteAirborne(value)[p].kind = kind
  BY DEF WriteAirborne, Cleared, NoPacket, PairsAlike
<1>. DEFINE new == SetCPRLatLon(WriteAirborne(value), parity, t, kind, kts)
<1>3. /\ new[parity] = [t |-> t, kind |-> kind]
      /\ p # parity => new[p] = WriteAirborne(value)[p] \/ new[p] = NoPacket
  BY <1>1, StoredPackets
<1>. HIDE DEF new
<1>4. new[p].t > 0 => new[p].kind = kind
  BY <1>2, <1>3 DEF NoPacket
<1>. QED
  BY <1>4 DEF new

LEMMA WrittenAlike ==
    ASSUME PairsAlike, NEW value \in BOOLEAN, airborne \in BOOLEAN
    PROVE  \A p \in Parities : WriteAirborne(value)[p].t > 0 =>
               WriteAirborne(value)[p].kind = IF value THEN "airborne" ELSE "surface"
  BY DEF WriteAirborne, Cleared, NoPacket, PairsAlike

LEMMA NextPairsAlike == TrackTypeOK /\ PairsAlike /\ [TrackNext]_trackVars => PairsAlike'
<1>. SUFFICES ASSUME TrackTypeOK, PairsAlike, [TrackNext]_trackVars PROVE PairsAlike'
  OBVIOUS
<1>0. packets \in [Parities -> Packet] /\ airborne \in BOOLEAN
  BY DEF TrackTypeOK, Packet
<1>1. CASE UNCHANGED trackVars
  BY <1>1 DEF trackVars, PairsAlike
<1>2. CASE ClockTick
  BY <1>2 DEF ClockTick, PairsAlike
<1>3. CASE ApplyAirborneVelocitiesMessage
  BY <1>0, <1>3, WrittenAlike DEF ApplyAirborneVelocitiesMessage, PairsAlike
<1>4. CASE IngestReply
  BY <1>0, <1>4, WrittenAlike DEF IngestReply, PairsAlike
<1>5. ASSUME NEW parity \in Parities, NEW t \in Received,
             ApplyAirbornePositionMessage(parity, t)
      PROVE  PairsAlike'
  <2>1. airborne' = TRUE
    BY <1>5 DEF ApplyAirbornePositionMessage
  <2>2. packets' = SetCPRLatLon(WriteAirborne(TRUE), parity, t, "airborne", speed)
    BY <1>5 DEF ApplyAirbornePositionMessage
  <2>3. t \in 0 .. MaxTrackTime /\ "airborne" \in Messages
    BY DEF Received, Messages
  <2>4. \A p \in Parities : packets'[p].t > 0 => packets'[p].kind = "airborne"
    BY <1>0, <2>2, <2>3, StoredAlike
  <2>. QED
    BY <2>1, <2>4 DEF PairsAlike
<1>6. ASSUME NEW parity \in Parities, NEW t \in Received, NEW kts \in Speeds,
             ApplySurfacePositionMessage(parity, t, kts)
      PROVE  PairsAlike'
  <2>1. airborne' = FALSE
    BY <1>6 DEF ApplySurfacePositionMessage
  <2>2. packets' = SetCPRLatLon(WriteAirborne(FALSE), parity, t, "surface", kts)
    BY <1>6 DEF ApplySurfacePositionMessage
  <2>3. t \in 0 .. MaxTrackTime /\ "surface" \in Messages
    BY DEF Received, Messages
  <2>4. \A p \in Parities : packets'[p].t > 0 => packets'[p].kind = "surface"
    BY <1>0, <2>2, <2>3, StoredAlike
  <2>. QED
    BY <2>1, <2>4 DEF PairsAlike
<1>. QED
  BY <1>1, <1>2, <1>3, <1>4, <1>5, <1>6 DEF TrackNext

\* A position is never decoded from an airborne and a surface packet.
THEOREM AlwaysPairsAlike == TrackSpec => []PairsAlike
<1>1. TrackInit => PairsAlike
  BY DEF TrackInit, PairsAlike, Cleared, NoPacket
<1>. QED
  BY <1>1, InitType, NextType, NextPairsAlike, PTL DEF TrackSpec

-----------------------------------------------------------------------------

\* What the filter relies on from one decode to the next: the candidate is the
\* place decoded last, and the track is not ahead of the filter.
FilterInv ==
    /\ TrackTypeOK
    /\ decodes # << >> => filter /\ candidate = decodes[Len(decodes)]
    /\ filter /\ position_valid => decodes # << >>
    /\ filter => last_track_update <= last_filter
    /\ TwoInARowShown

LEMMA ReachNatural ==
    ASSUME TrackTypeOK, packets' \in [Parities -> Packet]
    PROVE  Reach \in Nat
<1>1. MostRecent \in 0 .. MaxTrackTime
  BY MostRecentType
<1>2. Elapsed(MostRecent, last_track_update) \in Nat
  BY <1>1, TrackAssumption DEF Elapsed, TrackTypeOK
<1>3. kCPRPositionFilterVelocity * Elapsed(MostRecent, last_track_update) \in Nat
  BY <1>2, TrackAssumption
<1>. QED
  BY <1>3, TrackAssumption DEF Reach, Greater

\* What is decoded twice in a row does not jump.
LEMMA SamePlaceStays ==
    ASSUME TrackTypeOK, packets' \in [Parities -> Packet], candidate \in Places
    PROVE  ~ Jumps(candidate)
<1>1. Distance(candidate, candidate) = 0
  BY TrackAssumption DEF Distance
<1>. QED
  BY <1>1, ReachNatural DEF Jumps

LEMMA InitFilter == TrackInit => FilterInv
<1>. QED
  BY InitType DEF TrackInit, FilterInv, TwoInARowShown

LEMMA NextFilter == FilterInv /\ [TrackNext]_trackVars => FilterInv'
<1>. SUFFICES ASSUME FilterInv, [TrackNext]_trackVars PROVE FilterInv'
  OBVIOUS
<1>0. TrackTypeOK /\ TrackTypeOK'
  BY NextType DEF FilterInv
<1>1. filter' = filter /\ packets' \in [Parities -> Packet]
  BY <1>0, StepCases
<1>2. CASE Keeps
  <2>1. position_valid' => position_valid
    BY <1>0, <1>2 DEF Keeps, TrackTypeOK
  <2>. QED
    BY <1>0, <1>1, <1>2, <2>1 DEF Keeps, FilterInv, TwoInARowShown
<1>3. ASSUME NEW place \in Places, NEW lag \in 0 .. 1, Unfiltered(place, lag)
      PROVE  FilterInv'
  <2>1. ~ filter /\ decodes = << >> /\ decodes' = << >>
    BY <1>3 DEF Unfiltered, FilterInv
  <2>. QED
    BY <1>0, <1>1, <2>1 DEF FilterInv, TwoInARowShown
<1>4. ASSUME NEW place \in Places, NEW lag \in 0 .. 1, Filtered(place, lag)
      PROVE  FilterInv'
  <2>1. decodes' = Recorded(place) /\ candidate' = place /\ filter
    BY <1>4 DEF Filtered
  <2>2. decodes' # << >> /\ candidate' = decodes'[Len(decodes')]
    BY <1>0, <2>1, RecordedType
  <2>3. last_track_update' <= last_filter'
    <3>1. MostRecent \in 0 .. MaxTrackTime
      BY <1>1, MostRecentType
    <3>. QED
      BY <1>0, <1>4, <2>1, <3>1 DEF Filtered, Show, FilterInv, TrackTypeOK
  <2>4. TwoInARowShown'
    <3>. SUFFICES ASSUME Len(decodes') = 2, decodes'[1] = decodes'[2]
                  PROVE  position' = decodes'[2]
      BY DEF TwoInARowShown
    <3>1. decodes # << >> /\ decodes'[1] = candidate /\ decodes'[2] = place
      BY <1>0, <2>1, RecordedType DEF FilterInv
    <3>2. ~ Jumps(place)
      BY <1>0, <1>1, <3>1, SamePlaceStays
    <3>. QED
      BY <1>4, <3>1, <3>2 DEF Filtered, Show
  <2>. QED
    BY <1>0, <1>1, <2>1, <2>2, <2>3, <2>4 DEF FilterInv
<1>. QED
  BY <1>0, <1>2, <1>3, <1>4, StepCases DEF Decodes

\* Two places in a row that agree are always shown: whatever the filter has
\* held back before, it never shuts an aircraft out.
THEOREM AlwaysTwoInARowShown == TrackSpec => []TwoInARowShown
<1>1. FilterInv => TwoInARowShown
  BY DEF FilterInv
<1>. QED
  BY <1>1, InitFilter, NextFilter, PTL DEF TrackSpec

\* A place out of reach of the one decoded before is held back.
THEOREM AlwaysLoneJumpsHeldBack == TrackSpec => LoneJumpsHeldBack
<1>1. FilterInv /\ [TrackNext]_trackVars =>
         [(filter /\ position_valid /\ position' # position) =>
            /\ decodes # << >>
            /\ Distance(decodes[Len(decodes)], position') <= Reach]_trackVars
  <2>. SUFFICES ASSUME FilterInv, [TrackNext]_trackVars, filter, position_valid, position' # position
                PROVE  /\ decodes # << >>
                       /\ Distance(decodes[Len(decodes)], position') <= Reach
    OBVIOUS
  <2>1. TrackTypeOK /\ packets' \in [Parities -> Packet] /\ (Keeps \/ Decodes)
    BY StepCases DEF FilterInv
  <2>2. PICK place \in Places, lag \in 0 .. 1 : Filtered(place, lag)
    BY <2>1 DEF Keeps, Decodes, Unfiltered
  <2>3. decodes # << >> /\ candidate = decodes[Len(decodes)] /\ candidate \in Places
    BY <2>1 DEF FilterInv, TrackTypeOK
  <2>4. position' = place /\ ~ Jumps(place)
    BY <2>2 DEF Filtered, Show
  <2>5. ~ (Distance(candidate, place) > Reach)
    BY <2>3, <2>4, TrackAssumption DEF Jumps
  <2>6. Reach \in Nat /\ Distance(candidate, place) \in Int
    BY <2>1, <2>3, ReachNatural, TrackAssumption DEF Distance
  <2>. QED
    BY <2>3, <2>4, <2>5, <2>6
<1>. QED
  BY <1>1, InitFilter, NextFilter, PTL DEF TrackSpec, LoneJumpsHeldBack

\* With the filter on, the time of a track never goes back.
THEOREM AlwaysTrackMovesForward == TrackSpec => TrackMovesForward
<1>1. FilterInv /\ [TrackNext]_trackVars => [filter => last_track_update' >= last_track_update]_trackVars
  <2>. SUFFICES ASSUME FilterInv, [TrackNext]_trackVars, filter
                PROVE  last_track_update' >= last_track_update
    OBVIOUS
  <2>1. TrackTypeOK /\ packets' \in [Parities -> Packet] /\ (Keeps \/ Decodes)
    BY StepCases DEF FilterInv
  <2>2. CASE Keeps
    BY <2>1, <2>2 DEF Keeps, TrackTypeOK
  <2>3. ASSUME NEW place \in Places, NEW lag \in 0 .. 1, Filtered(place, lag)
        PROVE  last_track_update' >= last_track_update
    <3>1. MostRecent \in 0 .. MaxTrackTime
      BY <2>1, MostRecentType
    <3>2. MostRecent >= last_track_update
      BY <2>1, <2>3, <3>1 DEF Filtered, FilterInv, TrackTypeOK
    <3>. QED
      BY <2>1, <2>3, <3>2 DEF Filtered, Show, TrackTypeOK
  <2>. QED
    BY <2>1, <2>2, <2>3 DEF Decodes, Unfiltered
<1>. QED
  BY <1>1, InitFilter, NextFilter, PTL DEF TrackSpec, TrackMovesForward

-----------------------------------------------------------------------------

LEMMA IntervalBounds ==
    ASSUME TrackTypeOK, NEW kts \in Speeds \cup {NotSet}, NEW lag \in 0 .. 1
    PROVE  /\ GetMaxAllowedCPRIntervalMs(kts, lag) \in Int
           /\ GetMaxAllowedCPRIntervalMs(kts, lag) <= kMaxCPRIntervalMs
           /\ kts = NotSet => GetMaxAllowedCPRIntervalMs(kts, lag) = kDefaultCPRIntervalMs
<1>. USE TrackAssumption
<1>1. kDefaultCPRIntervalMs \in Nat /\ kMaxCPRIntervalMs \in Nat
  OBVIOUS
<1>2. ASSUME kts # NotSet, kts # 0
      PROVE  /\ Lesser((kRefCPRIntervalMs * kRefSpeed) \div kts, kMaxCPRIntervalMs) \in Int
             /\ Lesser((kRefCPRIntervalMs * kRefSpeed) \div kts, kMaxCPRIntervalMs)
                   <= kMaxCPRIntervalMs
  <2>1. \A n \in Int, d \in Nat \ {0} : n \div d \in Int
    OBVIOUS
  <2>2. kRefCPRIntervalMs * kRefSpeed \in Int /\ kts \in Nat \ {0}
    BY <1>2
  <2>. HIDE TrackAssumption
  <2>3. (kRefCPRIntervalMs * kRefSpeed) \div kts \in Int
    BY <2>1, <2>2
  <2>. QED
    BY <1>1, <2>3 DEF Lesser
<1>. QED
  BY <1>1, <1>2 DEF GetMaxAllowedCPRIntervalMs

\* No track is updated from packets that are too far apart.
THEOREM AlwaysPairsClose == TrackSpec => PairsClose
<1>1. TrackTypeOK /\ [TrackNext]_trackVars =>
         [last_track_update' # last_track_update =>
            /\ HavePair
            /\ PairInterval <= kMaxCPRIntervalMs
            /\ (speed' = NotSet => PairInterval <= kDefaultCPRIntervalMs)]_trackVars
  <2>. SUFFICES ASSUME TrackTypeOK, [TrackNext]_trackVars, last_track_update' # last_track_update
                PROVE  /\ HavePair
                       /\ PairInterval <= kMaxCPRIntervalMs
                       /\ (speed' = NotSet => PairInterval <= kDefaultCPRIntervalMs)
    OBVIOUS
  <2>1. speed' \in Speeds \cup {NotSet} /\ packets' \in [Parities -> Packet]
    BY StepCases
  <2>2. PICK lag \in 0 .. 1 : Decodable(lag)
    BY StepCases DEF Keeps, Decodes, Unfiltered, Filtered
  <2>3. HavePair /\ PairInterval <= GetMaxAllowedCPRIntervalMs(speed', lag)
    BY <2>2 DEF Decodable
  <2>4. PairInterval \in Int
    <3>1. packets'["even"] \in Packet /\ packets'["odd"] \in Packet
      BY <2>1 DEF Parities
    <3>. QED
      BY <3>1, TrackAssumption DEF PairInterval, Distance, Packet
  <2>. QED
    BY <2>1, <2>3, <2>4, IntervalBounds, TrackAssumption
<1>. QED
  BY <1>1, InitType, NextType, PTL DEF TrackSpec, PairsClose

-----------------------------------------------------------------------------
(* Both together.                                                          *)

\* A behaviour of the two parts is one of each: what is proved of a part holds
\* in the whole.
LEMMA PartsOfAircraft == AircraftSpec => Spec /\ TrackSpec
<1>1. AircraftInit => Init /\ TrackInit
  BY DEF AircraftInit
<1>2. [AircraftNext]_aircraftVars => [Next]_vars /\ [TrackNext]_trackVars
  BY DEF AircraftNext, aircraftVars
<1>. QED
  BY <1>1, <1>2, PTL DEF AircraftSpec, Spec, TrackSpec

\* The types of the dictionary and of the track (aircraft_dictionary.hh) hold
\* where both are checked together.
THEOREM AircraftTypes == AircraftSpec => []AircraftTypeOK
<1>1. TypeOK /\ TrackTypeOK => AircraftTypeOK
  BY DEF AircraftTypeOK
<1>. QED
  BY <1>1, PartsOfAircraft, DictionaryTypes, TrackTypes, PTL
=============================================================================
