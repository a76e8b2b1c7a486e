----------------------------- MODULE ModeSTrack -----------------------------
(***************************************************************************)
(* How one ModeSAircraft gets its position: airborne and surface position  *)
(* messages carry half a position each (an even or an odd CPR packet), a   *)
(* pair of them received close enough together decodes to a place, and a   *)
(* filter holds a place back that is too far from the one decoded before.  *)
(*                                                                         *)
(* Two clocks are at work: packets carry the RP2040's MLAT time, in        *)
(* milliseconds, while the age of the track is taken with                  *)
(* get_time_since_boot_ms() of the processor the dictionary is on, which   *)
(* is ClockOffset later.  Differences are those of uint32_t.               *)
(*                                                                         *)
(* Places are points on a line; what CPR makes of a pair is any of them,   *)
(* or nothing (the pair spans two latitude zones).                         *)
(***************************************************************************)
EXTENDS Integers, Sequences

CONSTANTS
    Places,                     \* where a pair can decode to, integers
    Speeds,                     \* the speeds an aircraft reports, in knots
    ClockOffset,                \* get_time_since_boot_ms() minus MLAT time
    TimeMod,                    \* number of values of a timestamp
    MaxDelay,                   \* how late a packet can be ingested
    kDefaultCPRIntervalMs, kRefCPRIntervalMs, kMaxCPRIntervalMs,
    kMaxTrackUpdateIntervalMs,
    kRefSpeed,                  \* the 500 kts of GetMaxAllowedCPRIntervalMs
    kCPRPositionFilterVelocity, kPositionFilterDeadband,
    MaxTrackTime,                    \* bound on MLAT time
    NotSet                      \* no speed known, or nothing decoded

ASSUME TrackAssumption ==
    /\ Places \subseteq Int /\ Places # {}
    /\ Speeds \subseteq Nat
    /\ ClockOffset \in Int /\ -ClockOffset <= MaxTrackTime
    /\ TimeMod \in Nat \ {0} /\ MaxTrackTime \in Nat /\ MaxDelay \in Nat
    /\ {kDefaultCPRIntervalMs, kRefCPRIntervalMs, kMaxCPRIntervalMs,
        kMaxTrackUpdateIntervalMs, kRefSpeed, kCPRPositionFilterVelocity,
        kPositionFilterDeadband} \subseteq Nat
    /\ kDefaultCPRIntervalMs <= kMaxCPRIntervalMs
    /\ NotSet \notin Places \cup Speeds

VARIABLES
    mlat,                  \* the RP2040's MLAT time
    filter,                \* enable_cpr_position_filter
    airborne,              \* kBitFlagIsAirborne
    packets,               \* last_even_packet_, last_odd_packet_
    speed,                 \* speed_kts, NotSet as long as speed_source is
    candidate,             \* lat_awb32_, lon_awb32_
    last_filter,           \* last_filter_received_timestamp_ms_
    position,              \* latitude_deg, longitude_deg
    position_valid,        \* kBitFlagPositionValid
    last_track_update,     \* last_track_update_timestamp_ms
    decodes                \* history: the last two places that reached the filter

track == <<candidate, last_filter, position, position_valid, last_track_update, decodes>>
trackVars == <<mlat, filter, airborne, packets, speed, track>>

Parities == {"even", "odd"}
Other(parity) == CHOOSE p \in Parities : p # parity
Messages == {"airborne", "surface"}

Distance(a, b) == IF a > b THEN a - b ELSE b - a
Lesser(a, b) == IF a < b THEN a ELSE b
Greater(a, b) == IF a > b THEN a ELSE b
Elapsed(later, earlier) == (later - earlier) % TimeMod

\* A cleared packet only loses its timestamp; kind, a history component, is
\* the message it came with.
NoPacket == [t |-> 0, kind |-> "none"]
Cleared == [p \in Parities |-> NoPacket]

TrackTypeOK ==
    /\ mlat \in 0 .. MaxTrackTime
    /\ filter \in BOOLEAN /\ airborne \in BOOLEAN /\ position_valid \in BOOLEAN
    /\ packets \in [Parities -> [t : 0 .. MaxTrackTime, kind : Messages \cup {"none"}]]
    /\ speed \in Speeds \cup {NotSet}
    /\ candidate \in Places \cup {NotSet} /\ position \in Places \cup {NotSet}
    /\ last_filter \in 0 .. MaxTrackTime /\ last_track_update \in 0 .. MaxTrackTime
    /\ decodes \in Seq(Places) /\ Len(decodes) <= 2

\* The dictionary's processor may start long after the MLAT counter.
TrackInit ==
    /\ mlat = Greater(0, -ClockOffset)
    /\ filter \in BOOLEAN
    /\ airborne = FALSE
    /\ packets = Cleared
    /\ speed = NotSet
    /\ candidate = NotSet /\ position = NotSet
    /\ last_filter = 0 /\ last_track_update = 0
    /\ position_valid = FALSE
    /\ decodes = << >>

\* Mutant: no limit of kMaxCPRIntervalMs.
GetMaxAllowedCPRIntervalMsUnclamped(kts, lag) ==
    IF kts = NotSet
          \/ Elapsed(mlat + ClockOffset + lag, last_track_update) > kMaxTrackUpdateIntervalMs
    THEN kDefaultCPRIntervalMs
    ELSE IF kts = 0 THEN kMaxCPRIntervalMs
    ELSE (kRefCPRIntervalMs * kRefSpeed) \div kts

\* lag: the milliseconds that have passed since the message's handler began.
GetMaxAllowedCPRIntervalMs(kts, lag) ==
    IF kts = NotSet
          \/ Elapsed(mlat + ClockOffset + lag, last_track_update) > kMaxTrackUpdateIntervalMs
    THEN kDefaultCPRIntervalMs
    ELSE IF kts = 0 THEN kMaxCPRIntervalMs
    ELSE Lesser((kRefCPRIntervalMs * kRefSpeed) \div kts, kMaxCPRIntervalMs)

\* Mutant: a change of the flag leaves the packets alone.
WriteAirborneKeepingPackets(value) == packets

\* WriteBitFlag(kBitFlagIsAirborne, value): what becomes of the packets.
WriteAirborne(value) == IF airborne # value THEN Cleared ELSE packets

\* Mutant: the packet keeps the time since the other one.
SetCPRLatLonStoringDelta(old, parity, t, kind, kts) ==
    LET far == Distance(t, old[Other(parity)].t) > GetMaxAllowedCPRIntervalMs(kts, 0)
    IN  [(IF far THEN Cleared ELSE old) EXCEPT
            ![parity] = [t |-> t - old[Other(parity)].t, kind |-> kind]]

SetCPRLatLon(old, parity, t, kind, kts) ==
    LET far == Distance(t, old[Other(parity)].t) > GetMaxAllowedCPRIntervalMs(kts, 0)
    IN  [(IF far THEN Cleared ELSE old) EXCEPT ![parity] = [t |-> t, kind |-> kind]]

HavePair == packets'["even"].t > 0 /\ packets'["odd"].t > 0
PairInterval == Distance(packets'["even"].t, packets'["odd"].t)
MostRecent == Greater(packets'["even"].t, packets'["odd"].t)

\* How far an aircraft may have come since its track was updated.
Reach == Greater((kCPRPositionFilterVelocity * Elapsed(MostRecent, last_track_update)),
                 kPositionFilterDeadband)
\* Before the first decode lat_awb32_ and lon_awb32_ are 0, and not looked at:
\* the position is not valid.
Jumps(place) == position_valid /\ candidate # NotSet /\ Distance(candidate, place) > Reach

NoPair == ~ HavePair /\ UNCHANGED track

TooFarApart(lag) ==
    /\ HavePair
    /\ PairInterval > GetMaxAllowedCPRIntervalMs(speed', lag)
    /\ position_valid' = FALSE
    /\ UNCHANGED <<candidate, last_filter, position, last_track_update, decodes>>

Decodable(lag) == HavePair /\ PairInterval <= GetMaxAllowedCPRIntervalMs(speed', lag)

ZonesDiffer(lag) == Decodable(lag) /\ UNCHANGED track

NotNewer(lag) ==
    /\ Decodable(lag)
    /\ filter /\ MostRecent <= last_filter
    /\ UNCHANGED track

Show(place) ==
    /\ position' = place /\ position_valid' = TRUE
    /\ last_track_update' = MostRecent

Unfiltered(place, lag) ==
    /\ Decodable(lag)
    /\ ~ filter
    /\ Show(place)
    /\ UNCHANGED <<candidate, last_filter, decodes>>

Recorded(place) ==
    IF decodes = << >> THEN <<place>> ELSE <<decodes[Len(decodes)], place>>

\* Mutant: only a place that is shown becomes the candidate.
FilteredBeforeStoring(place, lag) ==
    /\ Decodable(lag)
    /\ filter /\ MostRecent > last_filter
    /\ decodes' = Recorded(place)
    /\ IF Jumps(place)
       THEN UNCHANGED <<candidate, last_filter, position, position_valid, last_track_update>>
       ELSE Show(place) /\ candidate' = place /\ last_filter' = MostRecent

\* Mutant: the place is compared with the candidate it has just become.
FilteredAfterStoring(place, lag) ==
    /\ Decodable(lag)
    /\ filter /\ MostRecent > last_filter
    /\ last_filter' = MostRecent
    /\ candidate' = place
    /\ decodes' = Recorded(place)
    /\ Show(place)

\* Mutant: the pair's time is not compared with that of the last one.
FilteredAtAnyTime(place, lag) ==
    /\ Decodable(lag)
    /\ filter
    /\ last_filter' = MostRecent
    /\ candidate' = place
    /\ decodes' = Recorded(place)
    /\ IF Jumps(place)
       THEN UNCHANGED <<position, position_valid, last_track_update>>
       ELSE Show(place)

\* The place becomes the candidate whether it is shown or held back.
Filtered(place, lag) ==
    /\ Decodable(lag)
    /\ filter /\ MostRecent > last_filter
    /\ last_filter' = MostRecent
    /\ candidate' = place
    /\ decodes' = Recorded(place)
    /\ IF Jumps(place)
       THEN UNCHANGED <<position, position_valid, last_track_update>>
       ELSE Show(place)

\* What follows when the packet has been stored, at most a millisecond later.
DecodePosition ==
    \/ NoPair
    \/ \E lag \in 0 .. 1 :
          \/ TooFarApart(lag)
          \/ ZonesDiffer(lag)
          \/ NotNewer(lag)
          \/ \E place \in Places : Unfiltered(place, lag) \/ Filtered(place, lag)

ApplyAirbornePositionMessage(parity, t) ==
    /\ airborne' = TRUE
    /\ UNCHANGED speed
    /\ packets' = SetCPRLatLon(WriteAirborne(TRUE), parity, t, "airborne", speed)
    /\ DecodePosition
    /\ UNCHANGED <<mlat, filter>>

\* A surface position also says how fast the aircraft moves, or that this is
\* not known: the speed heard before is then taken for a ground speed.
ApplySurfacePositionMessage(parity, t, kts) ==
    /\ airborne' = FALSE
    /\ speed' = kts
    /\ packets' = SetCPRLatLon(WriteAirborne(FALSE), parity, t, "surface", kts)
    /\ DecodePosition
    /\ UNCHANGED <<mlat, filter>>

ApplyAirborneVelocitiesMessage ==
    /\ airborne' = TRUE
    /\ packets' = WriteAirborne(TRUE)
    /\ speed' \in Speeds \cup {NotSet}
    /\ UNCHANGED <<mlat, filter, track>>

\* Identity and altitude replies tell in some cases whether the aircraft flies.
IngestReply ==
    \E value \in BOOLEAN :
        /\ airborne' = value
        /\ packets' = WriteAirborne(value)
        /\ UNCHANGED <<mlat, filter, speed, track>>

ClockTick == mlat < MaxTrackTime /\ mlat' = mlat + 1 /\ UNCHANGED <<filter, airborne, packets, speed, track>>

\* Packets wait in queues: one is ingested up to MaxDelay after it was received.
Received == {t \in 0 .. MaxTrackTime : t <= mlat /\ mlat - t <= MaxDelay}

TrackNext ==
    \/ ClockTick
    \/ ApplyAirborneVelocitiesMessage
    \/ IngestReply
    \/ \E parity \in Parities, t \in Received :
          \/ ApplyAirbornePositionMessage(parity, t)
          \/ \E kts \in Speeds : ApplySurfacePositionMessage(parity, t, kts)

TrackSpec == TrackInit /\ [][TrackNext]_trackVars

-----------------------------------------------------------------------------

(***************************************************************************)
(* The two packets a position is decoded from never come one from an       *)
(* airborne and one from a surface message, whatever the aircraft's        *)
(* messages and replies say in between (they are encoded differently, and  *)
(* are decoded the way the last one asks for).                             *)
(***************************************************************************)
PairsAlike ==
    \A p \in Parities : packets[p].t > 0 =>
        packets[p].kind = IF airborne THEN "airborne" ELSE "surface"

(***************************************************************************)
(* "Sudden jumps in position take two subsequent position updates that are *)
(* relatively close together in order to be reflected": two places in a    *)
(* row that agree are shown, so that the filter can never shut out an      *)
(* aircraft for good ...                                                   *)
(***************************************************************************)
TwoInARowShown ==
    (Len(decodes) = 2 /\ decodes[1] = decodes[2]) => position = decodes[2]

(***************************************************************************)
(* ... and a place out of the reach of the one decoded before it is not    *)
(* shown in the stead of a valid position.                                 *)
(***************************************************************************)
LoneJumpsHeldBack ==
    [][(filter /\ position_valid /\ position' # position) =>
          /\ decodes # << >>
          /\ Distance(decodes[Len(decodes)], position') <= Reach]_trackVars

(***************************************************************************)
(* A track is never updated from a pair more than 30 s apart, nor, for an  *)
(* aircraft of unknown speed, from one more than 10 s apart.               *)
(***************************************************************************)
PairsClose ==
    [][last_track_update' # last_track_update =>
          /\ HavePair
          /\ PairInterval <= kMaxCPRIntervalMs
          /\ (speed' = NotSet => PairInterval <= kDefaultCPRIntervalMs)]_trackVars

(***************************************************************************)
(* With the filter on, packets ingested late or out of order never take a  *)
(* track back to an earlier time.                                          *)
(***************************************************************************)
TrackMovesForward == [][filter => last_track_update' >= last_track_update]_trackVars

(***************************************************************************)
(* As the tests put it: a fresh track gets a CPR interval calculated from  *)
(* the speed, a stale one the default.                                     *)
(***************************************************************************)
FreshTrackGetsCalculatedInterval ==
    (/\ speed \in Speeds \ {0}
     /\ last_track_update > 0 /\ mlat - last_track_update <= kMaxTrackUpdateIntervalMs) =>
        GetMaxAllowedCPRIntervalMs(speed, 0) =
            Lesser((kRefCPRIntervalMs * kRefSpeed) \div speed, kMaxCPRIntervalMs)

=============================================================================
