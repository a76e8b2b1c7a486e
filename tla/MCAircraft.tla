------------------------------ MODULE MCAircraft ------------------------------
(***************************************************************************)
(* The dictionary of the aircraft and the track of one of them.  They      *)
(* share no state, so one behaviour moves one of them: "part" says which.  *)
(***************************************************************************)
EXTENDS MCAircraftDictionary, MCModeSTrack

VARIABLE part

aircraftVars == <<part, vars, trackVars>>

AircraftInit ==
    /\ part \in {"dictionary", "track"}
    /\ Init /\ TrackInit
    /\ part = "dictionary" => ~filter
    /\ part = "track" => processor = "rp2040"

AircraftNext ==
    /\ UNCHANGED part
    /\ \/ part = "dictionary" /\ Next /\ UNCHANGED trackVars
       \/ part = "track" /\ TrackNext /\ UNCHANGED vars

AircraftSpec == AircraftInit /\ [][AircraftNext]_aircraftVars

\* The dictionary, its pool and its lists, and the fields of the track keep their
\* types.
AircraftTypeOK == TypeOK /\ TrackTypeOK
=============================================================================
