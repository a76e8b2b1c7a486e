------------------------------ MODULE MCPackets ------------------------------
(***************************************************************************)
(* Stations on the way of a packet: the queue between any two of them, the *)
(* receiver on core 1, the UAT receiver and the feeds of the ESP32.  They  *)
(* share no state, so one behaviour moves one of them: "part" says which.  *)
(*                                                                         *)
(* The queue has four elements and an index type of eight values, the      *)
(* largest queue an index of that width allows, so the additions of        *)
(* IncrementIndex reach the last value before they would wrap.             *)
(***************************************************************************)
EXTENDS PFBQueue, ModeSReceiver, UATReceiver, FeedQueue

\* The server's queues hold one or two packets of a kind.
MCInLen == <<2, 1, 1>>
\* Enough for a full queue, a full scratch buffer and an array that fits into
\* neither.
MCMaxPackets == <<2, 2, 2>>

\* An uplink message takes twice the room of an ADS-B message (eight times in
\* the code), and the queues hold one or two.
MCRawLen == [adsb |-> 1, uplink |-> 1]
MCDecodedLen == [adsb |-> 2, uplink |-> 1]
MCPacketSize == [adsb |-> 1, uplink |-> 2]
MCMaxMessages == [adsb |-> 2, uplink |-> 2]

VARIABLE part

pathVars == <<part, vars, receiverVars, uatVars, feedVars>>

PathInit ==
    /\ part \in {"queue", "receiver", "uat", "feeds"}
    /\ Init /\ ReceiverInit /\ UATInit /\ FeedInit

PathNext ==
    /\ UNCHANGED part
    /\ \/ part = "queue" /\ Next /\ UNCHANGED <<receiverVars, uatVars, feedVars>>
       \/ part = "receiver" /\ ReceiverNext /\ UNCHANGED <<vars, uatVars, feedVars>>
       \/ part = "uat" /\ UATNext /\ UNCHANGED <<vars, receiverVars, feedVars>>
       \/ part = "feeds" /\ FeedNext /\ UNCHANGED <<vars, receiverVars, uatVars>>

PathSpec == PathInit /\ [][PathNext]_pathVars

\* The fields of the queue keep their types, the stamps are no further from the
\* time than one period, the queues of both receivers and of the feeds within
\* their length, and the buffers in use only while they are needed.
PathTypeOK == TypeOK /\ ReceiverTypeOK /\ UATTypeOK /\ FeedTypeOK
=============================================================================
