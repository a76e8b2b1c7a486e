----------------------------- MODULE UATReceiver -----------------------------
(***************************************************************************)
(* UAT messages from the air to the RP2040.  On the CC1312 the RF core     *)
(* writes a message into a data entry and raises events, a callback of     *)
(* higher priority than all else tells it how long the message is and      *)
(* queues what it has received, the main loop decodes, and a callback of   *)
(* the SPI driver answers the RP2040's reads out of a second queue, which  *)
(* it empties as it does so.  A lost answer costs the messages in it.      *)
(*                                                                         *)
(* A message is [kind, number, clean]: its number among those of its kind  *)
(* that the radio has synchronised to, and whether its header and its      *)
(* codeword arrive readable.  Operations on queues are atomic here.        *)
(***************************************************************************)
EXTENDS Integers, Sequences

CONSTANTS
    RawLen,            \* kRawUATADSBPacketQueueDepth, kRawUATUplinkPacketQueueDepth
    DecodedLen,        \* kDecodedUATADSBPacketQueueDepth, kDecodedUATUplinkPacketQueueDepth
    HostLen,           \* the queues of these names in adsbee.hh
    PacketSize,        \* sizeof(RawUATADSBPacket), sizeof(RawUATUplinkPacket)
    ReadAttempts,      \* kSPITransactionMaxNumRetries
    MaxMessages        \* bound: messages of each kind on the air

MessageKinds == {"adsb", "uplink"}

ASSUME UATAssumption ==
    /\ {RawLen, DecodedLen, HostLen, PacketSize} \subseteq [MessageKinds -> Nat \ {0}]
    /\ MaxMessages \in [MessageKinds -> Nat] /\ ReadAttempts \in Nat \ {0}

VARIABLES
    heard,         \* number of messages of each kind so far
    rfCore,        \* "off", "listening", or how far a message is: "synced", "written"
    entry,         \* the message in the data entry
    events,        \* RF events the callback has not seen
    current_packet_len_bytes,  \* a kind for its length, "unset" for INT16_MIN
    rxLen,         \* whether CMD_PROP_SET_LEN has reached the RF core in time
    raw,           \* raw_uat_*_packet_queue of UATPacketDecoder
    loopAt,        \* what the main loop does: decode a kind, or update the "radio"
    decoding,      \* the message between Dequeue and Enqueue, or NoMessage
    decoded,       \* raw_uat_*_packet_queue of the ObjectDictionary
    reading,       \* CC1312::Update of the RP2040: "no", "yes" or "failed"
    pendingLen,    \* pending_raw_packets_len_bytes of the status it has read
    attemptsLeft,
    response,      \* messages in an answer on the bus, or NoResponse
    host,          \* raw_uat_*_packet_queue of ADSBee
    ingested       \* number of the last message of each kind that was ingested

radioVars == <<heard, rfCore, entry, events, current_packet_len_bytes, rxLen>>
loopVars == <<loopAt, decoding>>
readVars == <<reading, pendingLen, attemptsLeft, response>>
uatVars == <<radioVars, raw, loopVars, decoded, readVars, host, ingested>>

NoMessage == [kind |-> "none", number |-> 0, clean |-> FALSE]
NoResponse == [k \in {} |-> <<>>]
EmptyQueues == [k \in MessageKinds |-> <<>>]

\* Enqueue with overwrite_when_full.
Overwriting(queue, depth, m) ==
    LET kept == IF Len(queue) = depth THEN Tail(queue) ELSE queue IN Append(kept, m)

-----------------------------------------------------------------------------
(* The RF core, and its callback.                                          *)

SyncFound ==
    /\ rfCore = "listening"
    /\ \E k \in MessageKinds, clean \in BOOLEAN :
          /\ heard[k] < MaxMessages[k]
          /\ heard' = [heard EXCEPT ![k] = @ + 1]
          /\ entry' = [kind |-> k, number |-> heard'[k], clean |-> clean]
    /\ rfCore' = "synced"
    /\ rxLen' = FALSE
    /\ events' = events \cup {"MdmSoft"}
    /\ UNCHANGED <<current_packet_len_bytes, raw, loopVars, decoded, readVars, host, ingested>>

HeaderWritten ==
    /\ rfCore = "synced"
    /\ rfCore' = "written"
    /\ events' = events \cup {"NDataWritten"}
    /\ UNCHANGED <<heard, entry, current_packet_len_bytes, rxLen, raw, loopVars, decoded,
                   readVars, host, ingested>>

\* Without a length the RF core goes on until the entry is full: PROP_ERROR_RXFULL.
ReceptionEnds ==
    /\ rfCore = "written"
    /\ rfCore' = "off"
    /\ events' = events \cup {"LastCmdDone"} \cup (IF rxLen THEN {"RxOk"} ELSE {})
    /\ UNCHANGED <<heard, entry, current_packet_len_bytes, rxLen, raw, loopVars, decoded,
                   readVars, host, ingested>>

LenBeforeHeader ==
    IF "MdmSoft" \in events THEN "unset" ELSE current_packet_len_bytes

\* The length the first bytes of the entry call for.
LengthsOf(m) == IF m.clean THEN {m.kind} ELSE MessageKinds

\* rf_cmd_callback: it finds every event raised since it ran last.
RFCallback ==
    /\ events # {}
    /\ \E len \in IF "NDataWritten" \in events /\ LenBeforeHeader = "unset"
                  THEN LengthsOf(entry) ELSE {LenBeforeHeader} :
          /\ current_packet_len_bytes' = len
          /\ rxLen' = (rxLen \/ (rfCore = "written" /\ LenBeforeHeader = "unset" /\ len # "unset"))
          /\ raw' = IF "RxOk" \in events /\ len # "unset"
                    THEN [raw EXCEPT ![len] = Overwriting(@, RawLen[len], entry)] ELSE raw
    /\ events' = {}
    /\ UNCHANGED <<heard, rfCore, entry, loopVars, decoded, readVars, host, ingested>>

-----------------------------------------------------------------------------
(* The main loop: UATPacketDecoder::Update and SubGHzRadio::Update.  An    *)
(* event is served before it goes on.                                      *)

After(k) == IF k = "adsb" THEN "uplink" ELSE "radio"

TakeMessage ==
    /\ events = {}
    /\ loopAt \in MessageKinds /\ decoding = NoMessage
    /\ IF raw[loopAt] = <<>>
       THEN loopAt' = After(loopAt) /\ UNCHANGED <<raw, decoding>>
       ELSE /\ decoding' = Head(raw[loopAt])
            /\ raw' = [raw EXCEPT ![loopAt] = Tail(@)]
            /\ UNCHANGED loopAt
    /\ UNCHANGED <<radioVars, decoded, readVars, host, ingested>>

\* Forward error correction tells what is not a message of this kind.
QueueDecoded ==
    /\ events = {}
    /\ decoding # NoMessage
    /\ decoded' = IF decoding.clean /\ decoding.kind = loopAt
                  THEN [decoded EXCEPT ![loopAt] = Overwriting(@, DecodedLen[loopAt], decoding)]
                  ELSE decoded
    /\ decoding' = NoMessage
    /\ UNCHANGED <<radioVars, raw, loopAt, readVars, host, ingested>>

UpdateRadio ==
    /\ events = {}
    /\ loopAt = "radio"
    /\ loopAt' = "adsb"
    /\ rfCore' = IF rfCore = "off" THEN "listening" ELSE rfCore
    /\ UNCHANGED <<heard, entry, events, current_packet_len_bytes, rxLen, raw, decoding,
                   decoded, readVars, host, ingested>>

-----------------------------------------------------------------------------
(* CC1312::Update, and the SPI callback that answers it.                   *)

Smallest(a, b) == IF a < b THEN a ELSE b
Prefix(seq, n) == SubSeq(seq, 1, n)
Beyond(seq, n) == SubSeq(seq, n + 1, Len(seq))

ReadStatus ==
    /\ reading \in {"no", "failed"}
    /\ \/ /\ reading' = "yes"
          /\ pendingLen' = Len(decoded["adsb"]) * PacketSize["adsb"]
                              + Len(decoded["uplink"]) * PacketSize["uplink"]
          /\ attemptsLeft' = ReadAttempts
       \/ reading' = "failed" /\ UNCHANGED <<pendingLen, attemptsLeft>>
    /\ UNCHANGED <<radioVars, raw, loopVars, decoded, response, host, ingested>>

\* PackRawPacketsBuffer into as many bytes as the status has told of.
Packable(k) ==
    LET adsb == Smallest(Len(decoded["adsb"]), pendingLen \div PacketSize["adsb"])
    IN  IF k = "adsb" THEN adsb
        ELSE Smallest(Len(decoded["uplink"]),
                      (pendingLen - adsb * PacketSize["adsb"]) \div PacketSize["uplink"])

\* Mutant: the messages are read, and left in the queue until they are rolled.
GetRawPacketsPeeking ==
    /\ reading = "yes" /\ response = NoResponse
    /\ response' = [k \in MessageKinds |-> Prefix(decoded[k], Packable(k))]
    /\ UNCHANGED <<radioVars, raw, loopVars, decoded, reading, pendingLen, attemptsLeft, host,
                   ingested>>

GetRawPackets ==
    /\ reading = "yes" /\ response = NoResponse
    /\ response' = [k \in MessageKinds |-> Prefix(decoded[k], Packable(k))]
    /\ decoded' = [k \in MessageKinds |-> Beyond(decoded[k], Packable(k))]
    /\ UNCHANGED <<radioVars, raw, loopVars, reading, pendingLen, attemptsLeft, host, ingested>>

\* The request is lost, or the answer.
AttemptLost ==
    /\ reading = "yes"
    /\ response' = NoResponse
    /\ attemptsLeft' = attemptsLeft - 1
    /\ reading' = IF attemptsLeft' = 0 THEN "failed" ELSE "yes"
    /\ UNCHANGED <<radioVars, raw, loopVars, decoded, pendingLen, host, ingested>>

HostRoom(k) == HostLen[k] - Len(host[k])

\* The first message that does not fit ends the unpacking, and fails the Update.
Unpacked(k) ==
    IF k = "uplink" /\ Len(response["adsb"]) > HostRoom("adsb") THEN 0
    ELSE Smallest(Len(response[k]), HostRoom(k))

UnpackResponse ==
    /\ response # NoResponse
    /\ host' = [k \in MessageKinds |-> host[k] \o Prefix(response[k], Unpacked(k))]
    /\ response' = NoResponse
    /\ reading' = IF \A k \in MessageKinds : Unpacked(k) = Len(response[k]) THEN "no" ELSE "failed"
    /\ UNCHANGED <<radioVars, raw, loopVars, decoded, pendingLen, attemptsLeft, ingested>>

\* IngestAndForwardPackets.  The Updates of Init come without it.
IngestHost ==
    /\ reading # "yes" /\ host # EmptyQueues
    /\ ingested' = [k \in MessageKinds |->
                       IF host[k] = <<>> THEN ingested[k] ELSE host[k][Len(host[k])].number]
    /\ host' = EmptyQueues
    /\ UNCHANGED <<radioVars, raw, loopVars, decoded, readVars>>

-----------------------------------------------------------------------------

\* Too long without an answer: the CC1312 is switched off and on again.
RebootSubG ==
    /\ reading = "failed"
    /\ rfCore' = "off" /\ entry' = NoMessage /\ events' = {}
    /\ current_packet_len_bytes' = "unset" /\ rxLen' = FALSE
    /\ raw' = EmptyQueues /\ loopAt' = "adsb" /\ decoding' = NoMessage
    /\ decoded' = EmptyQueues
    /\ reading' = "no"
    /\ UNCHANGED <<heard, pendingLen, attemptsLeft, response, host, ingested>>

UATInit ==
    /\ rfCore = "off" /\ entry = NoMessage /\ events = {}
    /\ current_packet_len_bytes = "unset" /\ rxLen = FALSE
    /\ raw = EmptyQueues /\ loopAt = "adsb" /\ decoding = NoMessage
    /\ decoded = EmptyQueues
    /\ heard = [k \in MessageKinds |-> 0]
    /\ reading = "no" /\ pendingLen = 0 /\ attemptsLeft = 0 /\ response = NoResponse
    /\ host = EmptyQueues
    /\ ingested = [k \in MessageKinds |-> 0]

UATNext ==
    \/ SyncFound \/ HeaderWritten \/ ReceptionEnds \/ RFCallback
    \/ TakeMessage \/ QueueDecoded \/ UpdateRadio
    \/ ReadStatus \/ GetRawPackets \/ AttemptLost \/ UnpackResponse \/ IngestHost
    \/ RebootSubG

UATSpec == UATInit /\ [][UATNext]_uatVars

-----------------------------------------------------------------------------

UATTypeOK ==
    /\ events \subseteq {"MdmSoft", "NDataWritten", "RxOk", "LastCmdDone"}
    /\ current_packet_len_bytes \in MessageKinds \cup {"unset"}
    /\ \A k \in MessageKinds :
          /\ heard[k] \in 0 .. MaxMessages[k] /\ ingested[k] \in 0 .. heard[k]
          /\ Len(raw[k]) <= RawLen[k] /\ Len(decoded[k]) <= DecodedLen[k]
          /\ Len(host[k]) <= HostLen[k]
    /\ attemptsLeft \in 0 .. ReadAttempts
    /\ reading = "yes" => attemptsLeft > 0
    /\ response # NoResponse => reading = "yes"

\* The messages of a kind on their way, those nearest to the aircraft
\* dictionary first.
OnTheirWay(k) ==
    host[k] \o (IF response = NoResponse THEN <<>> ELSE response[k]) \o decoded[k]
       \o (IF loopAt = k /\ decoding # NoMessage THEN <<decoding>> ELSE <<>>) \o raw[k]

\* No message is read twice or overtakes another, however answers are lost and
\* queues overwritten; a readable message is queued as what it is, whatever was
\* received before it; and what reaches the RP2040 was readable.
UATInOrder ==
    \A k \in MessageKinds :
        LET way == OnTheirWay(k)
        IN  /\ \A i \in DOMAIN way :
                  way[i].clean =>
                     /\ way[i].kind = k /\ way[i].number > ingested[k]
                     /\ \A j \in 1 .. i - 1 : way[j].clean => way[j].number < way[i].number
            /\ \A i \in DOMAIN host[k] : host[k][i].clean
=============================================================================
