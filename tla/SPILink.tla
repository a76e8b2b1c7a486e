------------------------------ MODULE SPILink ------------------------------
(***************************************************************************)
(* One SPI link between the RP2040, its master, and a coprocessor, at the  *)
(* level of SPI transactions: PartialWrite (with an ack) and PartialRead   *)
(* of SPICoprocessor on the master, the transaction loop on the            *)
(* coprocessor, and the handshake line by which a coprocessor says that it *)
(* has something to clock out.                                             *)
(*                                                                         *)
(* The coprocessor hears nothing while it acts on a packet or restarts.    *)
(* Packets carry a CRC, no address and no number: a response is taken for  *)
(* the answer to the request at hand if it has the command and the length  *)
(* expected, which is what Shape says.                                     *)
(*                                                                         *)
(* ChecksHandshake is TRUE for the ESP32 and FALSE for the CC1312, whose   *)
(* driver transmits without looking at the line.                           *)
(***************************************************************************)
EXTENDS Naturals

CONSTANTS
    Requests, Values, Refused, None,
    MaxAttempts,           \* kSPITransactionMaxNumRetries
    Writes,                \* the requests that are writes; the others read
    Refusable,             \* requests SetBytes or GetBytes may refuse
    Shape,                 \* what a response to each request looks like
    ChecksHandshake,
    Faults,                \* what can go wrong: "corrupt", "restart", "slow"
    MaxFaults              \* bound: how often it does

ASSUME LinkAssumption ==
    /\ MaxAttempts \in Nat \ {0}
    /\ MaxFaults \in Nat
    /\ None \notin Requests
    /\ None \notin Values /\ Refused \notin Values
    /\ ChecksHandshake \in BOOLEAN

VARIABLES
    stage,                 \* where the master is: "idle", "transmit", "await", "read"
    request,               \* the request being made, None between calls
    num_attempts,
    expecting_handshake_,
    result,                \* what the last call returned
    slave,                 \* "listening", "busy", "replying" or "booting"
    packet,                \* the request the coprocessor is acting on
    reply,                 \* the response it has queued, and to what
    faults,                \* number of faults so far
    late,                  \* whether the coprocessor ever answered too late
    executions,            \* history: executions since the last call began
    answer                 \* history: outcome of the last of them

masterVars == <<stage, request, num_attempts, expecting_handshake_, result>>
slaveVars == <<slave, packet, reply>>
troubles == <<faults, late>>
history == <<executions, answer>>
vars == <<masterVars, slaveVars, troubles, history>>

Outcomes == Values \cup {Refused}
NoReply == [to |-> None, value |-> None]
Success(v) == [ok |-> TRUE, value |-> v]
Failure == [ok |-> FALSE, value |-> None]

\* The pin is driven high while a response waits, and floats high at boot.
HandshakeHigh == slave \in {"replying", "booting"}

Fault(kind) ==
    /\ kind \in Faults
    /\ faults < MaxFaults
    /\ faults' = faults + 1
    /\ late' = (late \/ kind = "slow")

Init ==
    /\ stage = "idle"
    /\ request = None
    /\ num_attempts = 0
    /\ expecting_handshake_ = FALSE
    /\ result = None
    /\ slave = "booting"
    /\ packet = None
    /\ reply = NoReply
    /\ faults = 0
    /\ late = FALSE
    /\ executions = 0
    /\ answer = None

-----------------------------------------------------------------------------
(* The master.                                                             *)

Call(r) ==
    /\ stage = "idle"
    /\ stage' = "transmit"
    /\ request' = r
    /\ num_attempts' = 0
    /\ result' = None
    /\ executions' = 0
    /\ answer' = None
    /\ UNCHANGED <<expecting_handshake_, slaveVars, troubles>>

\* Mutant: the last retry is not the last.
AttemptFailedOnceMore ==
    /\ num_attempts' = num_attempts + 1
    /\ IF num_attempts' <= MaxAttempts
       THEN stage' = "transmit" /\ UNCHANGED <<request, result>>
       ELSE stage' = "idle" /\ request' = None /\ result' = Failure

\* goto PARTIAL_WRITE_FAILED, PARTIAL_READ_FAILED.
AttemptFailed ==
    /\ num_attempts' = num_attempts + 1
    /\ IF num_attempts' < MaxAttempts
       THEN stage' = "transmit" /\ UNCHANGED <<request, result>>
       ELSE stage' = "idle" /\ request' = None /\ result' = Failure

\* Clocking out whatever the coprocessor has queued ends its transaction.
ClockOutReply ==
    /\ slave' = IF slave = "replying" THEN "listening" ELSE slave
    /\ reply' = NoReply
    /\ UNCHANGED packet

\* SPIEndTransaction; the CC1312's leaves expecting_handshake_ alone.
SPIEndTransaction ==
    expecting_handshake_' = (expecting_handshake_ /\ ~ChecksHandshake)

MustYield == ChecksHandshake /\ HandshakeHigh /\ ~expecting_handshake_

\* Mutant: giving way without clocks, so that the response stays queued.
YieldToSlaveWithoutClocking ==
    /\ stage = "transmit"
    /\ MustYield
    /\ SPIEndTransaction
    /\ AttemptFailed
    /\ UNCHANGED <<slaveVars, troubles, history>>

\* kErrorHandshakeHigh: dummy clocks let the coprocessor get rid of a response
\* that nobody waits for.
YieldToSlave ==
    /\ stage = "transmit"
    /\ MustYield
    /\ ClockOutReply
    /\ SPIEndTransaction
    /\ AttemptFailed
    /\ UNCHANGED <<troubles, history>>

\* The packet arrives, and arrives whole or fails the coprocessor's CRC check.
Receive ==
    \/ /\ slave' = "busy"
       /\ packet' = request
       /\ UNCHANGED <<reply, troubles>>
    \/ /\ Fault("corrupt")
       /\ UNCHANGED slaveVars

\* A coprocessor that still acts on the last packet does not hear this one.
Transmit ==
    /\ stage = "transmit"
    /\ ~MustYield
    /\ \/ slave = "listening" /\ Receive
       \/ slave = "replying" /\ ClockOutReply /\ UNCHANGED troubles
       \/ slave = "booting" /\ UNCHANGED <<slaveVars, troubles>>
       \/ slave = "busy" /\ UNCHANGED <<slaveVars, troubles>>
    /\ SPIEndTransaction
    /\ stage' = "await"
    /\ UNCHANGED <<request, num_attempts, result, history>>

HandshakeSeen ==
    /\ stage = "await"
    /\ HandshakeHigh
    /\ expecting_handshake_' = TRUE
    /\ stage' = "read"
    /\ UNCHANGED <<request, num_attempts, result, slaveVars, troubles, history>>

\* A coprocessor that is prompt answers within kSPIHandshakeTimeoutMs.
HandshakeTimeout ==
    /\ stage = "await"
    /\ \/ slave = "listening" /\ UNCHANGED troubles
       \/ slave = "busy" /\ Fault("slow")
    /\ expecting_handshake_' = FALSE
    /\ AttemptFailed
    /\ UNCHANGED <<slaveVars, history>>

Acceptable ==
    /\ reply.to # None
    /\ Shape[reply.to] = Shape[request]
    /\ reply.value \in Values

ReadReply ==
    /\ stage = "read"
    /\ \/ /\ Acceptable
          /\ stage' = "idle"
          /\ request' = None
          /\ result' = Success(reply.value)
          /\ UNCHANGED <<num_attempts, troubles>>
       \/ ~Acceptable /\ AttemptFailed /\ UNCHANGED troubles
       \/ reply.to # None /\ Fault("corrupt") /\ AttemptFailed
    /\ ClockOutReply
    /\ SPIEndTransaction
    /\ UNCHANGED history

-----------------------------------------------------------------------------
(* The coprocessor.                                                        *)

\* Mutant: a failed read is answered with the buffer as it is.
ExecuteAnswersRefusedRead(v) ==
    /\ slave = "busy"
    /\ v = Refused => packet \in Refusable
    /\ slave' = "replying"
    /\ reply' = [to |-> packet, value |-> IF v = Refused THEN CHOOSE w \in Values : TRUE ELSE v]
    /\ packet' = None
    /\ executions' = executions + 1
    /\ answer' = v
    /\ UNCHANGED <<masterVars, troubles>>

\* SetBytes or GetBytes, then the response; a refused read gets none.
Execute(v) ==
    /\ slave = "busy"
    /\ v = Refused => packet \in Refusable
    /\ IF v = Refused /\ packet \notin Writes
       THEN slave' = "listening" /\ UNCHANGED reply
       ELSE slave' = "replying" /\ reply' = [to |-> packet, value |-> v]
    /\ packet' = None
    /\ executions' = executions + 1
    /\ answer' = v
    /\ UNCHANGED <<masterVars, troubles>>

Restart ==
    /\ Fault("restart")
    /\ slave' = "booting"
    /\ packet' = None
    /\ reply' = NoReply
    /\ UNCHANGED <<masterVars, history>>

BootDone ==
    /\ slave = "booting"
    /\ slave' = "listening"
    /\ UNCHANGED <<masterVars, packet, reply, troubles, history>>

-----------------------------------------------------------------------------

Master ==
    \/ YieldToSlave
    \/ Transmit
    \/ HandshakeSeen
    \/ HandshakeTimeout
    \/ ReadReply

Next ==
    \/ \E r \in Requests : Call(r)
    \/ Master
    \/ \E v \in Outcomes : Execute(v)
    \/ Restart
    \/ BootDone

Spec == Init /\ [][Next]_vars

\* The main loop calls again and again and never stops in the middle of a
\* call; the coprocessor's SPI task runs.
FairSpec ==
    /\ Spec
    /\ WF_vars(\E r \in Requests : Call(r))
    /\ WF_vars(Master)
    /\ WF_vars(\E v \in Outcomes : Execute(v))
    /\ WF_vars(BootDone)

-----------------------------------------------------------------------------

TypeOK ==
    /\ stage \in {"idle", "transmit", "await", "read"}
    /\ request \in Requests \cup {None}
    /\ num_attempts \in 0 .. MaxAttempts
    /\ expecting_handshake_ \in BOOLEAN
    /\ result \in {None, Failure} \cup {Success(v) : v \in Values}
    /\ slave \in {"listening", "busy", "replying", "booting"}
    /\ packet \in Requests \cup {None}
    /\ reply \in {NoReply} \cup [to : Requests, value : Outcomes]
    /\ faults \in 0 .. MaxFaults
    /\ late \in BOOLEAN
    /\ executions \in Nat
    /\ answer \in Outcomes \cup {None}

\* For as long as the coprocessor answers in time, a read or an acknowledged
\* write is a RemoteCall, whatever is corrupted and whenever the coprocessor
\* restarts.
Remote == INSTANCE RemoteCall WITH call <- request, misses <- num_attempts

ImplementsRemoteCall == Remote!Init /\ [][late' \/ Remote!Next]_(Remote!vars)

\* When nothing goes wrong any more the link comes back, whatever the line and
\* the two ends were left in and however late an answer was: again and again a
\* call succeeds or is refused by the coprocessor itself.
LinkRecovers == []<>(result # None /\ (result = Failure => answer = Refused))

=============================================================================
