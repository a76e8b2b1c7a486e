--------------------------- MODULE SPILinkProofs ---------------------------
(***************************************************************************)
(* For as long as the coprocessor answers in time the SPI link implements  *)
(* RemoteCall, for every number of retries and of faults.                  *)
(*                                                                         *)
(* The argument: between two attempts nothing is left on the line, neither *)
(* a packet the coprocessor is still acting on nor a response, so what is  *)
(* acted on is the request at hand and what is read answers it.            *)
(***************************************************************************)
EXTENDS SPILink, TLAPS

\* What the stages of the two ends say of their other variables.
Consistent ==
    /\ stage = "idle" <=> request = None
    /\ stage # "idle" => num_attempts < MaxAttempts
    /\ slave = "busy" <=> packet # None
    /\ slave = "replying" <=> reply # NoReply

\* The coprocessor acts only on the request at hand, once per attempt.
InStep ==
    /\ slave = "busy" =>
         /\ stage = "await"
         /\ packet = request
         /\ executions <= num_attempts
    /\ slave = "replying" =>
         /\ stage \in {"await", "read"}
         /\ reply = [to |-> request, value |-> answer]
    /\ stage = "transmit" => executions <= num_attempts
    /\ executions <= num_attempts + 1

\* A retry, or the end of the call.
LEMMA AttemptFailedType ==
    ASSUME TypeOK, Consistent, stage # "idle", AttemptFailed
    PROVE  /\ num_attempts' = num_attempts + 1
           /\ num_attempts' \in 0 .. MaxAttempts
           /\ request' \in Requests \cup {None}
           /\ stage' \in {"idle", "transmit"}
           /\ stage' = "idle" <=> request' = None
           /\ stage' # "idle" => num_attempts' < MaxAttempts /\ request' = request
           /\ result' \in {None, Failure} \cup {Success(v) : v \in Values}
  BY LinkAssumption DEF TypeOK, Consistent, AttemptFailed

\* The bookkeeping of both ends is right whatever goes wrong.
LEMMA TypeInvariant == Spec => [](TypeOK /\ Consistent)
<1>1. Init => TypeOK /\ Consistent
  <2> SUFFICES ASSUME Init PROVE TypeOK /\ Consistent
    OBVIOUS
  <2>1. expecting_handshake_ \in BOOLEAN
    BY DEF Init
  <2>2. num_attempts \in 0 .. MaxAttempts /\ 0 < MaxAttempts /\ faults \in 0 .. MaxFaults
    BY LinkAssumption DEF Init
  <2> QED BY <2>1, <2>2 DEF Init, TypeOK, Consistent
<1>2. TypeOK /\ Consistent /\ [Next]_vars => (TypeOK /\ Consistent)'
  <2> SUFFICES ASSUME TypeOK, Consistent, [Next]_vars
               PROVE  (TypeOK /\ Consistent)'
    OBVIOUS
  <2> USE LinkAssumption DEF masterVars, slaveVars, troubles, history
  <2>1. ASSUME NEW r \in Requests, Call(r) PROVE (TypeOK /\ Consistent)'
    BY <2>1 DEF Call, TypeOK, Consistent
  <2>2. CASE YieldToSlave
    <3>1. stage # "idle"
      BY <2>2 DEF YieldToSlave
    <3>2. AttemptFailed
      BY <2>2 DEF YieldToSlave
    <3> HIDE DEF AttemptFailed
    <3> QED BY <2>2, <3>1, <3>2, AttemptFailedType
         DEF YieldToSlave, ClockOutReply, SPIEndTransaction, TypeOK, Consistent, NoReply
  <2>3. CASE Transmit
    <3>1. faults' \in 0 .. MaxFaults /\ late' \in BOOLEAN
      BY <2>3 DEF Transmit, Receive, Fault, TypeOK
    <3>2. request \in Requests /\ request' = request
      BY <2>3 DEF Transmit, TypeOK, Consistent
    <3> QED BY <2>3, <3>1, <3>2
         DEF Transmit, Receive, ClockOutReply, SPIEndTransaction, TypeOK, Consistent, NoReply
  <2>4. CASE HandshakeSeen
    BY <2>4 DEF HandshakeSeen, TypeOK, Consistent
  <2>5. CASE HandshakeTimeout
    <3>1. stage # "idle" /\ AttemptFailed
      BY <2>5 DEF HandshakeTimeout
    <3>2. faults' \in 0 .. MaxFaults /\ late' \in BOOLEAN
      <4>1. CASE UNCHANGED troubles
        BY <4>1 DEF TypeOK
      <4>2. CASE Fault("slow")
        BY <4>2 DEF Fault, TypeOK
      <4> QED BY <2>5, <4>1, <4>2 DEF HandshakeTimeout
    <3> HIDE DEF AttemptFailed
    <3> QED BY <2>5, <3>1, <3>2, AttemptFailedType DEF HandshakeTimeout, TypeOK, Consistent
  <2>6. CASE ReadReply
    <3>1. stage # "idle" /\ faults' \in 0 .. MaxFaults /\ late' \in BOOLEAN
      BY <2>6 DEF ReadReply, Fault, TypeOK
    <3>2. /\ slave' \in {"listening", "busy", "replying", "booting"}
          /\ slave' # "replying" /\ reply' = NoReply /\ packet' = packet
          /\ slave' = "busy" <=> slave = "busy"
          /\ expecting_handshake_' \in BOOLEAN
          /\ executions' = executions /\ answer' = answer
      BY <2>6 DEF ReadReply, ClockOutReply, SPIEndTransaction, TypeOK
    <3>3. CASE AttemptFailed
      <4> HIDE DEF AttemptFailed
      <4> QED BY <3>1, <3>2, <3>3, AttemptFailedType DEF TypeOK, Consistent
    <3>4. CASE Acceptable /\ stage' = "idle" /\ request' = None
               /\ result' = Success(reply.value) /\ num_attempts' = num_attempts
      BY <3>1, <3>2, <3>4 DEF TypeOK, Consistent, Acceptable
    <3> QED BY <2>6, <3>3, <3>4 DEF ReadReply
  <2>7. ASSUME NEW v \in Outcomes, Execute(v) PROVE (TypeOK /\ Consistent)'
    <3>1. packet \in Requests
      BY <2>7 DEF Execute, TypeOK, Consistent
    <3>2. reply' \in {NoReply} \cup [to : Requests, value : Outcomes]
      BY <2>7, <3>1 DEF Execute, TypeOK
    <3> QED BY <2>7, <3>1, <3>2 DEF Execute, TypeOK, Consistent, NoReply
  <2>8. CASE Restart
    BY <2>8 DEF Restart, Fault, TypeOK, Consistent, NoReply
  <2>9. CASE BootDone
    BY <2>9 DEF BootDone, TypeOK, Consistent
  <2>10. CASE UNCHANGED vars
    BY <2>10 DEF vars, TypeOK, Consistent
  <2> QED BY <2>1, <2>2, <2>3, <2>4, <2>5, <2>6, <2>7, <2>8, <2>9, <2>10 DEF Next, Master
<1> QED BY <1>1, <1>2, PTL DEF Spec

\* Type correctness of the link, for every number of retries and every fault.
THEOREM LinkTypeCorrect == Spec => []TypeOK
BY TypeInvariant, PTL

-----------------------------------------------------------------------------

\* Nothing is acted on or answered outside the attempt it belongs to.
LEMMA StaysInStep ==
    ASSUME ~late', TypeOK, Consistent, InStep, [Next]_vars, TypeOK'
    PROVE  InStep'
<1> USE LinkAssumption DEF masterVars, slaveVars, troubles, history
<1>1. ASSUME NEW r \in Requests, Call(r) PROVE InStep'
  BY <1>1 DEF Call, TypeOK, Consistent, InStep
<1>2. ASSUME AttemptFailed, stage # "idle", slave # "busy",
             slave' # "busy", slave' # "replying", UNCHANGED history
      PROVE  InStep'
  BY <1>2 DEF AttemptFailed, TypeOK, InStep
<1>3. CASE YieldToSlave
  <2>1. slave # "busy" /\ slave' # "busy" /\ slave' # "replying"
    BY <1>3 DEF YieldToSlave, MustYield, HandshakeHigh, ClockOutReply, TypeOK
  <2> QED BY <1>2, <1>3, <2>1 DEF YieldToSlave
<1>4. CASE Transmit
  <2>1. slave # "busy" /\ slave # "replying" /\ executions <= num_attempts
    BY <1>4 DEF Transmit, InStep
  <2> QED BY <1>4, <2>1 DEF Transmit, Receive, TypeOK, InStep
<1>5. CASE HandshakeSeen
  BY <1>5 DEF HandshakeSeen, HandshakeHigh, TypeOK, InStep
<1>6. CASE HandshakeTimeout
  <2>1. slave = "listening" /\ slave' = "listening"
    BY <1>6 DEF HandshakeTimeout, Fault
  <2> QED BY <1>2, <1>6, <2>1 DEF HandshakeTimeout
<1>7. CASE ReadReply
  <2>1. slave # "busy" /\ slave' # "busy" /\ slave' # "replying"
    BY <1>7 DEF ReadReply, ClockOutReply, InStep, TypeOK
  <2>2. CASE AttemptFailed
    BY <1>2, <1>7, <2>1, <2>2 DEF ReadReply
  <2>3. CASE stage' = "idle" /\ num_attempts' = num_attempts
    BY <1>7, <2>1, <2>3 DEF ReadReply, TypeOK, InStep
  <2> QED BY <1>7, <2>2, <2>3 DEF ReadReply
<1>8. ASSUME NEW v \in Outcomes, Execute(v) PROVE InStep'
  BY <1>8 DEF Execute, TypeOK, InStep
<1>9. CASE Restart
  BY <1>9 DEF Restart, TypeOK, InStep
<1>10. CASE BootDone
  BY <1>10 DEF BootDone, TypeOK, InStep
<1>11. CASE UNCHANGED vars
  BY <1>11 DEF vars, InStep
<1> QED BY <1>1, <1>3, <1>4, <1>5, <1>6, <1>7, <1>8, <1>9, <1>10, <1>11 DEF Next, Master

\* An attempt that comes to nothing is a Miss, or a Fail if it is the last.
LEMMA AttemptFailedIsMiss ==
    ASSUME TypeOK, Consistent, stage # "idle", AttemptFailed, UNCHANGED history
    PROVE  Remote!Miss \/ Remote!Fail
<1>1. request # None /\ num_attempts < MaxAttempts
  BY DEF Consistent
<1>2. CASE num_attempts' < MaxAttempts
  BY <1>1, <1>2 DEF AttemptFailed, Remote!Miss, history
<1>3. CASE ~(num_attempts' < MaxAttempts)
  <2>1. num_attempts + 1 = MaxAttempts
    BY <1>1, <1>3, LinkAssumption DEF AttemptFailed, TypeOK
  <2> QED BY <1>1, <1>3, <2>1
       DEF AttemptFailed, Remote!Fail, Remote!Failure, Failure, history
<1> QED BY <1>2, <1>3

\* Every step of the link is a step of RemoteCall, or none.
LEMMA StepRefines ==
    ASSUME ~late', TypeOK, Consistent, InStep, [Next]_vars
    PROVE  [Remote!Next]_(Remote!vars)
<1> USE DEF masterVars, slaveVars, troubles, history
<1>1. ASSUME NEW r \in Requests, Call(r) PROVE Remote!Next
  BY <1>1 DEF Call, Consistent, Remote!Next, Remote!Invoke
<1>2. ASSUME AttemptFailed, stage # "idle", UNCHANGED history PROVE Remote!Next
  BY <1>2, AttemptFailedIsMiss DEF Remote!Next
<1>3. CASE YieldToSlave
  BY <1>2, <1>3 DEF YieldToSlave
<1>4. CASE Transmit
  BY <1>4 DEF Transmit, Remote!vars
<1>5. CASE HandshakeSeen
  BY <1>5 DEF HandshakeSeen, Remote!vars
<1>6. CASE HandshakeTimeout
  BY <1>2, <1>6 DEF HandshakeTimeout
<1>7. CASE ReadReply
  <2>1. CASE AttemptFailed
    BY <1>2, <1>7, <2>1 DEF ReadReply
  <2>2. CASE Acceptable /\ request' = None /\ result' = Success(reply.value)
             /\ num_attempts' = num_attempts
    <3>1. slave = "replying"
      BY <2>2 DEF Acceptable, Consistent, NoReply
    <3>2. reply.value = answer /\ request # None
      BY <1>7, <3>1 DEF InStep, ReadReply, Consistent
    <3>3. Remote!Succeed
      BY <1>7, <2>2, <3>2, LinkAssumption
      DEF ReadReply, Acceptable, Success, Remote!Succeed, Remote!Success
    <3> QED BY <3>3 DEF Remote!Next
  <2> QED BY <1>7, <2>1, <2>2 DEF ReadReply
<1>8. ASSUME NEW v \in Outcomes, Execute(v) PROVE Remote!Next
  <2>1. request # None /\ executions <= num_attempts
    BY <1>8 DEF Execute, InStep, Consistent
  <2>2. Remote!Execute(v)
    BY <1>8, <2>1 DEF Execute, Remote!Execute
  <2> QED BY <2>2 DEF Remote!Next, Remote!Outcomes, Outcomes
<1>9. CASE Restart
  BY <1>9 DEF Restart, Remote!vars
<1>10. CASE BootDone
  BY <1>10 DEF BootDone, Remote!vars
<1>11. CASE UNCHANGED vars
  BY <1>11 DEF vars, Remote!vars
<1> QED BY <1>1, <1>3, <1>4, <1>5, <1>6, <1>7, <1>8, <1>9, <1>10, <1>11 DEF Next, Master

\* A coprocessor that once was late stays so in the history.
LEMMA LateStays ==
    ASSUME TypeOK, late, [Next]_vars
    PROVE  late'
<1> USE DEF masterVars, slaveVars, troubles, history
<1>1. ASSUME NEW kind, Fault(kind) PROVE late'
  BY <1>1 DEF Fault
<1>2. CASE UNCHANGED late
  BY <1>2
<1>3. CASE Transmit
  BY <1>1, <1>2, <1>3 DEF Transmit, Receive
<1>4. CASE HandshakeTimeout
  BY <1>1, <1>2, <1>4 DEF HandshakeTimeout
<1>5. CASE ReadReply
  BY <1>1, <1>2, <1>5 DEF ReadReply
<1>6. CASE Restart
  BY <1>1, <1>6 DEF Restart
<1> QED BY <1>2, <1>3, <1>4, <1>5, <1>6
     DEF Next, Master, Call, YieldToSlave, HandshakeSeen, Execute, BootDone, vars

\* Acknowledged writes and reads over the link are remote calls until an answer
\* comes too late: executed within their call, at most once per attempt,
\* answered by the last execution.
THEOREM LinkImplementsRemoteCall == Spec => ImplementsRemoteCall
<1>1. Init => (late \/ InStep) /\ Remote!Init
  BY DEF Init, InStep, Remote!Init
<1>2. TypeOK /\ Consistent /\ (late \/ InStep) /\ [Next]_vars /\ TypeOK' => (late \/ InStep)'
  BY StaysInStep, LateStays
<1>3. TypeOK /\ Consistent /\ (late \/ InStep) /\ [Next]_vars
        => [late' \/ Remote!Next]_(Remote!vars)
  BY StepRefines, LateStays
<1> QED BY <1>1, <1>2, <1>3, TypeInvariant, PTL DEF Spec, ImplementsRemoteCall

=============================================================================
