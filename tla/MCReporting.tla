----------------------------- MODULE MCReporting -----------------------------
(***************************************************************************)
(* What core 0 takes out of queues and hands on: a queue between its users *)
(* (MCPFBQueueShared) and the reporting queues with the rounds of reports; *)
(* and the clients to whom the ESP32 hands its reports.  They share no     *)
(* state, so one behaviour moves one of them: "part" says which.           *)
(***************************************************************************)
EXTENDS MCPFBQueueShared, Reporting, WebSocketPool

\* Packets of different length; an array takes two short ones.
MCSize == <<1, 2, 2>>

VARIABLE part

bothVars == <<part, vars, reportingVars, poolVars>>

BothInit ==
    /\ part \in {"shared", "reporting", "clients"}
    /\ Init /\ ReportingInit /\ PoolInit
    /\ part # "shared" => config_ = Sharing(TRUE, FALSE, FALSE)

BothNext ==
    /\ UNCHANGED part
    /\ \/ part = "shared" /\ Next /\ UNCHANGED <<reportingVars, poolVars>>
       \/ part = "reporting" /\ ReportingNext /\ UNCHANGED <<vars, poolVars>>
       \/ part = "clients" /\ PoolNext /\ UNCHANGED <<vars, reportingVars>>

\* A task goes on only where its part is the one that moves.
BothFairness ==
    /\ \A u \in Producers : WF_vars(part = "shared" /\ Enqueue(u))
    /\ \A u \in Consumers : SF_vars(part = "shared" /\ Dequeue(u))
    /\ WF_reportingVars(part = "reporting" /\ IntervalPasses)
    /\ WF_poolVars(part = "clients" /\ HTTPGoesOn)
    /\ WF_poolVars(part = "clients" /\ ServerGoesOn)

BothSpec == BothInit /\ [][BothNext]_bothVars /\ BothFairness

\* The fields of the queue and the locals of its users keep their types, the
\* reporting queues their length, no protocol walks past the snapshot, and only
\* open sessions are to be closed.
BothTypeOK == TypeOK /\ ReportingTypeOK /\ PoolTypeOK
=============================================================================
