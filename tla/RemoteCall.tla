----------------------------- MODULE RemoteCall -----------------------------
(***************************************************************************)
(* What the master of the SPI link may rely on when it reads or writes an  *)
(* object of a coprocessor: a call is executed at least once before it     *)
(* succeeds, at most once per attempt, never outside its call, and what a  *)
(* successful call returns is the outcome of its last execution.  A call   *)
(* fails only after MaxAttempts attempts have come to nothing.             *)
(***************************************************************************)
EXTENDS Naturals

CONSTANTS
    Requests,
    Values,        \* outcomes that make a call succeed: an ack, a block of data
    Refused,       \* the outcome that does not: a nack, no data to give
    None,
    MaxAttempts

VARIABLES
    call,          \* the request being made, None between calls
    misses,        \* attempts of this call that came to nothing
    executions,    \* times the coprocessor has executed this call
    answer,        \* outcome of the last execution, None before the first
    result         \* what the last call returned, None while one is made

vars == <<call, misses, executions, answer, result>>

Outcomes == Values \cup {Refused}
Success(v) == [ok |-> TRUE, value |-> v]
Failure == [ok |-> FALSE, value |-> None]

Init ==
    /\ call = None
    /\ misses = 0
    /\ executions = 0
    /\ answer = None
    /\ result = None

Invoke(r) ==
    /\ call = None
    /\ call' = r
    /\ misses' = 0
    /\ executions' = 0
    /\ answer' = None
    /\ result' = None

\* The coprocessor acts on a request it received in the current attempt.
Execute(v) ==
    /\ call # None
    /\ executions <= misses
    /\ executions' = executions + 1
    /\ answer' = v
    /\ UNCHANGED <<call, misses, result>>

\* An attempt comes to nothing, before or after the coprocessor acted on it.
Miss ==
    /\ call # None
    /\ misses + 1 < MaxAttempts
    /\ misses' = misses + 1
    /\ UNCHANGED <<call, executions, answer, result>>

Succeed ==
    /\ call # None
    /\ answer \notin {None, Refused}
    /\ call' = None
    /\ result' = Success(answer)
    /\ UNCHANGED <<misses, executions, answer>>

\* The last attempt comes to nothing too.
Fail ==
    /\ call # None
    /\ misses + 1 = MaxAttempts
    /\ call' = None
    /\ misses' = misses + 1
    /\ result' = Failure
    /\ UNCHANGED <<executions, answer>>

Next ==
    \/ \E r \in Requests : Invoke(r)
    \/ \E v \in Outcomes : Execute(v)
    \/ Miss
    \/ Succeed
    \/ Fail

Spec == Init /\ [][Next]_vars
=============================================================================
