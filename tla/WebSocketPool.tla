---------------------------- MODULE WebSocketPool ----------------------------
(***************************************************************************)
(* The clients of one WebSocketServer of the ESP32 (websocket_server.cpp). *)
(* Two tasks use clients_ without a lock: the HTTP server's, which calls   *)
(* Handler and ws_close_fd, and the task of ADSBeeServer::Update, which    *)
(* prunes and broadcasts in turn.  (For the console, whose clients never   *)
(* time out, it is the SPI task that broadcasts, and nobody prunes.)       *)
(* A step is one access to a field of a slot; the search for a slot is one *)
(* step.  The HTTP server is external: it hands out descriptors that are   *)
(* not open, and calls ws_close_fd for each session it closes.             *)
(***************************************************************************)
EXTENDS Integers

CONSTANTS
    Fds,               \* descriptors the HTTP server hands out
    Nowhere,           \* client_fd of a slot that is not used: -1
    NumClients,        \* num_clients_allowed
    TimesOut,          \* inactivity_timeout_ms > 0
    MaxConnects        \* bound: connections

ASSUME PoolAssumption ==
    /\ Nowhere \notin Fds /\ NumClients \in Nat \ {0}
    /\ TimesOut \in BOOLEAN /\ MaxConnects \in Nat

VARIABLES
    in_use, client_fd,     \* clients_
    outdated,              \* whether last_message_timestamp_ms is too long ago
    sessions,              \* descriptors of the open sessions
    closing,               \* sessions httpd_sess_trigger_close was called for
    http,                  \* [op, fd, slot] of the HTTP server's task
    server,                \* [op, at, fd, slot] of the other
    connects

slotVars == <<in_use, client_fd, outdated>>
httpVars == <<sessions, http, connects>>
poolVars == <<slotVars, closing, httpVars, server>>

ClientSlots == 1 .. NumClients
HTTPIdle == http.op = "idle"

\* The first slot of a set; 0 stands for the end of the search.
FirstOf(S) == IF S = {} THEN 0 ELSE CHOOSE i \in S : \A j \in S : i <= j
SlotOf(fd) == FirstOf({i \in ClientSlots : in_use[i] /\ client_fd[i] = fd})

-----------------------------------------------------------------------------
(* The HTTP server's task.                                                 *)

HTTPDoes(op) == http' = [http EXCEPT !.op = op]

Connect ==
    /\ HTTPIdle /\ connects < MaxConnects
    /\ \E fd \in Fds \ sessions :
          /\ sessions' = sessions \cup {fd}
          /\ http' = [op |-> "add", fd |-> fd, slot |-> 0]
    /\ connects' = connects + 1
    /\ UNCHANGED <<slotVars, closing, server>>

\* AddClient; a client without a slot is rejected.
AddClient ==
    /\ http.op = "add"
    /\ LET free == FirstOf({i \in ClientSlots : ~in_use[i]})
       IN  IF free = 0
           THEN HTTPDoes("remove") /\ UNCHANGED in_use
           ELSE /\ in_use' = [in_use EXCEPT ![free] = TRUE]
                /\ http' = [http EXCEPT !.op = "store_fd", !.slot = free]
    /\ UNCHANGED <<client_fd, outdated, closing, sessions, connects, server>>

StoreFd ==
    /\ http.op = "store_fd"
    /\ client_fd' = [client_fd EXCEPT ![http.slot] = http.fd]
    /\ HTTPDoes("store_time")
    /\ UNCHANGED <<in_use, outdated, closing, sessions, connects, server>>

StoreTime ==
    /\ http.op = "store_time"
    /\ outdated' = [outdated EXCEPT ![http.slot] = FALSE]
    /\ HTTPDoes("idle")
    /\ UNCHANGED <<in_use, client_fd, closing, sessions, connects, server>>

\* UpdateActivityTimer: it does not ask whether the slot is in use.
UpdateActivityTimer ==
    /\ HTTPIdle
    /\ \E fd \in sessions :
          LET i == FirstOf({j \in ClientSlots : client_fd[j] = fd})
          IN  /\ i # 0
              /\ outdated' = [outdated EXCEPT ![i] = FALSE]
    /\ UNCHANGED <<in_use, client_fd, closing, httpVars, server>>

EndSession(fd) ==
    /\ HTTPIdle /\ fd \in sessions
    /\ http' = [op |-> "remove", fd |-> fd, slot |-> 0]
    /\ UNCHANGED <<slotVars, closing, sessions, connects, server>>

\* Mutant: the slot is left to the server's task.
CloseWithoutRemoving ==
    /\ http.op = "remove"
    /\ HTTPDoes("close")
    /\ UNCHANGED <<slotVars, closing, sessions, connects, server>>

\* ws_close_fd: RemoveClient, and the socket is closed.
WSCloseFd ==
    /\ http.op = "remove"
    /\ IF SlotOf(http.fd) = 0 THEN HTTPDoes("close")
       ELSE http' = [http EXCEPT !.op = "free", !.slot = SlotOf(http.fd)]
    /\ UNCHANGED <<slotVars, closing, sessions, connects, server>>

FreeClosed ==
    /\ http.op = "free"
    /\ in_use' = [in_use EXCEPT ![http.slot] = FALSE]
    /\ HTTPDoes("forget")
    /\ UNCHANGED <<client_fd, outdated, closing, sessions, connects, server>>

ForgetClosed ==
    /\ http.op = "forget"
    /\ client_fd' = [client_fd EXCEPT ![http.slot] = Nowhere]
    /\ HTTPDoes("close")
    /\ UNCHANGED <<in_use, outdated, closing, sessions, connects, server>>

CloseSocket ==
    /\ http.op = "close"
    /\ sessions' = sessions \ {http.fd}
    /\ closing' = closing \ {http.fd}
    /\ HTTPDoes("idle")
    /\ UNCHANGED <<slotVars, connects, server>>

-----------------------------------------------------------------------------
(* The task of ADSBeeServer::Update: Update looks at each slot, then       *)
(* BroadcastMessage does.                                                  *)

FirstSlot(loop) == [loop |-> loop, op |-> "look", at |-> 1, fd |-> Nowhere, slot |-> 0]
NextSlot ==
    IF server.at < NumClients THEN [FirstSlot(server.loop) EXCEPT !.at = server.at + 1]
    ELSE FirstSlot(IF server.loop = "update" THEN "broadcast" ELSE "update")
ServerDoes(op) == server' = [server EXCEPT !.op = op]
ServerLeaves == UNCHANGED <<httpVars, closing>>

\* The time is read before in_use, and client_fd after it.
ReadTime ==
    /\ server.loop = "update" /\ server.op = "look"
    /\ IF TimesOut /\ outdated[server.at] THEN ServerDoes("late") ELSE server' = NextSlot
    /\ UNCHANGED slotVars /\ ServerLeaves

ReadInUse ==
    /\ server.op = IF server.loop = "update" THEN "late" ELSE "look"
    /\ IF ~in_use[server.at] THEN server' = NextSlot
       ELSE ServerDoes(IF server.loop = "update" THEN "give_up" ELSE "send")
    /\ UNCHANGED slotVars /\ ServerLeaves

\* Mutant: no error of SendMessage ends a session.
SendDropping ==
    /\ server.op = "send"
    /\ server' = NextSlot
    /\ UNCHANGED slotVars /\ ServerLeaves

\* A message to no session fails for good; one to a session may.
Send ==
    /\ server.op = "send"
    /\ \/ client_fd[server.at] \in sessions /\ server' = NextSlot
       \/ ServerDoes("give_up")
    /\ UNCHANGED slotVars /\ ServerLeaves

\* Both loops read client_fd, BroadcastMessage for the second time.
ReadFd ==
    /\ server.op = "give_up"
    /\ server' = [server EXCEPT !.op = "remove", !.fd = client_fd[server.at]]
    /\ UNCHANGED slotVars /\ ServerLeaves

RemoveClient ==
    /\ server.op = "remove"
    /\ IF SlotOf(server.fd) = 0 THEN ServerDoes("trigger_close")
       ELSE server' = [server EXCEPT !.op = "free", !.slot = SlotOf(server.fd)]
    /\ UNCHANGED slotVars /\ ServerLeaves

FreeSlot ==
    /\ server.op = "free"
    /\ in_use' = [in_use EXCEPT ![server.slot] = FALSE]
    /\ ServerDoes("forget")
    /\ UNCHANGED <<client_fd, outdated>> /\ ServerLeaves

ForgetFd ==
    /\ server.op = "forget"
    /\ client_fd' = [client_fd EXCEPT ![server.slot] = Nowhere]
    /\ ServerDoes("trigger_close")
    /\ UNCHANGED <<in_use, outdated>> /\ ServerLeaves

TriggerClose ==
    /\ server.op = "trigger_close"
    /\ closing' = closing \cup ({server.fd} \cap sessions)
    /\ server' = NextSlot
    /\ UNCHANGED <<slotVars, httpVars>>

-----------------------------------------------------------------------------

TimePasses ==
    /\ \E i \in ClientSlots : ~outdated[i] /\ outdated' = [outdated EXCEPT ![i] = TRUE]
    /\ UNCHANGED <<in_use, client_fd, closing, httpVars, server>>

PoolInit ==
    /\ in_use = [i \in ClientSlots |-> FALSE]
    /\ client_fd = [i \in ClientSlots |-> Nowhere]
    /\ outdated = [i \in ClientSlots |-> FALSE]
    /\ sessions = {} /\ closing = {}
    /\ http = [op |-> "idle", fd |-> Nowhere, slot |-> 0]
    /\ server = FirstSlot("update")
    /\ connects = 0

HTTPGoesOn ==
    \/ AddClient \/ StoreFd \/ StoreTime
    \/ WSCloseFd \/ FreeClosed \/ ForgetClosed \/ CloseSocket

ServerGoesOn ==
    \/ ReadTime \/ ReadInUse \/ Send \/ ReadFd \/ RemoveClient \/ FreeSlot \/ ForgetFd
    \/ TriggerClose

PoolNext ==
    \/ Connect \/ UpdateActivityTimer \/ \E fd \in Fds : EndSession(fd)
    \/ HTTPGoesOn \/ ServerGoesOn \/ TimePasses

\* Both tasks go on with what they have begun.
PoolSpec ==
    /\ PoolInit /\ [][PoolNext]_poolVars
    /\ WF_poolVars(HTTPGoesOn) /\ WF_poolVars(ServerGoesOn)

-----------------------------------------------------------------------------

PoolTypeOK ==
    /\ in_use \in [ClientSlots -> BOOLEAN] /\ outdated \in [ClientSlots -> BOOLEAN]
    /\ client_fd \in [ClientSlots -> Fds \cup {Nowhere}]
    /\ closing \subseteq sessions /\ sessions \subseteq Fds
    /\ http.slot \in ClientSlots \cup {0} /\ server.slot \in ClientSlots \cup {0}
    /\ connects \in 0 .. MaxConnects

\* No slot outlives its session and no session has two, whatever the server's
\* task has freed meanwhile: a descriptor handed out again is never that of a
\* slot in use.
SlotsOfSessions ==
    HTTPIdle =>
        \A i \in ClientSlots :
            in_use[i] /\ client_fd[i] # Nowhere =>
                /\ client_fd[i] \in sessions
                /\ \A j \in ClientSlots \ {i} : in_use[j] => client_fd[j] # client_fd[i]

\* A slot whose descriptor is overwritten after it has been taken again, by the
\* task that had freed it, belongs to nobody; it comes back all the same.
SlotsComeBack ==
    \A i \in ClientSlots :
        (in_use[i] /\ client_fd[i] \notin sessions)
            ~> (~in_use[i] \/ client_fd[i] \in sessions)
=============================================================================
