------------------------- MODULE CoprocessorUpdate -------------------------
(***************************************************************************)
(* What travels between the RP2040 and the ESP32 in one Update of the SPI  *)
(* coprocessor on the RP2040: the characters typed into the network        *)
(* console, the command requests of the ESP32 (it asks for its settings    *)
(* when it boots, and waits for them) and its log messages.                *)
(*                                                                         *)
(* Each of the three waits in a queue of the ESP32's object dictionary,    *)
(* which the RP2040 reads with one call and rolls, by the number of items  *)
(* read, with another.  The calls are those of RemoteCall, which SPILink   *)
(* implements.  The queues are the sequences that PFBQueue implements.     *)
(*                                                                         *)
(* A log message takes one unit of space, and a chunk of a read LogChunk   *)
(* units; the code's figures are about 4090 bytes, and up to 504 for one   *)
(* message.                                                                *)
(***************************************************************************)
EXTENDS Integers, Sequences, FiniteSets

CONSTANTS
    MaxAttempts, Refused, None,
    RepliesLost,           \* whether a response can be lost, or only a request
    LogDepth,              \* kLogMessageQueueDepth
    LogChunk,              \* SCResponsePacket::kDataMaxLenBytes, in messages
    ConsoleDepth,          \* kNetworkConsoleRxQueueDepth
    ParserDepth,           \* size of the RP2040's esp32_console_rx_queue
    MaxConsoleReads,       \* kMaxNumConsoleReadsPerUpdate
    MaxRequests,           \* kMaxNumSCCommandRequestsPerUpdate
    MaxLogs, MaxChars,     \* bounds: messages logged and characters typed
    MaxRestarts,           \* bound: restarts of the ESP32
    MaxFaults              \* bound: attempts lost and mutexes not free in time

ASSUME UpdateAssumption ==
    /\ {MaxAttempts, LogDepth, LogChunk, ConsoleDepth, ParserDepth} \subseteq Nat \ {0}
    /\ {MaxConsoleReads, MaxRequests, MaxLogs, MaxChars, MaxRestarts,
         MaxFaults} \subseteq Nat
    /\ RepliesLost \in BOOLEAN
    /\ TRUE \notin {Refused, None}     \* a write that succeeds is told from one that does not

VARIABLES
    call, misses, executions, answer, result,      \* RemoteCall
    \* the ESP32
    log_message_queue,
    sc_command_request_queue,
    network_console_rx_queue,
    boot,                  \* "off", "booting", "waiting" for settings, "running"
    settings_written,      \* whether settings were written since it booted
    \* the RP2040
    pc,                    \* the call of Update that is next or under way
    status,                \* the last device status read
    count,                 \* reads or requests of the current loop so far
    held,                  \* what the last read has brought
    pulled_log_queue,      \* the RP2040's own log_message_queue
    esp32_console_rx_queue,
    \* history
    logged, typed,         \* number of messages logged, of characters typed
    evicted,               \* messages overwritten in a full queue on either side
    printed,               \* messages the RP2040 has printed, or a restart took
    entered,               \* characters the AT parser has been given, or as above
    restarts, faults

rpc == <<call, misses, executions, answer, result>>
dictionary == <<log_message_queue, sc_command_request_queue, network_console_rx_queue>>
esp32 == <<dictionary, boot, settings_written>>
rp2040 == <<pc, status, count, held, pulled_log_queue, esp32_console_rx_queue>>
inputs == <<logged, typed, restarts>>
history == <<inputs, evicted, printed, entered>>
vars == <<rpc, esp32, rp2040, history, faults>>

Remote == INSTANCE RemoteCall WITH Requests <- {}, Values <- {}

SmallerOf(a, b) == IF a < b THEN a ELSE b
Items(seq) == {seq[i] : i \in DOMAIN seq}
Front(seq, n) == SubSeq(seq, 1, SmallerOf(n, Len(seq)))
\* Mutant: whatever has been queued is discarded.
DiscardAll(seq, n) == <<>>
Discard(seq, n) == IF n > Len(seq) THEN seq ELSE SubSeq(seq, n + 1, Len(seq))
NoStatus == [logs |-> 0, requests |-> 0, chars |-> 0]

Read(addr, n) == [op |-> "read", addr |-> addr, num_items |-> n]
Write(addr, n) == [op |-> "write", addr |-> addr, num_items |-> n]

Init ==
    /\ Remote!Init
    /\ log_message_queue = <<>>
    /\ sc_command_request_queue = <<>>
    /\ network_console_rx_queue = <<>>
    /\ boot = "booting"
    /\ settings_written = FALSE
    /\ pc = "idle"
    /\ status = NoStatus
    /\ count = 0
    /\ held = <<>>
    /\ pulled_log_queue = <<>>
    /\ esp32_console_rx_queue = <<>>
    /\ logged = 0 /\ typed = 0 /\ restarts = 0 /\ faults = 0
    /\ evicted = {} /\ printed = {} /\ entered = {}

-----------------------------------------------------------------------------
(* The ESP32's own tasks.                                                  *)

Up == boot \in {"waiting", "running"}

\* A message is overwritten only where the queue is full (overwrite_when_full).
LogMessage ==
    /\ Up /\ logged < MaxLogs
    /\ logged' = logged + 1
    /\ IF Len(log_message_queue) < LogDepth
       THEN log_message_queue' = Append(log_message_queue, logged') /\ UNCHANGED evicted
       ELSE /\ log_message_queue' = Append(Tail(log_message_queue), logged')
            /\ evicted' = evicted \cup {Head(log_message_queue)}
    /\ UNCHANGED <<rpc, sc_command_request_queue, network_console_rx_queue, boot,
                   settings_written, rp2040, typed, restarts, printed, entered, faults>>

\* A message from a console client, here of one character.
NetworkConsoleMessageReceived ==
    /\ boot = "running" /\ typed < MaxChars
    /\ Len(network_console_rx_queue) < ConsoleDepth
    /\ typed' = typed + 1
    /\ network_console_rx_queue' = Append(network_console_rx_queue, typed')
    /\ UNCHANGED <<rpc, log_message_queue, sc_command_request_queue, boot,
                   settings_written, rp2040, logged, restarts, evicted, printed, entered,
                   faults>>

\* ADSBeeServer::Init.
RequestSettings ==
    /\ boot = "booting"
    /\ boot' = "waiting"
    /\ sc_command_request_queue' = Append(sc_command_request_queue, "settings")
    /\ UNCHANGED <<rpc, log_message_queue, network_console_rx_queue, settings_written,
                   rp2040, history, faults>>

\* The ESP32 is "off" until a call of the RP2040 has failed: it takes longer to
\* boot (kBootupDelayMs) than the RP2040 takes to give up a call.
Restart ==
    /\ Up /\ restarts < MaxRestarts
    /\ boot' = "off"
    /\ settings_written' = FALSE
    /\ log_message_queue' = <<>>
    /\ sc_command_request_queue' = <<>>
    /\ network_console_rx_queue' = <<>>
    /\ printed' = printed \cup Items(log_message_queue)        \* gone, not skipped
    /\ entered' = entered \cup Items(network_console_rx_queue)
    /\ restarts' = restarts + 1
    /\ UNCHANGED <<rpc, rp2040, logged, typed, evicted, faults>>

-----------------------------------------------------------------------------
(* The object dictionary: GetBytes and SetBytes.                           *)

Fault ==
    /\ faults < MaxFaults
    /\ faults' = faults + 1

\* The console's mutex is held by NetworkConsoleMessageReceived for too long.
MutexTimeout == Fault
MutexTaken == UNCHANGED faults

DeviceStatus(chars) ==
    [logs |-> Len(log_message_queue), requests |-> Len(sc_command_request_queue),
     chars |-> chars]

GetDeviceStatus ==
    /\ call.op = "read" /\ call.addr = "DeviceStatus"
    /\ \/ MutexTaken /\ Remote!Execute(DeviceStatus(Len(network_console_rx_queue)))
       \/ MutexTimeout /\ Remote!Execute(DeviceStatus(0))
    /\ UNCHANGED esp32

\* Mutant: a message that fills what is left of the buffer is not packed.
GetLogMessagesButOne ==
    /\ call.op = "read" /\ call.addr = "LogMessages"
    /\ Remote!Execute(Front(log_message_queue, call.num_items - 1))
    /\ UNCHANGED esp32

\* PackLogMessages starts with the oldest message, whatever the offset.
GetLogMessages ==
    /\ call.op = "read" /\ call.addr = "LogMessages"
    /\ Remote!Execute(Front(log_message_queue, call.num_items))
    /\ UNCHANGED esp32

\* Mutant: the request is dequeued when it is read, and not by its roll.
GetSCCommandRequestDequeued ==
    /\ call.op = "read" /\ call.addr = "SCCommandRequests"
    /\ sc_command_request_queue # <<>>
    /\ Remote!Execute(Front(sc_command_request_queue, 1))
    /\ sc_command_request_queue' = Tail(sc_command_request_queue)
    /\ UNCHANGED <<log_message_queue, network_console_rx_queue, boot, settings_written>>

GetSCCommandRequest ==
    /\ call.op = "read" /\ call.addr = "SCCommandRequests"
    /\ Remote!Execute(IF sc_command_request_queue = <<>> THEN Refused
                      ELSE Front(sc_command_request_queue, 1))
    /\ UNCHANGED esp32

\* Mutant: the last character queued cannot be read.
GetConsoleButOne ==
    /\ call.op = "read" /\ call.addr = "Console"
    /\ MutexTaken
    /\ Remote!Execute(IF call.num_items >= Len(network_console_rx_queue) THEN Refused
                      ELSE Front(network_console_rx_queue, call.num_items))
    /\ UNCHANGED esp32

GetConsole ==
    /\ call.op = "read" /\ call.addr = "Console"
    /\ \/ MutexTimeout /\ Remote!Execute(Refused)
       \/ /\ MutexTaken
          /\ Remote!Execute(IF call.num_items > Len(network_console_rx_queue) THEN Refused
                            ELSE Front(network_console_rx_queue, call.num_items))
    /\ UNCHANGED esp32

SetRollLogs ==
    /\ call.op = "write" /\ call.addr = "RollLogMessages"
    /\ Remote!Execute(TRUE)
    /\ log_message_queue' = Discard(log_message_queue, call.num_items)
    /\ UNCHANGED <<sc_command_request_queue, network_console_rx_queue, boot, settings_written>>

\* The callback of the request wakes ADSBeeServer::Init.
SetRollRequests ==
    /\ call.op = "write" /\ call.addr = "RollSCCommandRequests"
    /\ IF sc_command_request_queue = <<>>
       THEN Remote!Execute(Refused) /\ UNCHANGED <<sc_command_request_queue, boot>>
       ELSE /\ Remote!Execute(TRUE)
            /\ sc_command_request_queue' = Tail(sc_command_request_queue)
            /\ boot' = "running"
    /\ UNCHANGED <<log_message_queue, network_console_rx_queue, settings_written>>

SetRollConsole ==
    /\ call.op = "write" /\ call.addr = "RollConsole"
    /\ \/ MutexTimeout /\ Remote!Execute(Refused) /\ UNCHANGED network_console_rx_queue
       \/ /\ MutexTaken
          /\ Remote!Execute(IF call.num_items > Len(network_console_rx_queue) THEN Refused
                            ELSE TRUE)
          /\ network_console_rx_queue' = Discard(network_console_rx_queue, call.num_items)
    /\ UNCHANGED <<log_message_queue, sc_command_request_queue, boot, settings_written>>

SetSettings ==
    /\ call.op = "write" /\ call.addr = "SettingsData"
    /\ Remote!Execute(TRUE)
    /\ settings_written' = TRUE
    /\ UNCHANGED <<dictionary, boot>>

SetDeviceStatus ==
    /\ call.op = "write" /\ call.addr = "DeviceStatus"
    /\ Remote!Execute(TRUE)
    /\ UNCHANGED esp32

\* The SPI task; nothing is heard while the ESP32 boots.
SPITask ==
    /\ call # None /\ Up
    /\ answer \in {None, Refused} \/ RepliesLost
    /\ \/ GetDeviceStatus \/ GetConsole \/ SetRollConsole
       \/ /\ \/ GetLogMessages \/ GetSCCommandRequest
             \/ SetRollLogs \/ SetRollRequests \/ SetSettings \/ SetDeviceStatus
          /\ UNCHANGED faults
    /\ UNCHANGED <<rp2040, history>>

-----------------------------------------------------------------------------
(* The calls of SPICoprocessor::Update and ESP32::Update.                  *)

Invoke(r) ==
    /\ Remote!Invoke(r)
    /\ UNCHANGED <<esp32, history, faults>>

\* Mutant: as many as there are, whatever room the parser's queue has.
BytesQueued == status.chars
\* Bytes that fit into the parser's queue and into one read.
BytesToRead == SmallerOf(ParserDepth - Len(esp32_console_rx_queue), status.chars)

BeginUpdate ==
    /\ pc = "idle" /\ esp32_console_rx_queue = <<>>
    /\ Invoke(Read("DeviceStatus", 1))
    /\ pc' = "status"
    /\ count' = 0
    /\ held' = <<>>
    /\ UNCHANGED <<status, pulled_log_queue, esp32_console_rx_queue>>

BeginConsoleRead ==
    /\ pc = "console" /\ result # None
    /\ count < MaxConsoleReads /\ BytesToRead > 0
    /\ Invoke(Read("Console", BytesToRead))
    /\ pc' = "console_read"
    /\ UNCHANGED <<status, count, held, pulled_log_queue, esp32_console_rx_queue>>

BeginWriteStatus ==
    /\ pc = "console" /\ result # None
    /\ ~(count < MaxConsoleReads /\ BytesToRead > 0)
    /\ Invoke(Write("DeviceStatus", 1))
    /\ pc' = "write_status"
    /\ UNCHANGED <<status, count, held, pulled_log_queue, esp32_console_rx_queue>>

BeginRequest ==
    /\ pc = "requests" /\ result # None
    /\ count < status.requests /\ count < MaxRequests
    /\ Invoke(Read("SCCommandRequests", 1))
    /\ pc' = "request_read"
    /\ UNCHANGED <<status, count, held, pulled_log_queue, esp32_console_rx_queue>>

\* Read: as many chunks as the messages counted in the status need.
BeginLogs ==
    /\ pc \in {"requests", "logs"} /\ result # None
    /\ pc = "requests" => ~(count < status.requests /\ count < MaxRequests)
    /\ LET wanted == status.logs - (IF pc = "logs" THEN Len(held) ELSE 0)
       IN  /\ wanted > 0
           /\ Invoke(Read("LogMessages", SmallerOf(wanted, LogChunk)))
    /\ pc' = "log_read"
    /\ held' = IF pc = "logs" THEN held ELSE <<>>
    /\ UNCHANGED <<status, count, pulled_log_queue, esp32_console_rx_queue>>

NoLogs ==
    /\ pc = "requests" /\ result # None
    /\ ~(count < status.requests /\ count < MaxRequests)
    /\ status.logs = 0
    /\ pc' = "idle"
    /\ UNCHANGED <<rpc, esp32, status, count, held, pulled_log_queue,
                   esp32_console_rx_queue, history, faults>>

\* The roll that follows a read names the number of items it brought.
BeginRoll(here, queue, next, n) ==
    /\ pc = here /\ result # None
    /\ Invoke(Write(queue, n))
    /\ pc' = next
    /\ UNCHANGED <<status, count, held, pulled_log_queue, esp32_console_rx_queue>>

\* Mutant: the roll names the number of characters queued when it was read.
RollConsoleAsQueued == BeginRoll("roll_console", "RollConsole", "console_rolled", status.chars)
RollConsole == BeginRoll("roll_console", "RollConsole", "console_rolled", Len(held))
\* Mutant: the request is rolled before it is executed.
RollBeforeExecuting ==
    BeginRoll("execute", "RollSCCommandRequests", "request_rolled", 1)
\* ExecuteSCCommandRequest: the only request any ESP32 task makes.
ExecuteSCCommandRequest ==
    BeginRoll("execute", "SettingsData", "executed", 1)
RollRequests ==
    BeginRoll("roll_request", "RollSCCommandRequests", "request_rolled", 1)
RollLogs == BeginRoll("roll_logs", "RollLogMessages", "logs_rolled", Len(held))
ReadStatusAgain ==
    /\ pc = "status_again" /\ result # None
    /\ Invoke(Read("DeviceStatus", 1))
    /\ pc' = "status_reread"
    /\ UNCHANGED <<status, count, held, pulled_log_queue, esp32_console_rx_queue>>

-----------------------------------------------------------------------------
(* The returns of these calls.                                             *)

\* An attempt that an ESP32 is up to hear comes to nothing because it refuses,
\* because the request is lost or, where RepliesLost, the response.
AttemptFails ==
    \/ UNCHANGED faults /\ (~Up \/ answer = Refused)
    \/ Fault /\ (answer = None \/ RepliesLost)

Retry ==
    /\ AttemptFails
    /\ Remote!Miss
    /\ UNCHANGED <<esp32, rp2040, history>>

\* A failed call ends the Update, but for the read of the log messages: then
\* nothing is left to do in it.
CallFailed ==
    /\ AttemptFails
    /\ Remote!Fail
    /\ pc' = "idle"
    /\ boot' = IF boot = "off" THEN "booting" ELSE boot
    /\ UNCHANGED <<dictionary, settings_written, status, count, held, pulled_log_queue,
                   esp32_console_rx_queue, history>>

StatusRead ==
    /\ pc \in {"status", "status_reread"}
    /\ status' = IF pc = "status" THEN answer
                 ELSE [status EXCEPT !.chars = answer.chars]  \* a local copy
    /\ pc' = "console"
    /\ UNCHANGED <<count, held, pulled_log_queue, esp32_console_rx_queue, printed, evicted>>

ConsoleRead ==
    /\ pc = "console_read"
    /\ held' = answer
    /\ esp32_console_rx_queue' = esp32_console_rx_queue \o answer
    /\ pc' = "roll_console"
    /\ UNCHANGED <<status, count, pulled_log_queue, printed, evicted>>

ConsoleRolled ==
    /\ pc = "console_rolled"
    /\ count' = count + 1
    /\ pc' = "status_again"
    /\ UNCHANGED <<status, held, pulled_log_queue, esp32_console_rx_queue, printed, evicted>>

StatusWritten ==
    /\ pc = "write_status"
    /\ count' = 0
    /\ pc' = "requests"
    /\ UNCHANGED <<status, held, pulled_log_queue, esp32_console_rx_queue, printed, evicted>>

RequestStep ==
    /\ \/ pc = "request_read" /\ pc' = "execute" /\ UNCHANGED count
       \/ pc = "executed" /\ pc' = "roll_request" /\ UNCHANGED count
       \/ pc = "request_rolled" /\ pc' = "requests" /\ count' = count + 1
    /\ UNCHANGED <<status, held, pulled_log_queue, esp32_console_rx_queue, printed, evicted>>

\* UnpackLogMessages into the RP2040's queue, which overwrites when full.
LogsRead ==
    /\ pc = "log_read"
    /\ held' = held \o answer
    /\ IF Len(held') < status.logs /\ answer # <<>>
       THEN pc' = "logs" /\ UNCHANGED <<pulled_log_queue, evicted>>
       ELSE /\ pc' = "roll_logs"
            /\ LET all == pulled_log_queue \o held'
               IN  /\ pulled_log_queue' =
                        SubSeq(all, 1 + Len(all) - SmallerOf(Len(all), LogDepth), Len(all))
                   /\ evicted' = evicted \cup (Items(all) \ Items(pulled_log_queue'))
    /\ UNCHANGED <<status, count, esp32_console_rx_queue, printed>>

LogsRolled ==
    /\ pc = "logs_rolled"
    /\ printed' = printed \cup Items(pulled_log_queue)
    /\ pulled_log_queue' = <<>>
    /\ pc' = "idle"
    /\ UNCHANGED <<status, count, held, esp32_console_rx_queue, evicted>>

CallReturned ==
    /\ Remote!Succeed
    /\ \/ StatusRead \/ ConsoleRead \/ ConsoleRolled \/ StatusWritten
       \/ RequestStep \/ LogsRead \/ LogsRolled
    /\ UNCHANGED <<esp32, inputs, entered, faults>>

\* UpdateAT: the AT parser empties its queue before the main loop's next Update.
ParseConsole ==
    /\ pc = "idle" /\ esp32_console_rx_queue # <<>>
    /\ entered' = entered \cup Items(esp32_console_rx_queue)
    /\ esp32_console_rx_queue' = <<>>
    /\ UNCHANGED <<rpc, esp32, pc, status, count, held, pulled_log_queue, inputs,
                   evicted, printed, faults>>

-----------------------------------------------------------------------------

MainLoop ==
    \/ BeginUpdate \/ BeginConsoleRead \/ RollConsole \/ ReadStatusAgain
    \/ BeginWriteStatus \/ BeginRequest \/ ExecuteSCCommandRequest \/ RollRequests
    \/ BeginLogs \/ NoLogs \/ RollLogs

Next ==
    \/ LogMessage \/ NetworkConsoleMessageReceived \/ RequestSettings \/ Restart
    \/ SPITask
    \/ MainLoop \/ ParseConsole
    \/ Retry \/ CallFailed \/ CallReturned

Spec == Init /\ [][Next]_vars

\* Both processors go on.
FairSpec ==
    /\ Spec
    /\ WF_vars(MainLoop) /\ WF_vars(ParseConsole)
    /\ WF_vars(RequestSettings)
    /\ WF_vars(SPITask)
    /\ WF_vars(Retry \/ CallFailed \/ CallReturned)

-----------------------------------------------------------------------------

TypeOK ==
    /\ misses \in 0 .. MaxAttempts
    /\ Len(log_message_queue) <= LogDepth
    /\ Len(network_console_rx_queue) <= ConsoleDepth
    /\ Len(sc_command_request_queue) <= 1
    /\ Len(pulled_log_queue) <= LogDepth
    /\ Len(esp32_console_rx_queue) <= ParserDepth
    /\ boot \in {"off", "booting", "waiting", "running"}
    /\ settings_written \in BOOLEAN
    /\ count \in 0 .. MaxConsoleReads \cup 0 .. MaxRequests
    /\ {evicted, printed} \subseteq SUBSET (1 .. MaxLogs)
    /\ entered \in SUBSET (1 .. MaxChars)

\* A log message leaves the ESP32's queue only when it has been pulled, and is
\* then kept until it is printed, unless it is overwritten in a full queue.  A
\* message overwritten between a read and its roll costs one more, which the roll
\* counts in its place, and never more than that.
LogsReadBeforeRolled ==
    LET unread == (1 .. logged) \ UNION {Items(log_message_queue), Items(pulled_log_queue),
                                         evicted, printed}
    IN  Cardinality(unread) <= Cardinality(evicted)

\* A character leaves the ESP32's queue only when the RP2040 has it.
CharsReadBeforeRolled ==
    \A c \in 1 .. typed :
        c \in Items(network_console_rx_queue) \cup entered \cup Items(esp32_console_rx_queue)

\* The ESP32 starts its servers only with the settings it has asked for.
RunsWithSettings == boot = "running" => settings_written

\* The ESP32 gets its settings, however often calls fail: it does not wait for
\* ever on the semaphore in ADSBeeServer::Init.
BootsEventually == []<>(boot = "running")

\* What is typed reaches the AT parser.
ConsoleDelivered == \A c \in 1 .. MaxChars : typed >= c ~> c \in entered

\* No log message waits in the ESP32's queue for ever.
LogsDelivered ==
    \A m \in 1 .. MaxLogs : logged >= m ~> m \notin Items(log_message_queue)
=============================================================================
