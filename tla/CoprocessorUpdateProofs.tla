----------------------- MODULE CoprocessorUpdateProofs -----------------------
(***************************************************************************)
(* What holds of an Update of the SPI coprocessor for any sizes of its     *)
(* queues and any number of messages, characters, restarts and faults.     *)
(*                                                                         *)
(* Two of the results need that no response is lost (~RepliesLost): a call *)
(* is then executed once.  The log messages also need that one read has    *)
(* room for a full queue (LogChunk >= LogDepth).                           *)
(***************************************************************************)
EXTENDS CoprocessorUpdate, FiniteSetTheorems, SequenceTheorems, TLAPS

-----------------------------------------------------------------------------
(* The operators on queues.                                                *)

LEMMA SmallerIs ==
  ASSUME NEW a \in Int, NEW b \in Int
  PROVE  /\ SmallerOf(a, b) \in {a, b} /\ SmallerOf(a, b) <= a /\ SmallerOf(a, b) <= b
         /\ a \in Nat /\ b \in Nat => SmallerOf(a, b) \in Nat
  BY DEF SmallerOf

LEMMA WiderRange ==
  ASSUME NEW n \in Nat, NEW m \in Nat, n <= m
  PROVE  1 .. n \subseteq 1 .. m /\ n + 1 \in 1 .. n + 1
  OBVIOUS

LEMMA ItemsOf ==
  ASSUME NEW S, NEW s \in Seq(S)
  PROVE  /\ Items(s) \subseteq S
         /\ \A x : x \in Items(s) <=> \E i \in 1 .. Len(s) : x = s[i]
  <1>1. DOMAIN s = 1 .. Len(s)
    OBVIOUS
  <1>2. QED
    BY <1>1, ElementOfSeq DEF Items

\* A sequence of numbers up to n is one of numbers up to more.
LEMMA Widened ==
  ASSUME NEW n \in Nat, NEW m \in Nat, n <= m, NEW s \in Seq(1 .. n)
  PROVE  s \in Seq(1 .. m)
  <1>1. 1 .. n \subseteq 1 .. m
    OBVIOUS
  <1>2. QED
    BY <1>1, SeqMonotonic

LEMMA NextAppended ==
  ASSUME NEW n \in Nat, NEW s \in Seq(1 .. n)
  PROVE  /\ Append(s, n + 1) \in Seq(1 .. n + 1) /\ Len(Append(s, n + 1)) = Len(s) + 1
         /\ \A i \in 1 .. Len(s) : Append(s, n + 1)[i] = s[i]
         /\ Append(s, n + 1)[Len(s) + 1] = n + 1
         /\ Items(Append(s, n + 1)) = Items(s) \cup {n + 1}
  <1>1. s \in Seq(1 .. n + 1)
    BY Widened
  <1>2. n + 1 \in 1 .. n + 1
    OBVIOUS
  <1>3. /\ Append(s, n + 1) \in Seq(1 .. n + 1) /\ Len(Append(s, n + 1)) = Len(s) + 1
        /\ \A i \in 1 .. Len(s) : Append(s, n + 1)[i] = s[i]
        /\ Append(s, n + 1)[Len(s) + 1] = n + 1
    BY <1>1, <1>2, AppendProperties
  <1>4. /\ Len(s) \in Nat /\ DOMAIN s = 1 .. Len(s)
        /\ DOMAIN Append(s, n + 1) = 1 .. Len(s) + 1
    BY <1>3
  <1>5. Items(Append(s, n + 1)) = Items(s) \cup {n + 1}
    BY <1>3, <1>4 DEF Items
  <1>6. QED
    BY <1>3, <1>5

LEMMA WithoutHead ==
  ASSUME NEW S, NEW s \in Seq(S), s # <<>>
  PROVE  /\ Tail(s) \in Seq(S) /\ Head(s) = s[1] /\ Head(s) \in S /\ Len(Tail(s)) = Len(s) - 1
         /\ \A i \in 1 .. Len(s) - 1 : Tail(s)[i] = s[i + 1]
         /\ Items(s) = Items(Tail(s)) \cup {Head(s)}
  <1>1. /\ Tail(s) \in Seq(S) /\ Head(s) = s[1] /\ Head(s) \in S /\ Len(Tail(s)) = Len(s) - 1
        /\ \A i \in 1 .. Len(s) - 1 : Tail(s)[i] = s[i + 1]
        /\ Len(s) \in Nat /\ Len(s) # 0
    OBVIOUS
  <1>2. DOMAIN s = 1 .. Len(s) /\ DOMAIN Tail(s) = 1 .. Len(s) - 1
    BY <1>1
  <1>3. Items(Tail(s)) \cup {Head(s)} \subseteq Items(s)
    BY <1>1, <1>2 DEF Items
  <1>4. ASSUME NEW i \in 1 .. Len(s) PROVE s[i] \in Items(Tail(s)) \cup {Head(s)}
    <2>1. CASE i = 1
      BY <1>1, <2>1
    <2>2. CASE i # 1
      <3>1. i - 1 \in 1 .. Len(s) - 1 /\ (i - 1) + 1 = i
        BY <2>2, <1>1
      <3>2. Tail(s)[i - 1] = s[i]
        BY <1>1, <3>1
      <3>3. QED
        BY <1>2, <3>1, <3>2 DEF Items
    <2>3. QED
      BY <2>1, <2>2
  <1>5. QED
    BY <1>1, <1>2, <1>3, <1>4 DEF Items

LEMMA FrontIs ==
  ASSUME NEW S, NEW s \in Seq(S), NEW n \in Nat
  PROVE  /\ Front(s, n) \in Seq(S) /\ Len(Front(s, n)) = SmallerOf(n, Len(s))
         /\ \A i \in 1 .. Len(Front(s, n)) : Front(s, n)[i] = s[i]
  BY DEF Front, SmallerOf

LEMMA DiscardIs ==
  ASSUME NEW S, NEW s \in Seq(S), NEW n \in Nat
  PROVE  /\ Discard(s, n) \in Seq(S) /\ Len(Discard(s, n)) <= Len(s)
         /\ n <= Len(s) =>
               /\ Len(Discard(s, n)) = Len(s) - n
               /\ \A i \in 1 .. Len(s) - n : Discard(s, n)[i] = s[i + n]
               /\ Items(s) = Items(Discard(s, n)) \cup {s[i] : i \in 1 .. n}
         /\ ~(n <= Len(s)) => Discard(s, n) = s
  <1>1. CASE ~(n <= Len(s))
    BY <1>1 DEF Discard
  <1>2. CASE n <= Len(s)
    <2>1. Discard(s, n) = SubSeq(s, n + 1, Len(s)) /\ Len(s) \in Nat /\ DOMAIN s = 1 .. Len(s)
      BY <1>2 DEF Discard
    <2>2. /\ SubSeq(s, n + 1, Len(s)) \in Seq(S) /\ Len(SubSeq(s, n + 1, Len(s))) = Len(s) - n
          /\ \A i \in 1 .. Len(s) - n : SubSeq(s, n + 1, Len(s))[i] = s[i + n]
      BY <1>2, <2>1
    <2> DEFINE d == SubSeq(s, n + 1, Len(s))
    <2>3. d \in Seq(S) /\ Len(d) = Len(s) - n /\ (\A i \in 1 .. Len(s) - n : d[i] = s[i + n])
          /\ DOMAIN d = 1 .. Len(s) - n
      BY <2>2
    <2> HIDE DEF d
    <2>4. ASSUME NEW i \in 1 .. Len(s) PROVE s[i] \in Items(d) \cup {s[j] : j \in 1 .. n}
      <3>1. CASE i <= n
        BY <3>1
      <3>2. CASE ~(i <= n)
        <4>1. i - n \in 1 .. Len(s) - n /\ (i - n) + n = i
          BY <2>1, <3>2
        <4>2. d[i - n] = s[i]
          BY <2>3, <4>1
        <4>3. QED
          BY <2>3, <4>1, <4>2 DEF Items
      <3>3. QED
        BY <3>1, <3>2
    <2>5. ASSUME NEW i \in 1 .. Len(s) - n PROVE d[i] \in Items(s)
      <3>1. i + n \in 1 .. Len(s)
        BY <1>2, <2>1
      <3>2. QED
        BY <2>1, <2>3, <3>1 DEF Items
    <2>6. Items(s) = Items(d) \cup {s[i] : i \in 1 .. n}
      <3>1. \A i \in 1 .. n : i \in 1 .. Len(s)
        BY <1>2, <2>1
      <3>2. \A i \in 1 .. n : s[i] \in Items(s)
        BY <2>1, <3>1 DEF Items
      <3>3. QED
        BY <2>1, <2>3, <2>4, <2>5, <3>2 DEF Items
    <2>7. QED
      BY <1>2, <2>1, <2>3, <2>6 DEF d
  <1>3. QED
    BY <1>1, <1>2

LEMMA Concatenated ==
  ASSUME NEW S, NEW a \in Seq(S), NEW b \in Seq(S)
  PROVE  /\ a \o b \in Seq(S) /\ Len(a \o b) = Len(a) + Len(b)
         /\ Items(a \o b) = Items(a) \cup Items(b)
  <1>1. /\ a \o b \in Seq(S) /\ Len(a \o b) = Len(a) + Len(b)
        /\ \A i \in 1 .. Len(a) + Len(b) :
              (a \o b)[i] = IF i <= Len(a) THEN a[i] ELSE b[i - Len(a)]
    BY ConcatProperties
  <1>2. /\ Len(a) \in Nat /\ Len(b) \in Nat /\ DOMAIN a = 1 .. Len(a) /\ DOMAIN b = 1 .. Len(b)
        /\ DOMAIN (a \o b) = 1 .. Len(a) + Len(b)
    BY <1>1
  <1>3. Items(a \o b) \subseteq Items(a) \cup Items(b)
    <2>1. ASSUME NEW i \in 1 .. Len(a) + Len(b) PROVE (a \o b)[i] \in Items(a) \cup Items(b)
      <3>1. CASE i <= Len(a)
        BY <1>1, <1>2, <3>1 DEF Items
      <3>2. CASE ~(i <= Len(a))
        <4>1. i - Len(a) \in 1 .. Len(b) /\ (a \o b)[i] = b[i - Len(a)]
          BY <1>1, <1>2, <3>2
        <4>2. QED
          BY <1>2, <4>1 DEF Items
      <3>3. QED
        BY <3>1, <3>2
    <2>2. QED
      BY <1>2, <2>1 DEF Items
  <1>4. Items(a) \subseteq Items(a \o b)
    BY <1>1, <1>2 DEF Items
  <1>5. ASSUME NEW i \in 1 .. Len(b) PROVE b[i] \in Items(a \o b)
    <2>1. i + Len(a) \in 1 .. Len(a) + Len(b) /\ ~(i + Len(a) <= Len(a)) /\ i + Len(a) - Len(a) = i
      BY <1>2
    <2>2. (a \o b)[i + Len(a)] = b[i]
      BY <1>1, <2>1
    <2>3. QED
      BY <1>2, <2>1, <2>2 DEF Items
  <1>6. Items(b) \subseteq Items(a \o b)
    BY <1>2, <1>5 DEF Items
  <1>7. QED
    BY <1>1, <1>3, <1>4, <1>6

\* What an overwriting queue keeps of a sequence.
LEMMA LastOnes ==
  ASSUME NEW S, NEW s \in Seq(S), NEW n \in Nat
  PROVE  LET last == SubSeq(s, 1 + Len(s) - SmallerOf(Len(s), n), Len(s))
         IN  last \in Seq(S) /\ Len(last) <= n /\ Items(last) \subseteq Items(s)
  <1> DEFINE m == 1 + Len(s) - SmallerOf(Len(s), n)
             last == SubSeq(s, m, Len(s))
  <1>1. /\ m \in 1 .. Len(s) + 1 /\ Len(s) - m + 1 <= n /\ Len(s) \in Nat /\ DOMAIN s = 1 .. Len(s)
        /\ m \in Int /\ (m <= Len(s) \/ m = Len(s) + 1)
    <2>1. Len(s) \in Nat /\ DOMAIN s = 1 .. Len(s)
      OBVIOUS
    <2>2. CASE Len(s) < n
      BY <2>1, <2>2 DEF SmallerOf
    <2>3. CASE ~(Len(s) < n)
      BY <2>1, <2>3 DEF SmallerOf
    <2>4. QED
      BY <2>2, <2>3
  <1> HIDE DEF m
  <1>2. \A i \in m .. Len(s) : s[i] \in S /\ i \in DOMAIN s
    BY <1>1, ElementOfSeq
  <1>3. /\ last \in Seq(S)
        /\ Len(last) = IF m <= Len(s) THEN Len(s) - m + 1 ELSE 0
        /\ \A i \in 1 .. Len(s) - m + 1 : last[i] = s[m + i - 1]
    BY <1>1, <1>2, SubSeqProperties
  <1> HIDE DEF last
  <1>4. Len(last) = Len(s) - m + 1 /\ DOMAIN last = 1 .. Len(s) - m + 1
    BY <1>1, <1>3
  <1>5. \A i \in 1 .. Len(s) - m + 1 : m + i - 1 \in DOMAIN s
    BY <1>1
  <1>6. Items(last) \subseteq Items(s)
    BY <1>3, <1>4, <1>5 DEF Items
  <1>7. QED
    BY <1>1, <1>3, <1>4, <1>6 DEF m, last

-----------------------------------------------------------------------------
(* Types.                                                                  *)

\* The call under way has been executed, and did what it is for.
Answered == answer \notin {None, Refused}

\* The call that is made at each label of the update, and the labels between.
MadeAt(label, c) ==
    \/ label \in {"status", "status_reread"} /\ c = Read("DeviceStatus", 1)
    \/ label = "console_read" /\ c = Read("Console", BytesToRead)
    \/ label = "console_rolled" /\ c = Write("RollConsole", Len(held))
    \/ label = "write_status" /\ c = Write("DeviceStatus", 1)
    \/ label = "request_read" /\ c = Read("SCCommandRequests", 1)
    \/ label = "executed" /\ c = Write("SettingsData", 1)
    \/ label = "request_rolled" /\ c = Write("RollSCCommandRequests", 1)
    \/ label = "log_read" /\ \E n \in 1 .. LogChunk : c = Read("LogMessages", n)
    \/ label = "logs_rolled" /\ c = Write("RollLogMessages", Len(held))

Calls == {"status", "status_reread", "console_read", "console_rolled", "write_status",
          "request_read", "executed", "request_rolled", "log_read", "logs_rolled"}
Between == {"idle", "console", "roll_console", "status_again", "requests", "execute",
            "roll_request", "logs", "roll_logs"}

CallFits == pc \in Calls \cup Between /\ (call # None => MadeAt(pc, call))

Statuses == [logs : 0 .. LogDepth, requests : Nat, chars : Nat]

\* What a call brings that has been executed.
AnswerFits ==
    Answered =>
        /\ pc \in {"status", "status_reread"} => answer \in Statuses
        /\ pc = "console_read" => answer \in Seq(1 .. typed) /\ Len(answer) <= BytesToRead
        /\ pc = "log_read" => answer \in Seq(1 .. logged)

\* What each queue holds, and who has had it.
QueuesFit ==
    /\ logged \in 0 .. MaxLogs /\ typed \in 0 .. MaxChars
    /\ log_message_queue \in Seq(1 .. logged) /\ pulled_log_queue \in Seq(1 .. logged)
    /\ network_console_rx_queue \in Seq(1 .. typed)
    /\ esp32_console_rx_queue \in Seq(1 .. typed)
    /\ sc_command_request_queue \in Seq({"settings"})
    /\ evicted \subseteq 1 .. logged /\ printed \subseteq 1 .. logged /\ entered \subseteq 1 .. typed
    /\ held \in Seq(Nat)
    /\ pc \in {"log_read", "logs"} => held \in Seq(1 .. logged)
    /\ status \in Statuses

\* A request is queued once, when the ESP32 has booted.
RequestedOnce == boot \in {"off", "booting"} => sc_command_request_queue = <<>>

Counted ==
    /\ count \in Nat
    /\ pc \in {"console_read", "roll_console", "console_rolled"} => count < MaxConsoleReads
    /\ pc \in {"request_read", "execute", "executed", "roll_request", "request_rolled"} =>
          count < MaxRequests

UpdateTypes == TypeOK /\ CallFits /\ AnswerFits /\ QueuesFit /\ RequestedOnce /\ Counted

LEMMA ConstantsAre ==
  /\ MaxAttempts \in Nat \ {0} /\ LogDepth \in Nat \ {0} /\ LogChunk \in Nat \ {0}
  /\ ConsoleDepth \in Nat \ {0} /\ ParserDepth \in Nat \ {0}
  /\ MaxConsoleReads \in Nat /\ MaxRequests \in Nat /\ MaxLogs \in Nat /\ MaxChars \in Nat
  BY UpdateAssumption

LEMMA TypesAre ==
  TypeOK <=>
    /\ misses \in 0 .. MaxAttempts
    /\ Len(log_message_queue) <= LogDepth
    /\ Len(network_console_rx_queue) <= ConsoleDepth
    /\ Len(sc_command_request_queue) <= 1
    /\ Len(pulled_log_queue) <= LogDepth
    /\ Len(esp32_console_rx_queue) <= ParserDepth
    /\ boot \in {"off", "booting", "waiting", "running"}
    /\ settings_written \in BOOLEAN
    /\ count \in 0 .. MaxConsoleReads \/ count \in 0 .. MaxRequests
    /\ evicted \subseteq 1 .. MaxLogs /\ printed \subseteq 1 .. MaxLogs
    /\ entered \subseteq 1 .. MaxChars
  <1>1. {evicted, printed} \subseteq SUBSET (1 .. MaxLogs) <=>
           evicted \subseteq 1 .. MaxLogs /\ printed \subseteq 1 .. MaxLogs
    BY Zenon
  <1>2. count \in 0 .. MaxConsoleReads \cup 0 .. MaxRequests <=>
           count \in 0 .. MaxConsoleReads \/ count \in 0 .. MaxRequests
    BY Zenon
  <1>3. entered \in SUBSET (1 .. MaxChars) <=> entered \subseteq 1 .. MaxChars
    BY Zenon
  <1>4. QED
    BY <1>1, <1>2, <1>3, Zenon DEF TypeOK

\* The queues and histories of a state of the right types, one fact each.
LEMMA QueuesAre ==
  ASSUME TypeOK, QueuesFit
  PROVE  /\ logged \in Nat /\ logged <= MaxLogs /\ typed \in Nat /\ typed <= MaxChars
         /\ log_message_queue \in Seq(1 .. logged) /\ Len(log_message_queue) \in 0 .. LogDepth
         /\ pulled_log_queue \in Seq(1 .. logged) /\ Len(pulled_log_queue) \in 0 .. LogDepth
         /\ network_console_rx_queue \in Seq(1 .. typed)
         /\ Len(network_console_rx_queue) \in 0 .. ConsoleDepth
         /\ esp32_console_rx_queue \in Seq(1 .. typed)
         /\ Len(esp32_console_rx_queue) \in 0 .. ParserDepth
         /\ sc_command_request_queue \in Seq({"settings"})
         /\ Len(sc_command_request_queue) \in Nat /\ Len(sc_command_request_queue) <= 1
         /\ held \in Seq(Nat) /\ Len(held) \in Nat
         /\ status.logs \in 0 .. LogDepth /\ status.requests \in Nat /\ status.chars \in Nat
         /\ Items(log_message_queue) \subseteq 1 .. logged
         /\ Items(pulled_log_queue) \subseteq 1 .. logged
         /\ Items(network_console_rx_queue) \subseteq 1 .. typed
         /\ Items(esp32_console_rx_queue) \subseteq 1 .. typed
  <1>1. /\ logged \in Nat /\ logged <= MaxLogs /\ typed \in Nat /\ typed <= MaxChars
        /\ log_message_queue \in Seq(1 .. logged) /\ pulled_log_queue \in Seq(1 .. logged)
        /\ network_console_rx_queue \in Seq(1 .. typed)
        /\ esp32_console_rx_queue \in Seq(1 .. typed)
        /\ sc_command_request_queue \in Seq({"settings"}) /\ held \in Seq(Nat)
        /\ status \in Statuses
    BY ConstantsAre DEF QueuesFit
  <1>2. /\ Len(log_message_queue) \in Nat /\ Len(pulled_log_queue) \in Nat
        /\ Len(network_console_rx_queue) \in Nat /\ Len(esp32_console_rx_queue) \in Nat
        /\ Len(sc_command_request_queue) \in Nat /\ Len(held) \in Nat
    BY <1>1
  <1>3. /\ Len(log_message_queue) \in 0 .. LogDepth /\ Len(pulled_log_queue) \in 0 .. LogDepth
        /\ Len(network_console_rx_queue) \in 0 .. ConsoleDepth
        /\ Len(esp32_console_rx_queue) \in 0 .. ParserDepth
        /\ Len(sc_command_request_queue) \in Nat /\ Len(sc_command_request_queue) <= 1
    BY <1>2, ConstantsAre, TypesAre
  <1>4. status.logs \in 0 .. LogDepth /\ status.requests \in Nat /\ status.chars \in Nat
    BY <1>1 DEF Statuses
  <1>5. \A S : \A s \in Seq(S) : Items(s) \subseteq S
    BY ItemsOf
  <1>6. QED
    BY <1>1, <1>2, <1>3, <1>4, <1>5

\* What a call tells of the label at which it is made.
LEMMA CallsMade ==
  ASSUME CallFits, call # None
  PROVE  /\ pc \in Calls
         /\ call.op = "read" /\ call.addr = "DeviceStatus" => pc \in {"status", "status_reread"}
         /\ call.op = "read" /\ call.addr = "LogMessages" =>
               pc = "log_read" /\ call.num_items \in 1 .. LogChunk
         /\ call.op = "read" /\ call.addr = "SCCommandRequests" => pc = "request_read"
         /\ call.op = "read" /\ call.addr = "Console" =>
               pc = "console_read" /\ call.num_items = BytesToRead
         /\ call.op = "write" /\ call.addr = "RollLogMessages" =>
               pc = "logs_rolled" /\ call.num_items = Len(held)
         /\ call.op = "write" /\ call.addr = "RollSCCommandRequests" => pc = "request_rolled"
         /\ call.op = "write" /\ call.addr = "RollConsole" =>
               pc = "console_rolled" /\ call.num_items = Len(held)
         /\ call.op = "write" /\ call.addr = "SettingsData" => pc = "executed"
         /\ call.op = "write" /\ call.addr = "DeviceStatus" => pc = "write_status"
  BY DEF CallFits, MadeAt, Calls, Read, Write

LEMMA NoCallBetween ==
  ASSUME CallFits, pc \in Between
  PROVE  call = None
  BY DEF CallFits, MadeAt, Between

LEMMA RoomForBytes ==
  ASSUME TypeOK, QueuesFit
  PROVE  /\ BytesToRead \in Nat /\ BytesToRead <= status.chars
         /\ Len(esp32_console_rx_queue) + BytesToRead <= ParserDepth
  <1>1. /\ Len(esp32_console_rx_queue) \in Nat /\ Len(esp32_console_rx_queue) <= ParserDepth
        /\ status.chars \in Nat /\ ParserDepth \in Nat
    BY ConstantsAre, QueuesAre
  <1>2. QED
    BY <1>1 DEF BytesToRead, SmallerOf

LEMMA InitTypes ==
  ASSUME Init
  PROVE  UpdateTypes
  <1>1. /\ call = None /\ answer = None /\ misses = 0 /\ count = 0 /\ boot = "booting"
        /\ settings_written = FALSE /\ pc = "idle" /\ status = NoStatus
        /\ logged = 0 /\ typed = 0 /\ evicted = {} /\ printed = {} /\ entered = {}
    BY DEF Init, Remote!Init
  <1>2. /\ log_message_queue = <<>> /\ sc_command_request_queue = <<>>
        /\ network_console_rx_queue = <<>> /\ held = <<>>
        /\ pulled_log_queue = <<>> /\ esp32_console_rx_queue = <<>>
    BY DEF Init
  <1>3. TypeOK
    <2>1. /\ misses \in 0 .. MaxAttempts /\ count \in 0 .. MaxConsoleReads
          /\ boot \in {"off", "booting", "waiting", "running"} /\ settings_written \in BOOLEAN
          /\ evicted \subseteq 1 .. MaxLogs /\ printed \subseteq 1 .. MaxLogs
          /\ entered \subseteq 1 .. MaxChars
      <3>1. misses \in 0 .. MaxAttempts
        BY <1>1, ConstantsAre
      <3>2. count \in 0 .. MaxConsoleReads
        BY <1>1, ConstantsAre
      <3>3. /\ boot \in {"off", "booting", "waiting", "running"} /\ settings_written \in BOOLEAN
        BY <1>1
      <3>4. evicted \subseteq 1 .. MaxLogs /\ printed \subseteq 1 .. MaxLogs
        BY <1>1
      <3>5. QED
        BY <1>1, <3>1, <3>2, <3>3, <3>4
    <2>2. \A n \in Nat : Len(<<>>) <= n
      OBVIOUS
    <2>3. QED
      BY <1>2, <2>1, <2>2, ConstantsAre, TypesAre, 1 \in Nat, Zenon
  <1>4. CallFits /\ AnswerFits /\ RequestedOnce /\ Counted
    BY <1>1, <1>2 DEF CallFits, Between, AnswerFits, Answered, RequestedOnce, Counted
  <1>5. QueuesFit
    <2>1. /\ logged \in 0 .. MaxLogs /\ typed \in 0 .. MaxChars
          /\ evicted \subseteq 1 .. logged /\ printed \subseteq 1 .. logged /\ entered \subseteq 1 .. typed
          /\ pc \notin {"log_read", "logs"}
        BY <1>1, ConstantsAre
    <2>2. status \in Statuses
      BY <1>1, ConstantsAre DEF Statuses, NoStatus
    <2>3. \A S : <<>> \in Seq(S)
      OBVIOUS
    <2>4. QED
      BY <1>2, <2>1, <2>2, <2>3, Zenon DEF QueuesFit
  <1>6. QED
    BY <1>3, <1>4, <1>5 DEF UpdateTypes

\* The ESP32's tasks leave the RP2040 and the call it makes alone.
LEMMA CallersKept ==
  ASSUME UpdateTypes, UNCHANGED <<rpc, rp2040>>,
         logged' \in Nat, typed' \in Nat, logged <= logged', typed <= typed'
  PROVE  CallFits' /\ AnswerFits' /\ Counted'
  <1>1. /\ UNCHANGED <<call, answer, pc, status, count, held, esp32_console_rx_queue>>
        /\ logged \in Nat /\ typed \in Nat
    BY QueuesAre DEF rpc, rp2040, UpdateTypes
  <1>2. CallFits'
    BY <1>1 DEF UpdateTypes, CallFits, MadeAt, BytesToRead
  <1>3. AnswerFits'
    <2>1. \A s \in Seq(1 .. logged) : s \in Seq(1 .. logged')
      BY <1>1, Widened
    <2>2. \A s \in Seq(1 .. typed) : s \in Seq(1 .. typed')
      BY <1>1, Widened
    <2>3. QED
      BY <1>1, <2>1, <2>2 DEF UpdateTypes, AnswerFits, Answered, BytesToRead
  <1>4. QED
    BY <1>1, <1>2, <1>3 DEF UpdateTypes, Counted

LEMMA LogMessageKeepsTypes ==
  ASSUME UpdateTypes, LogMessage
  PROVE  UpdateTypes'
  <1>1. /\ logged < MaxLogs /\ logged' = logged + 1
        /\ UNCHANGED <<sc_command_request_queue, network_console_rx_queue, boot, settings_written,
                       rpc, rp2040, typed, printed, entered>>
    BY DEF LogMessage
  <1>2. /\ UNCHANGED <<misses, pc, status, count, held, pulled_log_queue, esp32_console_rx_queue>>
    BY <1>1 DEF rpc, rp2040
  <1>3. TypeOK /\ QueuesFit
    BY DEF UpdateTypes
  <1>4. logged \in Nat /\ logged' \in Nat /\ logged' <= MaxLogs /\ typed \in Nat
    <2>1. logged \in Nat /\ typed \in Nat /\ MaxLogs \in Nat
      BY <1>3, QueuesAre, ConstantsAre
    <2>2. QED
      BY <1>1, <2>1
  <1>5. CallFits' /\ AnswerFits' /\ Counted'
    BY <1>1, <1>4, CallersKept
  <1>6. /\ log_message_queue' \in Seq(1 .. logged') /\ Len(log_message_queue') <= LogDepth
        /\ evicted' \subseteq 1 .. logged'
    <2>1. /\ log_message_queue \in Seq(1 .. logged) /\ Len(log_message_queue) \in Nat
          /\ Len(log_message_queue) <= LogDepth /\ evicted \subseteq 1 .. logged
      BY <1>3, QueuesAre, ConstantsAre DEF QueuesFit
    <2>2. CASE Len(log_message_queue) < LogDepth
      <3>1. log_message_queue' = Append(log_message_queue, logged + 1) /\ evicted' = evicted
        BY <1>1, <2>2 DEF LogMessage
      <3>2. log_message_queue' \in Seq(1 .. logged + 1) /\ Len(log_message_queue') = Len(log_message_queue) + 1
        BY <1>4, <2>1, <3>1, NextAppended
      <3>3. QED
        BY <1>1, <1>4, <2>1, <2>2, <3>1, <3>2, ConstantsAre
    <2>3. CASE ~(Len(log_message_queue) < LogDepth)
      <3>1. log_message_queue # <<>>
        BY <2>3, ConstantsAre
      <3>2. /\ Tail(log_message_queue) \in Seq(1 .. logged)
            /\ Len(Tail(log_message_queue)) = Len(log_message_queue) - 1
            /\ Head(log_message_queue) \in 1 .. logged
        BY <2>1, <3>1, WithoutHead
      <3>3. /\ log_message_queue' = Append(Tail(log_message_queue), logged + 1)
            /\ evicted' = evicted \cup {Head(log_message_queue)}
        BY <1>1, <2>3 DEF LogMessage
      <3>4. /\ log_message_queue' \in Seq(1 .. logged + 1)
            /\ Len(log_message_queue') = Len(log_message_queue)
        BY <1>4, <2>1, <3>2, <3>3, NextAppended
      <3>5. evicted' \subseteq 1 .. logged'
        <4>1. 1 .. logged \subseteq 1 .. logged'
          BY <1>1, <1>4, WiderRange
        <4>2. QED
          BY <2>1, <3>2, <3>3, <4>1, Zenon
      <3>6. QED
        BY <1>1, <2>1, <3>4, <3>5
    <2>4. QED
      BY <2>2, <2>3
  <1>7. QueuesFit'
    <2>1. \A s \in Seq(1 .. logged) : s \in Seq(1 .. logged')
      BY <1>1, <1>4, Widened
    <2>2. 1 .. logged \subseteq 1 .. logged'
      BY <1>1, <1>4, WiderRange
    <2>3. logged' \in 0 .. MaxLogs
      BY <1>4
    <2>4. QED
      BY <1>1, <1>2, <1>3, <1>6, <2>1, <2>2, <2>3 DEF QueuesFit
  <1>8. TypeOK'
    <2>1. evicted' \subseteq 1 .. MaxLogs
      BY <1>4, <1>6, ConstantsAre, WiderRange
    <2>2. QED
      BY <1>1, <1>2, <1>3, <1>6, <2>1, TypesAre DEF TypeOK
  <1>9. RequestedOnce'
    BY <1>1 DEF UpdateTypes, RequestedOnce
  <1>10. QED
    BY <1>5, <1>7, <1>8, <1>9 DEF UpdateTypes

LEMMA OtherTasksKeepTypes ==
  ASSUME UpdateTypes, NetworkConsoleMessageReceived \/ RequestSettings \/ Restart
  PROVE  UpdateTypes'
  <1>1. TypeOK /\ QueuesFit
    BY DEF UpdateTypes
  <1>2. CASE NetworkConsoleMessageReceived
    <2>1. /\ typed < MaxChars /\ typed' = typed + 1
          /\ network_console_rx_queue' = Append(network_console_rx_queue, typed + 1)
          /\ Len(network_console_rx_queue) < ConsoleDepth
          /\ UNCHANGED <<log_message_queue, sc_command_request_queue, boot, settings_written,
                         rpc, rp2040, logged, evicted, printed, entered>>
      BY <1>2 DEF NetworkConsoleMessageReceived
    <2>2. UNCHANGED <<misses, pc, status, count, held, pulled_log_queue, esp32_console_rx_queue>>
      BY <2>1 DEF rpc, rp2040
    <2>3. logged \in Nat /\ typed \in Nat /\ typed' \in Nat /\ typed' <= MaxChars
      <3>1. logged \in Nat /\ typed \in Nat /\ MaxChars \in Nat
        BY <1>1, QueuesAre, ConstantsAre
      <3>2. QED
        BY <2>1, <3>1
    <2>4. CallFits' /\ AnswerFits' /\ Counted'
      BY <2>1, <2>3, CallersKept
    <2>5. network_console_rx_queue' \in Seq(1 .. typed') /\ Len(network_console_rx_queue') <= ConsoleDepth
      <3>1. network_console_rx_queue \in Seq(1 .. typed) /\ Len(network_console_rx_queue) \in Nat
        BY <1>1, QueuesAre, ConstantsAre
      <3>2. QED
        BY <2>1, <2>3, <3>1, NextAppended, ConstantsAre
    <2>6. QueuesFit'
      <3>1. \A s \in Seq(1 .. typed) : s \in Seq(1 .. typed')
        BY <2>1, <2>3, Widened
      <3>2. 1 .. typed \subseteq 1 .. typed' /\ typed' \in 0 .. MaxChars
        BY <2>1, <2>3, WiderRange
      <3>3. QED
        BY <1>1, <2>1, <2>2, <2>5, <3>1, <3>2 DEF QueuesFit
    <2>7. TypeOK'
      BY <1>1, <2>1, <2>2, <2>5 DEF TypeOK
    <2>8. RequestedOnce'
      BY <2>1 DEF UpdateTypes, RequestedOnce
    <2>9. QED
      BY <2>4, <2>6, <2>7, <2>8 DEF UpdateTypes
  <1>3. CASE RequestSettings
    <2>1. /\ boot = "booting" /\ boot' = "waiting" /\ sc_command_request_queue = <<>>
          /\ sc_command_request_queue' = Append(sc_command_request_queue, "settings")
          /\ UNCHANGED <<log_message_queue, network_console_rx_queue, settings_written,
                         rpc, rp2040, logged, typed, evicted, printed, entered>>
      BY <1>3 DEF RequestSettings, UpdateTypes, RequestedOnce, history, inputs
    <2>2. UNCHANGED <<misses, pc, status, count, held, pulled_log_queue, esp32_console_rx_queue>>
      BY <2>1 DEF rpc, rp2040
    <2>3. logged' \in Nat /\ typed' \in Nat /\ logged <= logged' /\ typed <= typed'
      BY <1>1, <2>1, QueuesAre
    <2>4. CallFits' /\ AnswerFits' /\ Counted'
      BY <2>1, <2>3, CallersKept
    <2>5. sc_command_request_queue' \in Seq({"settings"}) /\ Len(sc_command_request_queue') = 1
      BY <2>1
    <2>6. QueuesFit'
      BY <1>1, <2>1, <2>2, <2>5 DEF QueuesFit
    <2>7. TypeOK'
      BY <1>1, <2>1, <2>2, <2>5 DEF TypeOK
    <2>8. RequestedOnce'
      BY <2>1 DEF RequestedOnce
    <2>9. QED
      BY <2>4, <2>6, <2>7, <2>8 DEF UpdateTypes
  <1>4. CASE Restart
    <2>1. /\ boot' = "off" /\ settings_written' = FALSE /\ log_message_queue' = <<>>
          /\ sc_command_request_queue' = <<>> /\ network_console_rx_queue' = <<>>
          /\ printed' = printed \cup Items(log_message_queue)
          /\ entered' = entered \cup Items(network_console_rx_queue)
          /\ UNCHANGED <<rpc, rp2040, logged, typed, evicted>>
      BY <1>4 DEF Restart
    <2>2. UNCHANGED <<misses, pc, status, count, held, pulled_log_queue, esp32_console_rx_queue>>
      BY <2>1 DEF rpc, rp2040
    <2>3. logged' \in Nat /\ typed' \in Nat /\ logged <= logged' /\ typed <= typed'
      BY <1>1, <2>1, QueuesAre
    <2>4. CallFits' /\ AnswerFits' /\ Counted'
      BY <2>1, <2>3, CallersKept
    <2>5. printed' \subseteq 1 .. logged' /\ entered' \subseteq 1 .. typed'
      BY <1>1, <2>1, QueuesAre DEF QueuesFit
    <2>6. \A S : <<>> \in Seq(S)
      OBVIOUS
    <2>7. QueuesFit'
      BY <1>1, <2>1, <2>2, <2>5, <2>6 DEF QueuesFit
    <2>8. TypeOK'
      <3>1. printed' \subseteq 1 .. MaxLogs /\ entered' \subseteq 1 .. MaxChars
        BY <1>1, <2>1, <2>5, QueuesAre, ConstantsAre, WiderRange
      <3>2. \A n \in Nat : Len(<<>>) <= n
        OBVIOUS
      <3>3. /\ Len(log_message_queue') <= LogDepth /\ Len(network_console_rx_queue') <= ConsoleDepth
            /\ Len(sc_command_request_queue') <= 1
        BY <2>1, <3>2, ConstantsAre, 1 \in Nat, Zenon
      <3>4. QED
        BY <1>1, <2>1, <2>2, <3>1, <3>3 DEF TypeOK
    <2>9. RequestedOnce'
      BY <2>1 DEF RequestedOnce
    <2>10. QED
      BY <2>4, <2>7, <2>8, <2>9 DEF UpdateTypes
  <1>5. QED
    BY <1>2, <1>3, <1>4

\* The object dictionary only shortens queues, and gives what they hold.
LEMMA CoprocessorKeepsTypes ==
  ASSUME UpdateTypes, SPITask
  PROVE  UpdateTypes'
  <1>1. /\ call # None /\ UNCHANGED <<rp2040, history>> /\ TypeOK /\ QueuesFit /\ CallFits
    BY DEF SPITask, UpdateTypes
  <1>2. UNCHANGED <<pc, status, count, held, pulled_log_queue, esp32_console_rx_queue,
                    logged, typed, evicted, printed, entered>>
    BY <1>1 DEF rp2040, history, inputs
  <1>3. UNCHANGED <<call, misses>>
    BY DEF SPITask, Remote!Execute, GetDeviceStatus, GetConsole, SetRollConsole, GetLogMessages,
           GetSCCommandRequest, SetRollLogs, SetRollRequests, SetSettings, SetDeviceStatus
  <1>4. CallFits' /\ Counted'
    BY <1>2, <1>3 DEF UpdateTypes, CallFits, MadeAt, BytesToRead, Counted
  <1>5. /\ \/ log_message_queue' = log_message_queue
           \/ log_message_queue' = Discard(log_message_queue, Len(held))
        /\ \/ network_console_rx_queue' = network_console_rx_queue
           \/ network_console_rx_queue' = Discard(network_console_rx_queue, Len(held))
        /\ \/ sc_command_request_queue' = sc_command_request_queue /\ boot' = boot
           \/ /\ sc_command_request_queue # <<>> /\ boot' = "running"
              /\ sc_command_request_queue' = Tail(sc_command_request_queue)
        /\ settings_written' = settings_written \/ settings_written' = TRUE
    BY <1>1, CallsMade DEF SPITask, Remote!Execute, GetDeviceStatus, GetConsole, SetRollConsole,
           GetLogMessages, GetSCCommandRequest, SetRollLogs, SetRollRequests, SetSettings,
           SetDeviceStatus, esp32, dictionary
  <1>6. /\ log_message_queue' \in Seq(1 .. logged) /\ Len(log_message_queue') <= LogDepth
        /\ network_console_rx_queue' \in Seq(1 .. typed) /\ Len(network_console_rx_queue') <= ConsoleDepth
    <2>1. /\ log_message_queue \in Seq(1 .. logged) /\ Len(log_message_queue) \in Nat
          /\ network_console_rx_queue \in Seq(1 .. typed) /\ Len(network_console_rx_queue) \in Nat
          /\ Len(held) \in Nat /\ LogDepth \in Nat /\ ConsoleDepth \in Nat
          /\ Len(log_message_queue) <= LogDepth /\ Len(network_console_rx_queue) <= ConsoleDepth
      BY <1>1, QueuesAre, ConstantsAre
    <2>2. /\ Discard(log_message_queue, Len(held)) \in Seq(1 .. logged)
          /\ Len(Discard(log_message_queue, Len(held))) <= Len(log_message_queue)
          /\ Discard(network_console_rx_queue, Len(held)) \in Seq(1 .. typed)
          /\ Len(Discard(network_console_rx_queue, Len(held))) <= Len(network_console_rx_queue)
          /\ Len(Discard(log_message_queue, Len(held))) \in Nat
          /\ Len(Discard(network_console_rx_queue, Len(held))) \in Nat
      BY <2>1, DiscardIs
    <2>3. /\ log_message_queue' \in Seq(1 .. logged) /\ Len(log_message_queue') <= LogDepth
      BY <1>5, <2>1, <2>2
    <2>4. QED
      BY <1>5, <2>1, <2>2, <2>3
  <1>7. /\ sc_command_request_queue' \in Seq({"settings"}) /\ Len(sc_command_request_queue') <= 1
        /\ boot' \in {"off", "booting", "waiting", "running"}
    <2>1. /\ sc_command_request_queue \in Seq({"settings"}) /\ Len(sc_command_request_queue) \in Nat
          /\ Len(sc_command_request_queue) <= 1 /\ boot \in {"off", "booting", "waiting", "running"}
      BY <1>1, QueuesAre, TypesAre
    <2>2. CASE sc_command_request_queue' = sc_command_request_queue /\ boot' = boot
      BY <2>1, <2>2
    <2>3. CASE /\ sc_command_request_queue # <<>> /\ boot' = "running"
               /\ sc_command_request_queue' = Tail(sc_command_request_queue)
      <3>1. /\ Tail(sc_command_request_queue) \in Seq({"settings"})
            /\ Len(Tail(sc_command_request_queue)) = Len(sc_command_request_queue) - 1
        BY <2>1, <2>3, WithoutHead
      <3>2. \A n \in Nat : n <= 1 => n - 1 <= 1
        OBVIOUS
      <3>3. QED
        BY <2>1, <2>3, <3>1, <3>2
    <2>4. QED
      BY <1>5, <2>2, <2>3
  <1>8. QueuesFit'
    BY <1>1, <1>2, <1>6, <1>7 DEF QueuesFit
  <1>9. TypeOK'
    <2>1. settings_written' \in BOOLEAN
      BY <1>1, <1>5, TypesAre
    <2>2. QED
      BY <1>1, <1>2, <1>3, <1>6, <1>7, <2>1 DEF TypeOK
  <1>10. RequestedOnce'
    BY <1>5 DEF UpdateTypes, RequestedOnce
  <1>11. AnswerFits'
    <2>1. CASE GetDeviceStatus
      <3>1. pc \in {"status", "status_reread"}
        BY <1>1, <2>1, CallsMade DEF GetDeviceStatus
      <3>2. answer' \in Statuses
        <4>1. /\ Len(log_message_queue) \in 0 .. LogDepth /\ Len(sc_command_request_queue) \in Nat
              /\ Len(network_console_rx_queue) \in Nat
          BY <1>1, QueuesAre
        <4>2. \A n \in Nat : DeviceStatus(n) \in Statuses
          BY <4>1 DEF DeviceStatus, Statuses
        <4>3. \E n \in Nat : answer' = DeviceStatus(n)
          BY <2>1, <4>1 DEF GetDeviceStatus, Remote!Execute
        <4>4. QED
          BY <4>2, <4>3
      <3>3. QED
        BY <1>2, <3>1, <3>2 DEF AnswerFits
    <2>2. CASE GetConsole
      <3>1. pc = "console_read" /\ call.num_items = BytesToRead
        BY <1>1, <2>2, CallsMade DEF GetConsole
      <3>2. BytesToRead \in Nat
        BY <1>1, RoomForBytes
      <3>3. answer' = Refused \/ answer' = Front(network_console_rx_queue, BytesToRead)
        BY <2>2, <3>1 DEF GetConsole, Remote!Execute
      <3>4. /\ Front(network_console_rx_queue, BytesToRead) \in Seq(1 .. typed)
            /\ Len(Front(network_console_rx_queue, BytesToRead)) <= BytesToRead
        <4>1. network_console_rx_queue \in Seq(1 .. typed) /\ Len(network_console_rx_queue) \in Nat
          BY <1>1, QueuesAre
        <4>2. /\ Front(network_console_rx_queue, BytesToRead) \in Seq(1 .. typed)
              /\ Len(Front(network_console_rx_queue, BytesToRead))
                   = SmallerOf(BytesToRead, Len(network_console_rx_queue))
          BY <3>2, <4>1, FrontIs
        <4>3. SmallerOf(BytesToRead, Len(network_console_rx_queue)) <= BytesToRead
          BY <3>2, <4>1, SmallerIs
        <4>4. QED
          BY <4>2, <4>3
      <3>5. BytesToRead' = BytesToRead
        BY <1>2 DEF BytesToRead
      <3>6. QED
        BY <1>2, <3>1, <3>3, <3>4, <3>5 DEF AnswerFits, Answered
    <2>3. CASE GetLogMessages
      <3>1. pc = "log_read" /\ call.num_items \in Nat
        BY <1>1, <2>3, CallsMade, ConstantsAre DEF GetLogMessages
      <3>2. answer' = Front(log_message_queue, call.num_items)
        BY <2>3 DEF GetLogMessages, Remote!Execute
      <3>3. log_message_queue \in Seq(1 .. logged)
        BY <1>1, QueuesAre
      <3>4. answer' \in Seq(1 .. logged)
        BY <3>1, <3>2, <3>3, FrontIs
      <3>5. QED
        BY <1>2, <3>1, <3>4 DEF AnswerFits
    <2>4. CASE \/ SetRollConsole \/ GetSCCommandRequest \/ SetRollLogs \/ SetRollRequests
               \/ SetSettings \/ SetDeviceStatus
      <3>1. pc \notin {"status", "status_reread", "console_read", "log_read"}
        BY <1>1, <2>4, CallsMade DEF SetRollConsole, GetSCCommandRequest, SetRollLogs,
               SetRollRequests, SetSettings, SetDeviceStatus
      <3>2. QED
        BY <1>2, <3>1 DEF AnswerFits
    <2>5. QED
      BY <2>1, <2>2, <2>3, <2>4 DEF SPITask
  <1>12. QED
    BY <1>4, <1>8, <1>9, <1>10, <1>11 DEF UpdateTypes

\* A step of the RP2040 that leaves the ESP32 and the histories alone.
LEMMA CallsKeepQueues ==
  ASSUME UpdateTypes, UNCHANGED <<esp32, inputs, entered>>,
         misses' \in 0 .. MaxAttempts,
         evicted' \subseteq 1 .. logged, printed' \subseteq 1 .. logged,
         status' \in Statuses, held' \in Seq(Nat),
         pc' \in {"log_read", "logs"} => held' \in Seq(1 .. logged),
         pulled_log_queue' \in Seq(1 .. logged), Len(pulled_log_queue') <= LogDepth,
         esp32_console_rx_queue' \in Seq(1 .. typed), Len(esp32_console_rx_queue') <= ParserDepth,
         Counted', count' \in 0 .. MaxConsoleReads \/ count' \in 0 .. MaxRequests
  PROVE  TypeOK' /\ QueuesFit' /\ RequestedOnce'
  <1>1. TypeOK /\ QueuesFit
    BY DEF UpdateTypes
  <1>2. UNCHANGED <<log_message_queue, sc_command_request_queue, network_console_rx_queue, boot,
                    settings_written, logged, typed, entered>>
    BY DEF esp32, dictionary, inputs
  <1>3. QueuesFit'
    BY <1>1, <1>2 DEF QueuesFit
  <1>4. evicted' \subseteq 1 .. MaxLogs /\ printed' \subseteq 1 .. MaxLogs
    BY <1>1, QueuesAre, ConstantsAre, WiderRange
  <1>5. TypeOK'
    BY <1>1, <1>2, <1>4 DEF TypeOK
  <1>6. RequestedOnce'
    BY <1>2 DEF UpdateTypes, RequestedOnce
  <1>7. QED
    BY <1>3, <1>5, <1>6

\* A call that begins fits its label and has not been answered.
LEMMA MainLoopKeepsTypes ==
  ASSUME UpdateTypes, MainLoop
  PROVE  UpdateTypes'
  <1>1. /\ TypeOK /\ QueuesFit /\ UNCHANGED <<esp32, history>>
        /\ UNCHANGED <<status, pulled_log_queue, esp32_console_rx_queue>>
    BY DEF UpdateTypes, MainLoop, BeginUpdate, BeginConsoleRead, RollConsole, ReadStatusAgain,
           BeginWriteStatus, BeginRequest, ExecuteSCCommandRequest, RollRequests, BeginLogs, NoLogs,
           RollLogs, BeginRoll, Invoke
  <1>2. /\ misses' \in 0 .. MaxAttempts
        /\ (answer' = None) \/ (pc' = "idle")
    BY <1>1, TypesAre, ConstantsAre DEF MainLoop, BeginUpdate, BeginConsoleRead, RollConsole,
           ReadStatusAgain, BeginWriteStatus, BeginRequest, ExecuteSCCommandRequest, RollRequests,
           BeginLogs, NoLogs, RollLogs, BeginRoll, Invoke, Remote!Invoke, rpc
  <1>3. AnswerFits'
    BY <1>2 DEF AnswerFits, Answered
  <1>4. /\ held' = held \/ held' = <<>>
        /\ pc' \in {"log_read", "logs"} => held' = <<>> \/ (pc = "logs" /\ held' = held)
        /\ count' = count \/ count' = 0
    <2>1. CASE BeginUpdate
      BY <2>1 DEF BeginUpdate
    <2>2. CASE BeginLogs
      BY <2>2 DEF BeginLogs
    <2>3. CASE \/ BeginConsoleRead \/ RollConsole \/ ReadStatusAgain \/ BeginWriteStatus
               \/ BeginRequest \/ ExecuteSCCommandRequest \/ RollRequests \/ NoLogs \/ RollLogs
      BY <2>3 DEF BeginConsoleRead, RollConsole, ReadStatusAgain, BeginWriteStatus, BeginRequest,
             ExecuteSCCommandRequest, RollRequests, NoLogs, RollLogs, BeginRoll
    <2>4. QED
      BY <2>1, <2>2, <2>3 DEF MainLoop
  <1>5. /\ held' \in Seq(Nat)
        /\ pc' \in {"log_read", "logs"} => held' \in Seq(1 .. logged)
    <2>1. \A S : <<>> \in Seq(S)
      OBVIOUS
    <2>2. held \in Seq(Nat) /\ (pc = "logs" => held \in Seq(1 .. logged))
      BY <1>1 DEF QueuesFit
    <2>3. QED
      BY <1>4, <2>1, <2>2, Zenon
  <1>6. /\ count' \in Nat /\ (count' \in 0 .. MaxConsoleReads \/ count' \in 0 .. MaxRequests)
    BY <1>1, <1>4, TypesAre, ConstantsAre
  <1>7. Counted'
    BY <1>6 DEF UpdateTypes, Counted, MainLoop, BeginUpdate, BeginConsoleRead, RollConsole,
           ReadStatusAgain, BeginWriteStatus, BeginRequest, ExecuteSCCommandRequest, RollRequests,
           BeginLogs, NoLogs, RollLogs, BeginRoll
  <1>8. CallFits'
    <2>1. BytesToRead' = BytesToRead
      BY <1>1 DEF BytesToRead
    <2>2. CASE BeginLogs
      <3>1. PICK n : n > 0 /\ call' = Read("LogMessages", SmallerOf(n, LogChunk)) /\ n \in Int
        <4>1. Len(held) \in Nat /\ status.logs \in Nat
          BY <1>1, QueuesAre, ConstantsAre
        <4>2. QED
          BY <2>2, <4>1 DEF BeginLogs, Invoke, Remote!Invoke
      <3>2. SmallerOf(n, LogChunk) \in 1 .. LogChunk
        BY <3>1, ConstantsAre DEF SmallerOf
      <3>3. pc' = "log_read"
        BY <2>2 DEF BeginLogs
      <3>4. QED
        BY <3>1, <3>2, <3>3 DEF CallFits, MadeAt, Calls, Read
    <2>3. CASE NoLogs
      <3>1. call = None
        BY <2>3, NoCallBetween DEF UpdateTypes, NoLogs, Between
      <3>2. QED
        BY <2>3, <3>1 DEF NoLogs, CallFits, Between, rpc
    <2>4. CASE \/ BeginUpdate \/ BeginConsoleRead \/ RollConsole \/ ReadStatusAgain
               \/ BeginWriteStatus \/ BeginRequest \/ ExecuteSCCommandRequest \/ RollRequests
               \/ RollLogs
      BY <2>1, <2>4 DEF CallFits, Calls, MadeAt, BeginUpdate, BeginConsoleRead, RollConsole,
           ReadStatusAgain, BeginWriteStatus, BeginRequest, ExecuteSCCommandRequest, RollRequests,
           RollLogs, BeginRoll, Invoke, Remote!Invoke
    <2>5. QED
      BY <2>2, <2>3, <2>4 DEF MainLoop
  <1>9. TypeOK' /\ QueuesFit' /\ RequestedOnce'
    <2>1. UNCHANGED <<esp32, inputs, entered, evicted, printed>>
      BY <1>1 DEF history
    <2>2. /\ evicted' \subseteq 1 .. logged /\ printed' \subseteq 1 .. logged
          /\ status' \in Statuses
          /\ pulled_log_queue' \in Seq(1 .. logged) /\ Len(pulled_log_queue') <= LogDepth
          /\ esp32_console_rx_queue' \in Seq(1 .. typed)
          /\ Len(esp32_console_rx_queue') <= ParserDepth
      BY <1>1, <2>1 DEF TypeOK, QueuesFit
    <2>3. QED
      BY <1>2, <1>5, <1>6, <1>7, <2>1, <2>2, CallsKeepQueues
  <1>10. QED
    BY <1>3, <1>7, <1>8, <1>9 DEF UpdateTypes

\* An attempt or a call that fails, and the AT parser.
LEMMA FailuresKeepTypes ==
  ASSUME UpdateTypes, Retry \/ CallFailed \/ ParseConsole
  PROVE  UpdateTypes'
  <1>1. TypeOK /\ QueuesFit /\ CallFits
    BY DEF UpdateTypes
  <1>2. CASE Retry
    <2>1. /\ UNCHANGED <<esp32, rp2040, history, call, answer>>
          /\ misses' = misses + 1 /\ misses + 1 < MaxAttempts
      BY <1>2 DEF Retry, Remote!Miss
    <2>2. UNCHANGED <<pc, status, count, held, pulled_log_queue, esp32_console_rx_queue,
                      logged, typed, evicted, printed, inputs, entered>>
      BY <2>1 DEF rp2040, history, inputs
    <2>3. misses' \in 0 .. MaxAttempts
      BY <1>1, <2>1, TypesAre, ConstantsAre
    <2>4. CallFits' /\ AnswerFits' /\ Counted'
      BY <2>1, <2>2 DEF UpdateTypes, CallFits, AnswerFits, Answered, MadeAt, BytesToRead, Counted
    <2>5. TypeOK' /\ QueuesFit' /\ RequestedOnce'
      BY <1>1, <2>1, <2>2, <2>3, <2>4, CallsKeepQueues, TypesAre DEF QueuesFit
    <2>6. QED
      BY <2>4, <2>5 DEF UpdateTypes
  <1>3. CASE CallFailed
    <2>1. /\ UNCHANGED <<dictionary, settings_written, status, count, held, pulled_log_queue,
                         esp32_console_rx_queue, history>>
          /\ call' = None /\ misses' = misses + 1 /\ misses + 1 = MaxAttempts
          /\ pc' = "idle" /\ boot' = IF boot = "off" THEN "booting" ELSE boot
      BY <1>3 DEF CallFailed, Remote!Fail
    <2>2. UNCHANGED <<log_message_queue, sc_command_request_queue, network_console_rx_queue,
                      logged, typed, evicted, printed, entered>>
      BY <2>1 DEF dictionary, history, inputs
    <2>3. misses' \in 0 .. MaxAttempts /\ boot' \in {"off", "booting", "waiting", "running"}
      BY <1>1, <2>1, TypesAre, ConstantsAre
    <2>4. CallFits' /\ AnswerFits'
      BY <2>1 DEF CallFits, Between, AnswerFits
    <2>5. Counted'
      BY <2>1 DEF UpdateTypes, Counted
    <2>6. QueuesFit'
      BY <1>1, <2>1, <2>2 DEF QueuesFit
    <2>7. TypeOK'
      BY <1>1, <2>1, <2>2, <2>3 DEF TypeOK
    <2>8. RequestedOnce'
      BY <2>1, <2>2 DEF UpdateTypes, RequestedOnce
    <2>9. QED
      BY <2>4, <2>5, <2>6, <2>7, <2>8 DEF UpdateTypes
  <1>4. CASE ParseConsole
    <2>1. /\ entered' = entered \cup Items(esp32_console_rx_queue) /\ esp32_console_rx_queue' = <<>>
          /\ pc = "idle"
          /\ UNCHANGED <<rpc, esp32, pc, status, count, held, pulled_log_queue, inputs,
                         evicted, printed>>
      BY <1>4 DEF ParseConsole
    <2>2. UNCHANGED <<log_message_queue, sc_command_request_queue, network_console_rx_queue,
                      boot, settings_written, logged, typed, call, answer, misses>>
      BY <2>1 DEF rpc, esp32, dictionary, inputs
    <2>3. entered' \subseteq 1 .. typed
      BY <1>1, <2>1, QueuesAre DEF QueuesFit
    <2>4. \A S : <<>> \in Seq(S)
      OBVIOUS
    <2>5. QueuesFit'
      BY <1>1, <2>1, <2>2, <2>3, <2>4 DEF QueuesFit
    <2>6. TypeOK'
      <3>1. entered' \subseteq 1 .. MaxChars
        BY <1>1, <2>3, QueuesAre, ConstantsAre, WiderRange
      <3>2. \A n \in Nat : Len(<<>>) <= n
        OBVIOUS
      <3>3. Len(esp32_console_rx_queue') <= ParserDepth
        BY <2>1, <3>2, ConstantsAre
      <3>4. QED
        BY <1>1, <2>1, <2>2, <3>1, <3>3 DEF TypeOK
    <2>7. call = None
      BY <1>1, <2>1, NoCallBetween DEF Between
    <2>8. CallFits' /\ AnswerFits' /\ RequestedOnce' /\ Counted'
      BY <2>1, <2>2, <2>7 DEF UpdateTypes, CallFits, Between, AnswerFits, RequestedOnce, Counted
    <2>9. QED
      BY <2>5, <2>6, <2>8 DEF UpdateTypes
  <1>5. QED
    BY <1>2, <1>3, <1>4

\* What a call that succeeds has brought, and what is done with it.
LEMMA ReturnsKeepTypes ==
  ASSUME UpdateTypes, CallReturned
  PROVE  UpdateTypes'
  <1>1. /\ TypeOK /\ QueuesFit /\ AnswerFits /\ Counted
        /\ UNCHANGED <<esp32, inputs, entered, misses, answer>> /\ call' = None /\ Answered
    BY DEF UpdateTypes, CallReturned, Remote!Succeed, Answered
  <1>2. misses' \in 0 .. MaxAttempts
    BY <1>1, TypesAre
  <1>3. /\ status \in Statuses /\ held \in Seq(Nat)
        /\ pulled_log_queue \in Seq(1 .. logged) /\ Len(pulled_log_queue) <= LogDepth
        /\ esp32_console_rx_queue \in Seq(1 .. typed) /\ Len(esp32_console_rx_queue) <= ParserDepth
        /\ evicted \subseteq 1 .. logged /\ printed \subseteq 1 .. logged
        /\ count \in Nat /\ (count \in 0 .. MaxConsoleReads \/ count \in 0 .. MaxRequests)
    BY <1>1, TypesAre DEF QueuesFit, Counted
  <1>4. SUFFICES /\ pc' \in Between
                 /\ evicted' \subseteq 1 .. logged /\ printed' \subseteq 1 .. logged
                 /\ status' \in Statuses /\ held' \in Seq(Nat)
                 /\ pc' = "logs" => held' \in Seq(1 .. logged)
                 /\ pulled_log_queue' \in Seq(1 .. logged) /\ Len(pulled_log_queue') <= LogDepth
                 /\ esp32_console_rx_queue' \in Seq(1 .. typed)
                 /\ Len(esp32_console_rx_queue') <= ParserDepth
                 /\ Counted' /\ (count' \in 0 .. MaxConsoleReads \/ count' \in 0 .. MaxRequests)
    <2>1. ASSUME pc' \in Between PROVE CallFits' /\ AnswerFits' /\ pc' # "log_read"
      BY <1>1, <2>1 DEF CallFits, AnswerFits, Between
    <2>2. QED
      BY <1>1, <1>2, <2>1, CallsKeepQueues DEF UpdateTypes
  <1>5. CASE StatusRead
    <2>1. status' \in Statuses
      <3>1. answer \in Statuses
        BY <1>1, <1>5 DEF StatusRead, AnswerFits
      <3>2. QED
        BY <1>3, <1>5, <3>1 DEF StatusRead, Statuses
    <2>2. Counted'
      BY <1>3, <1>5 DEF StatusRead, Counted
    <2>3. QED
      BY <1>3, <1>5, <2>1, <2>2 DEF StatusRead, Between
  <1>6. CASE ConsoleRead
    <2>1. /\ held' = answer /\ esp32_console_rx_queue' = esp32_console_rx_queue \o answer
          /\ pc = "console_read" /\ pc' = "roll_console"
          /\ UNCHANGED <<status, count, pulled_log_queue, printed, evicted>>
      BY <1>6 DEF ConsoleRead
    <2>2. answer \in Seq(1 .. typed) /\ Len(answer) <= BytesToRead
      BY <1>1, <2>1 DEF AnswerFits
    <2>3. /\ esp32_console_rx_queue' \in Seq(1 .. typed)
          /\ Len(esp32_console_rx_queue') = Len(esp32_console_rx_queue) + Len(answer)
      BY <1>3, <2>1, <2>2, Concatenated
    <2>4. Len(esp32_console_rx_queue') <= ParserDepth
      <3>1. Len(answer) \in Nat /\ Len(esp32_console_rx_queue) \in Nat
        BY <1>3, <2>2
      <3>2. QED
        BY <1>1, <2>2, <2>3, <3>1, RoomForBytes, ConstantsAre
    <2>5. held' \in Seq(Nat)
      BY <2>1, <2>2, SeqMonotonic, \A n : 1 .. n \subseteq Nat
    <2>6. Counted'
      BY <1>1, <1>3, <2>1 DEF Counted
    <2>7. QED
      BY <1>3, <2>1, <2>3, <2>4, <2>5, <2>6 DEF Between
  <1>7. CASE ConsoleRolled
    <2>1. count' \in Nat /\ count' \in 0 .. MaxConsoleReads
      BY <1>1, <1>3, <1>7, ConstantsAre DEF ConsoleRolled, Counted
    <2>2. Counted'
      BY <1>7, <2>1 DEF ConsoleRolled, Counted
    <2>3. QED
      BY <1>3, <1>7, <2>1, <2>2 DEF ConsoleRolled, Between
  <1>8. CASE StatusWritten
    <2>1. count' \in Nat /\ count' \in 0 .. MaxConsoleReads
      BY <1>8, ConstantsAre DEF StatusWritten
    <2>2. Counted'
      BY <1>8, <2>1 DEF StatusWritten, Counted
    <2>3. QED
      BY <1>3, <1>8, <2>1, <2>2 DEF StatusWritten, Between
  <1>9. CASE RequestStep
    <2>1. count' \in Nat /\ (count' \in 0 .. MaxConsoleReads \/ count' \in 0 .. MaxRequests)
      BY <1>1, <1>3, <1>9, ConstantsAre DEF RequestStep, Counted
    <2>2. Counted'
      BY <1>1, <1>9, <2>1 DEF RequestStep, Counted
    <2>3. QED
      BY <1>3, <1>9, <2>1, <2>2 DEF RequestStep, Between
  <1>10. CASE LogsRead
    <2>1. pc = "log_read" /\ held' = held \o answer /\ UNCHANGED <<status, count, esp32_console_rx_queue, printed>>
      BY <1>10 DEF LogsRead
    <2>2. answer \in Seq(1 .. logged) /\ held \in Seq(1 .. logged)
      BY <1>1, <2>1 DEF AnswerFits, QueuesFit
    <2>3. held' \in Seq(1 .. logged) /\ held' \in Seq(Nat)
      <3>1. held' \in Seq(1 .. logged)
        BY <2>1, <2>2, Concatenated
      <3>2. 1 .. logged \subseteq Nat
        OBVIOUS
      <3>3. QED
        BY <3>1, <3>2, SeqMonotonic
    <2>4. CASE Len(held') < status.logs /\ answer # <<>>
      <3>1. pc' = "logs" /\ UNCHANGED <<pulled_log_queue, evicted>>
        BY <1>10, <2>4 DEF LogsRead
      <3>2. Counted'
        BY <1>3, <2>1, <3>1 DEF Counted
      <3>3. QED
        BY <1>3, <2>1, <2>3, <3>1, <3>2 DEF Between
    <2>5. CASE ~(Len(held') < status.logs /\ answer # <<>>)
      <3> DEFINE all == pulled_log_queue \o held'
      <3>1. /\ pc' = "roll_logs"
            /\ pulled_log_queue' = SubSeq(all, 1 + Len(all) - SmallerOf(Len(all), LogDepth), Len(all))
            /\ evicted' = evicted \cup (Items(all) \ Items(pulled_log_queue'))
        BY <1>10, <2>5 DEF LogsRead
      <3>2. all \in Seq(1 .. logged)
        BY <1>3, <2>3, Concatenated
      <3> HIDE DEF all
      <3>3. pulled_log_queue' \in Seq(1 .. logged) /\ Len(pulled_log_queue') <= LogDepth
        BY <3>1, <3>2, LastOnes, ConstantsAre
      <3>4. Items(all) \subseteq 1 .. logged
        BY <3>2, ItemsOf
      <3>5. evicted' \subseteq 1 .. logged
        BY <1>3, <3>1, <3>4
      <3>6. Counted'
        BY <1>3, <2>1, <3>1 DEF Counted
      <3>7. QED
        BY <1>3, <2>1, <2>3, <3>1, <3>3, <3>5, <3>6 DEF Between
    <2>6. QED
      BY <2>4, <2>5
  <1>11. CASE LogsRolled
    <2>1. /\ printed' = printed \cup Items(pulled_log_queue) /\ pulled_log_queue' = <<>> /\ pc' = "idle"
          /\ UNCHANGED <<status, count, held, esp32_console_rx_queue, evicted>>
      BY <1>11 DEF LogsRolled
    <2>2. printed' \subseteq 1 .. logged
      BY <1>1, <1>3, <2>1, QueuesAre
    <2>3. pulled_log_queue' \in Seq(1 .. logged) /\ Len(pulled_log_queue') <= LogDepth
      <3>1. \A S : <<>> \in Seq(S)
        OBVIOUS
      <3>2. \A n \in Nat : Len(<<>>) <= n
        OBVIOUS
      <3>3. QED
        BY <2>1, <3>1, <3>2, ConstantsAre
    <2>4. Counted'
      BY <1>3, <2>1 DEF Counted
    <2>5. QED
      BY <1>3, <2>1, <2>2, <2>3, <2>4 DEF Between
  <1>12. QED
    BY <1>5, <1>6, <1>7, <1>8, <1>9, <1>10, <1>11 DEF CallReturned

LEMMA StutteringKeepsTypes ==
  ASSUME UpdateTypes, UNCHANGED vars
  PROVE  UpdateTypes'
  <1> USE DEF vars, rpc, esp32, dictionary, rp2040, history, inputs
  <1>1. TypeOK'
    BY DEF UpdateTypes, TypeOK
  <1>2. CallFits' /\ AnswerFits' /\ RequestedOnce' /\ Counted'
    BY DEF UpdateTypes, CallFits, MadeAt, AnswerFits, Answered, BytesToRead, RequestedOnce, Counted
  <1>3. QueuesFit'
    BY DEF UpdateTypes, QueuesFit
  <1>4. QED
    BY <1>1, <1>2, <1>3 DEF UpdateTypes

LEMMA StepKeepsTypes ==
  ASSUME UpdateTypes, [Next]_vars
  PROVE  UpdateTypes'
  BY LogMessageKeepsTypes, OtherTasksKeepTypes, CoprocessorKeepsTypes, MainLoopKeepsTypes,
     FailuresKeepTypes, ReturnsKeepTypes, StutteringKeepsTypes DEF Next

LEMMA UpdateTypesKept ==
  Spec => []UpdateTypes
  BY InitTypes, StepKeepsTypes, PTL DEF Spec

\* No queue grows beyond its size, a call fits the point of the Update at which
\* it is made, and the messages and characters told apart are those there have been.
THEOREM UpdateTypeCorrect == Spec => []TypeOK
  <1>1. UpdateTypes => TypeOK
    BY DEF UpdateTypes
  <1>2. QED
    BY <1>1, UpdateTypesKept, PTL

-----------------------------------------------------------------------------
(* The settings.                                                           *)

\* Since its request was read the ESP32 has had its settings, unless it restarted.
WrittenBeforeRolled ==
    /\ pc \in {"roll_request", "request_rolled"} \/ (pc = "executed" /\ Answered) =>
          settings_written \/ boot = "off"

SettingsInv == UpdateTypes /\ RunsWithSettings /\ WrittenBeforeRolled

LEMMA StepKeepsSettings ==
  ASSUME SettingsInv, [Next]_vars
  PROVE  SettingsInv'
  <1>1. UpdateTypes /\ RunsWithSettings /\ WrittenBeforeRolled /\ UpdateTypes'
    BY StepKeepsTypes DEF SettingsInv
  <1>2. CASE LogMessage \/ NetworkConsoleMessageReceived \/ RequestSettings \/ Restart
    <2>1. UNCHANGED <<rpc, rp2040>>
      BY <1>2 DEF LogMessage, NetworkConsoleMessageReceived, RequestSettings, Restart
    <2>2. UNCHANGED <<pc, answer>>
      BY <2>1 DEF rpc, rp2040
    <2>3. \/ UNCHANGED <<boot, settings_written>>
          \/ boot = "booting" /\ boot' = "waiting" /\ settings_written' = settings_written
          \/ boot' = "off" /\ settings_written' = FALSE
      BY <1>2 DEF LogMessage, NetworkConsoleMessageReceived, RequestSettings, Restart
    <2>4. QED
      BY <1>1, <2>2, <2>3 DEF SettingsInv, RunsWithSettings, WrittenBeforeRolled, Answered
  <1>3. CASE SPITask
    <2>1. /\ call # None /\ CallFits /\ boot \in {"waiting", "running"} /\ pc' = pc
      BY <1>1, <1>3 DEF SPITask, UpdateTypes, rp2040, Up
    <2>2. CASE SetRollRequests
      <3>1. pc = "request_rolled" /\ settings_written
        BY <1>1, <2>1, <2>2, CallsMade DEF SetRollRequests, WrittenBeforeRolled
      <3>2. settings_written' = settings_written
        BY <2>2 DEF SetRollRequests
      <3>3. QED
        BY <1>1, <3>1, <3>2 DEF SettingsInv, RunsWithSettings, WrittenBeforeRolled
    <2>3. CASE SetSettings
      <3>1. settings_written' = TRUE
        BY <2>3 DEF SetSettings
      <3>2. QED
        BY <1>1, <3>1 DEF SettingsInv, RunsWithSettings, WrittenBeforeRolled
    <2>4. CASE \/ GetDeviceStatus \/ GetConsole \/ SetRollConsole \/ GetLogMessages
               \/ GetSCCommandRequest \/ SetRollLogs \/ SetDeviceStatus
      <3>1. UNCHANGED <<boot, settings_written>>
        BY <2>4 DEF GetDeviceStatus, GetConsole, SetRollConsole, GetLogMessages,
               GetSCCommandRequest, SetRollLogs, SetDeviceStatus, esp32
      <3>2. pc # "executed"
        BY <2>1, <2>4, CallsMade DEF GetDeviceStatus, GetConsole, SetRollConsole, GetLogMessages,
               GetSCCommandRequest, SetRollLogs, SetDeviceStatus
      <3>3. QED
        BY <1>1, <2>1, <3>1, <3>2 DEF SettingsInv, RunsWithSettings, WrittenBeforeRolled
    <2>5. QED
      BY <1>3, <2>2, <2>3, <2>4 DEF SPITask
  <1>4. CASE MainLoop
    <2>1. UNCHANGED <<boot, settings_written>>
      BY <1>4 DEF MainLoop, BeginUpdate, BeginConsoleRead, RollConsole, ReadStatusAgain,
             BeginWriteStatus, BeginRequest, ExecuteSCCommandRequest, RollRequests, BeginLogs,
             NoLogs, RollLogs, BeginRoll, Invoke, esp32
    <2>2. \/ pc' \notin {"roll_request", "request_rolled", "executed"}
          \/ pc' = "executed" /\ answer' = None
          \/ pc' = "request_rolled" /\ pc = "roll_request"
      BY <1>4 DEF MainLoop, BeginUpdate, BeginConsoleRead, RollConsole, ReadStatusAgain,
             BeginWriteStatus, BeginRequest, ExecuteSCCommandRequest, RollRequests, BeginLogs,
             NoLogs, RollLogs, BeginRoll, Invoke, Remote!Invoke
    <2>3. QED
      BY <1>1, <2>1, <2>2 DEF SettingsInv, RunsWithSettings, WrittenBeforeRolled, Answered
  <1>5. CASE Retry \/ ParseConsole \/ UNCHANGED vars
    <2>1. UNCHANGED <<boot, settings_written, pc, answer>>
      BY <1>5 DEF Retry, ParseConsole, Remote!Miss, vars, rpc, esp32, rp2040
    <2>2. QED
      BY <1>1, <2>1 DEF SettingsInv, RunsWithSettings, WrittenBeforeRolled, Answered
  <1>6. CASE CallFailed
    <2>1. /\ pc' = "idle" /\ settings_written' = settings_written
          /\ boot' = IF boot = "off" THEN "booting" ELSE boot
      BY <1>6 DEF CallFailed
    <2>2. QED
      BY <1>1, <2>1 DEF SettingsInv, RunsWithSettings, WrittenBeforeRolled
  <1>7. CASE CallReturned
    <2>1. UNCHANGED <<boot, settings_written>> /\ Answered
      BY <1>7 DEF CallReturned, Remote!Succeed, esp32, Answered
    <2>2. \/ pc' \notin {"roll_request", "request_rolled", "executed"}
          \/ pc' = "roll_request" /\ pc = "executed"
      BY <1>7 DEF CallReturned, StatusRead, ConsoleRead, ConsoleRolled, StatusWritten, RequestStep,
             LogsRead, LogsRolled
    <2>3. QED
      BY <1>1, <2>1, <2>2 DEF SettingsInv, RunsWithSettings, WrittenBeforeRolled
  <1>8. QED
    BY <1>2, <1>3, <1>4, <1>5, <1>6, <1>7 DEF Next

\* The ESP32 starts its servers only with the settings it has asked for
\* (ADSBeeServer::Init), however its restarts, lost requests and lost responses fall.
THEOREM RunsOnlyWithSettings == Spec => []RunsWithSettings
  <1>1. Init => SettingsInv
    BY InitTypes DEF Init, SettingsInv, RunsWithSettings, WrittenBeforeRolled
  <1>2. SettingsInv => RunsWithSettings
    BY DEF SettingsInv
  <1>3. QED
    BY <1>1, <1>2, StepKeepsSettings, PTL DEF Spec

-----------------------------------------------------------------------------
(* The console.                                                            *)

StartsWith(seq, first) ==
    Len(first) <= Len(seq) /\ \A i \in 1 .. Len(first) : seq[i] = first[i]

\* Characters the RP2040 has read and the ESP32 still has.
ReadUnrolled ==
    /\ pc = "console_read" /\ Answered /\ boot # "off" =>
          StartsWith(network_console_rx_queue, answer)
    /\ (pc = "roll_console" \/ (pc = "console_rolled" /\ ~Answered)) /\ boot # "off" =>
          StartsWith(network_console_rx_queue, held)
    /\ pc \in {"roll_console", "console_rolled"} => Items(held) \subseteq Items(esp32_console_rx_queue)

CharsInv == UpdateTypes /\ CharsReadBeforeRolled /\ ReadUnrolled

LEMMA StartsWithMore ==
  ASSUME NEW n \in Nat, NEW s \in Seq(1 .. n), NEW first, Len(first) \in Nat, StartsWith(s, first)
  PROVE  StartsWith(Append(s, n + 1), first)
  <1>1. /\ Len(Append(s, n + 1)) = Len(s) + 1 /\ Len(s) \in Nat
        /\ \A i \in 1 .. Len(s) : Append(s, n + 1)[i] = s[i]
    BY NextAppended
  <1>2. QED
    BY <1>1 DEF StartsWith

\* What a roll takes out of a queue that starts with what was read.
LEMMA ReadDiscarded ==
  ASSUME NEW S, NEW s \in Seq(S), NEW T, NEW first \in Seq(T), StartsWith(s, first)
  PROVE  Items(s) \subseteq Items(Discard(s, Len(first))) \cup Items(first)
  <1>1. Len(first) \in Nat /\ Len(first) <= Len(s) /\ \A i \in 1 .. Len(first) : s[i] = first[i]
    BY DEF StartsWith
  <1>2. Items(s) = Items(Discard(s, Len(first))) \cup {s[i] : i \in 1 .. Len(first)}
    BY <1>1, DiscardIs
  <1>3. \A i \in 1 .. Len(first) : first[i] \in Items(first)
    BY ItemsOf
  <1>4. QED
    BY <1>1, <1>2, <1>3

LEMMA StepKeepsChars ==
  ASSUME CharsInv, [Next]_vars, ~RepliesLost
  PROVE  CharsInv'
  <1>1. /\ UpdateTypes /\ CharsReadBeforeRolled /\ ReadUnrolled /\ UpdateTypes'
        /\ TypeOK /\ QueuesFit /\ CallFits /\ AnswerFits
    BY StepKeepsTypes DEF CharsInv, UpdateTypes
  <1>2. /\ typed \in Nat /\ network_console_rx_queue \in Seq(1 .. typed)
        /\ esp32_console_rx_queue \in Seq(1 .. typed) /\ held \in Seq(Nat) /\ Len(held) \in Nat
    BY <1>1, QueuesAre
  <1>3. CASE NetworkConsoleMessageReceived
    <2>1. /\ typed' = typed + 1 /\ boot = "running" /\ boot' = boot
          /\ network_console_rx_queue' = Append(network_console_rx_queue, typed + 1)
          /\ UNCHANGED <<rpc, rp2040, entered>>
      BY <1>3 DEF NetworkConsoleMessageReceived
    <2>2. UNCHANGED <<pc, answer, held, esp32_console_rx_queue>>
      BY <2>1 DEF rpc, rp2040
    <2>3. Items(network_console_rx_queue') = Items(network_console_rx_queue) \cup {typed + 1}
      BY <1>2, <2>1, NextAppended
    <2>4. CharsReadBeforeRolled'
      <3>1. \A c \in 1 .. typed + 1 : c \in 1 .. typed \/ c = typed + 1
        BY <1>2
      <3>2. QED
        BY <1>1, <2>1, <2>2, <2>3, <3>1 DEF CharsReadBeforeRolled
    <2>5. ReadUnrolled'
      <3>1. pc = "console_read" /\ Answered => Len(answer) \in Nat
        BY <1>1 DEF AnswerFits
      <3>2. \A first : Len(first) \in Nat /\ StartsWith(network_console_rx_queue, first)
                         => StartsWith(network_console_rx_queue', first)
        BY <1>2, <2>1, StartsWithMore
      <3>3. QED
        BY <1>1, <1>2, <2>1, <2>2, <3>1, <3>2 DEF ReadUnrolled, Answered
    <2>6. QED
      BY <1>1, <2>4, <2>5 DEF CharsInv
  <1>4. CASE Restart
    <2>1. /\ boot' = "off" /\ network_console_rx_queue' = <<>>
          /\ entered' = entered \cup Items(network_console_rx_queue)
          /\ UNCHANGED <<rpc, rp2040, typed>>
      BY <1>4 DEF Restart
    <2>2. UNCHANGED <<pc, answer, held, esp32_console_rx_queue>>
      BY <2>1 DEF rpc, rp2040
    <2>3. CharsReadBeforeRolled'
      BY <1>1, <2>1, <2>2 DEF CharsReadBeforeRolled
    <2>4. ReadUnrolled'
      BY <1>1, <2>1, <2>2 DEF ReadUnrolled
    <2>5. QED
      BY <1>1, <2>3, <2>4 DEF CharsInv
  <1>5. CASE LogMessage \/ RequestSettings \/ Retry \/ UNCHANGED vars
    <2>1. UNCHANGED <<pc, answer, held, esp32_console_rx_queue, network_console_rx_queue, typed, entered>>
      BY <1>5 DEF LogMessage, RequestSettings, Retry, Remote!Miss, vars, rpc, esp32, dictionary,
             rp2040, history, inputs
    <2>2. boot' # "off" => boot # "off"
      BY <1>5 DEF LogMessage, RequestSettings, Retry, vars, esp32
    <2>3. QED
      BY <1>1, <2>1, <2>2 DEF CharsInv, CharsReadBeforeRolled, ReadUnrolled, Answered
  <1>6. CASE SPITask
    <2>1. /\ call # None /\ boot # "off" /\ boot' # "off"
          /\ answer \in {None, Refused}
          /\ UNCHANGED <<pc, held, esp32_console_rx_queue, typed, entered>>
      BY <1>6 DEF SPITask, Up, GetDeviceStatus, GetConsole, SetRollConsole, GetLogMessages,
             GetSCCommandRequest, SetRollLogs, SetRollRequests, SetSettings, SetDeviceStatus,
             esp32, rp2040, history, inputs
    <2>2. CASE GetConsole
      <3>1. pc = "console_read" /\ call.num_items \in Nat /\ network_console_rx_queue' = network_console_rx_queue
        BY <1>1, <2>1, <2>2, CallsMade, RoomForBytes DEF GetConsole, esp32, dictionary
      <3>2. answer' = Refused \/ answer' = Front(network_console_rx_queue, call.num_items)
        BY <2>2 DEF GetConsole, Remote!Execute
      <3>3. StartsWith(network_console_rx_queue, Front(network_console_rx_queue, call.num_items))
        <4>1. /\ Len(Front(network_console_rx_queue, call.num_items))
                   = SmallerOf(call.num_items, Len(network_console_rx_queue))
              /\ \A i \in 1 .. Len(Front(network_console_rx_queue, call.num_items)) :
                    Front(network_console_rx_queue, call.num_items)[i] = network_console_rx_queue[i]
          BY <1>2, <3>1, FrontIs
        <4>2. Len(network_console_rx_queue) \in Nat
          BY <1>2
        <4>3. SmallerOf(call.num_items, Len(network_console_rx_queue)) <= Len(network_console_rx_queue)
          <5>1. call.num_items \in Int /\ Len(network_console_rx_queue) \in Int
            BY <3>1, <4>2
          <5>2. QED
            BY <5>1, SmallerIs
        <4>4. QED
          BY <4>1, <4>3 DEF StartsWith
      <3>4. QED
        BY <1>1, <2>1, <3>1, <3>2, <3>3 DEF CharsInv, CharsReadBeforeRolled, ReadUnrolled, Answered
    <2>3. CASE SetRollConsole
      <3>1. /\ pc = "console_rolled" /\ call.num_items = Len(held)
            /\ StartsWith(network_console_rx_queue, held)
            /\ Items(held) \subseteq Items(esp32_console_rx_queue)
        BY <1>1, <2>1, <2>3, CallsMade DEF SetRollConsole, ReadUnrolled, Answered
      <3>2. CASE UNCHANGED network_console_rx_queue
        BY <1>1, <2>1, <3>1, <3>2 DEF CharsInv, CharsReadBeforeRolled, ReadUnrolled
      <3>3. CASE ~UNCHANGED network_console_rx_queue
        <4>1. /\ network_console_rx_queue' = Discard(network_console_rx_queue, Len(held))
              /\ answer' = IF Len(held) > Len(network_console_rx_queue) THEN Refused ELSE TRUE
          BY <2>3, <3>1, <3>3 DEF SetRollConsole, Remote!Execute
        <4>2. answer' = TRUE
          <5>1. Len(network_console_rx_queue) \in Nat
            BY <1>2
          <5>2. ~(Len(held) > Len(network_console_rx_queue))
            BY <1>2, <3>1, <5>1 DEF StartsWith
          <5>3. QED
            BY <4>1, <5>2
        <4>3. Answered'
          BY <4>2, UpdateAssumption DEF Answered
        <4>4. Items(network_console_rx_queue) \subseteq Items(network_console_rx_queue') \cup Items(held)
          BY <1>2, <3>1, <4>1, ReadDiscarded
        <4>5. CharsReadBeforeRolled'
          BY <1>1, <2>1, <3>1, <4>4 DEF CharsReadBeforeRolled
        <4>6. ReadUnrolled'
          BY <2>1, <3>1, <4>3 DEF ReadUnrolled
        <4>7. QED
          BY <1>1, <4>5, <4>6 DEF CharsInv
      <3>4. QED
        BY <3>2, <3>3
    <2>4. CASE \/ GetDeviceStatus \/ GetLogMessages \/ GetSCCommandRequest \/ SetRollLogs
               \/ SetRollRequests \/ SetSettings \/ SetDeviceStatus
      <3>1. network_console_rx_queue' = network_console_rx_queue
        BY <2>4 DEF GetDeviceStatus, GetLogMessages, GetSCCommandRequest, SetRollLogs,
               SetRollRequests, SetSettings, SetDeviceStatus, esp32, dictionary
      <3>2. pc \notin {"roll_console", "console_read", "console_rolled"}
        BY <1>1, <2>1, <2>4, CallsMade DEF GetDeviceStatus, GetLogMessages, GetSCCommandRequest,
               SetRollLogs, SetRollRequests, SetSettings, SetDeviceStatus, Calls
      <3>3. QED
        BY <1>1, <2>1, <3>1, <3>2 DEF CharsInv, CharsReadBeforeRolled, ReadUnrolled
    <2>5. QED
      BY <1>6, <2>2, <2>3, <2>4 DEF SPITask
  <1>7. CASE MainLoop
    <2>1. UNCHANGED <<boot, network_console_rx_queue, typed, entered, esp32_console_rx_queue>>
      BY <1>7 DEF MainLoop, BeginUpdate, BeginConsoleRead, RollConsole, ReadStatusAgain,
             BeginWriteStatus, BeginRequest, ExecuteSCCommandRequest, RollRequests, BeginLogs,
             NoLogs, RollLogs, BeginRoll, Invoke, esp32, dictionary, history, inputs
    <2>2. \/ pc' \notin {"roll_console", "console_read", "console_rolled"}
          \/ pc' = "console_read" /\ answer' = None
          \/ pc' = "console_rolled" /\ pc = "roll_console" /\ held' = held
      BY <1>7 DEF MainLoop, BeginUpdate, BeginConsoleRead, RollConsole, ReadStatusAgain,
             BeginWriteStatus, BeginRequest, ExecuteSCCommandRequest, RollRequests, BeginLogs,
             NoLogs, RollLogs, BeginRoll, Invoke, Remote!Invoke
    <2>3. QED
      BY <1>1, <2>1, <2>2 DEF CharsInv, CharsReadBeforeRolled, ReadUnrolled, Answered
  <1>8. CASE CallFailed
    <2>1. pc' = "idle" /\ UNCHANGED <<network_console_rx_queue, typed, entered, esp32_console_rx_queue>>
      BY <1>8 DEF CallFailed, dictionary, history, inputs
    <2>2. QED
      BY <1>1, <2>1 DEF CharsInv, CharsReadBeforeRolled, ReadUnrolled
  <1>9. CASE CallReturned
    <2>1. UNCHANGED <<boot, network_console_rx_queue, typed, entered>> /\ Answered
      BY <1>9 DEF CallReturned, Remote!Succeed, esp32, dictionary, inputs, Answered
    <2>2. CASE ConsoleRead
      <3>1. /\ pc = "console_read" /\ pc' = "roll_console" /\ held' = answer
            /\ esp32_console_rx_queue' = esp32_console_rx_queue \o answer
        BY <2>2 DEF ConsoleRead
      <3>2. answer \in Seq(1 .. typed)
        BY <1>1, <2>1, <3>1 DEF AnswerFits
      <3>3. Items(esp32_console_rx_queue') = Items(esp32_console_rx_queue) \cup Items(answer)
        BY <1>2, <3>1, <3>2, Concatenated
      <3>4. QED
        BY <1>1, <2>1, <3>1, <3>3 DEF CharsInv, CharsReadBeforeRolled, ReadUnrolled
    <2>3. CASE ~ConsoleRead
      <3>1. pc' \notin {"roll_console", "console_read", "console_rolled"}
            /\ esp32_console_rx_queue' = esp32_console_rx_queue
        BY <1>9, <2>3 DEF CallReturned, StatusRead, ConsoleRolled, StatusWritten, RequestStep,
               LogsRead, LogsRolled
      <3>2. QED
        BY <1>1, <2>1, <3>1 DEF CharsInv, CharsReadBeforeRolled, ReadUnrolled
    <2>4. QED
      BY <2>2, <2>3
  <1>10. CASE ParseConsole
    <2>1. /\ pc = "idle" /\ pc' = "idle"
          /\ entered' = entered \cup Items(esp32_console_rx_queue)
          /\ UNCHANGED <<network_console_rx_queue, typed>>
      BY <1>10 DEF ParseConsole, esp32, dictionary, inputs
    <2>2. QED
      BY <1>1, <2>1 DEF CharsInv, CharsReadBeforeRolled, ReadUnrolled
  <1>11. QED
    BY <1>3, <1>4, <1>5, <1>6, <1>7, <1>8, <1>9, <1>10 DEF Next

\* A character leaves the console queue of the ESP32 only when the RP2040 has it:
\* the roll that is executed names what the last read has brought.
THEOREM CharactersRead ==
  ASSUME ~RepliesLost
  PROVE  Spec => []CharsReadBeforeRolled
  <1>1. Init => CharsInv
    <2>1. Init => typed = 0 /\ pc = "idle"
      BY DEF Init
    <2>2. typed = 0 /\ pc = "idle" => CharsReadBeforeRolled /\ ReadUnrolled
      BY DEF CharsReadBeforeRolled, ReadUnrolled
    <2>3. QED
      BY <2>1, <2>2, InitTypes DEF CharsInv
  <1>2. CharsInv /\ [Next]_vars => CharsInv'
    BY StepKeepsChars
  <1>3. CharsInv => CharsReadBeforeRolled
    BY DEF CharsInv
  <1>4. QED
    BY <1>1, <1>2, <1>3, PTL DEF Spec

-----------------------------------------------------------------------------
(* The log messages.                                                       *)

\* The messages up to here have left the ESP32's queue, which holds the others.
Gone == logged - Len(log_message_queue)
InLine == \A i \in DOMAIN log_message_queue : log_message_queue[i] = Gone + i

\* There are at least as many messages as the status has told of.
Announced ==
    boot # "off" =>
        /\ pc = "status" /\ Answered => answer.logs <= Len(log_message_queue)
        /\ pc \notin {"idle", "status"} /\ ~(pc = "logs_rolled" /\ Answered) =>
              status.logs <= Len(log_message_queue)

\* Messages r + 1 .. r + n have been read and are to be rolled.
Window(seq, r) ==
    /\ Len(seq) = status.logs /\ seq # <<>>
    /\ \A i \in DOMAIN seq : seq[i] = r + i
    /\ r + 1 .. Gone \subseteq evicted

Opened(r) ==
    /\ pc = "log_read" /\ Answered /\ boot # "off" => Window(answer, r)
    /\ (pc = "roll_logs" \/ (pc = "logs_rolled" /\ ~Answered)) /\ boot # "off" => Window(held, r)

Unread == (1 .. logged) \ UNION {Items(log_message_queue), Items(pulled_log_queue), evicted, printed}

\* Of the messages that left the queue before the last read, as many have been
\* overwritten as were never read.
PaidFor(r) == Cardinality(Unread) <= Cardinality(evicted \cap (1 .. r))

\* One read brings all that the status has told of, and all of it is kept.
Pulled ==
    /\ pc = "log_read" =>
          /\ held = <<>> /\ status.logs > 0
          /\ call # None => call.num_items = status.logs
          /\ Answered => Len(answer) = status.logs
    /\ pc # "logs"
    /\ pc \in {"roll_logs", "logs_rolled"} =>
          Items(held) \subseteq UNION {Items(pulled_log_queue), evicted, printed}

LogsInv ==
    /\ UpdateTypes /\ InLine /\ Announced /\ Pulled
    /\ \E r \in 0 .. Gone : PaidFor(r) /\ Opened(r)

LEMMA NumbersFinite ==
  ASSUME NEW n \in Nat, NEW S, S \subseteq 1 .. n
  PROVE  /\ IsFiniteSet(S) /\ Cardinality(S) \in Nat
         /\ \A T : T \subseteq S =>
               IsFiniteSet(T) /\ Cardinality(T) \in Nat /\ Cardinality(T) <= Cardinality(S)
  <1>1. IsFiniteSet(1 .. n)
    BY FS_Interval
  <1>2. IsFiniteSet(S)
    BY <1>1, FS_Subset
  <1>3. QED
    BY <1>2, FS_Subset, FS_CardinalityType

\* Nothing is unread that was not, and nothing is missing of what paid for it.
LEMMA StillPaidFor ==
  ASSUME TypeOK, QueuesFit, QueuesFit', NEW r, NEW s,
         PaidFor(r), Unread' \subseteq Unread, evicted \cap (1 .. r) \subseteq evicted' \cap (1 .. s)
  PROVE  PaidFor(s)'
  <1>1. logged \in Nat /\ Unread \subseteq 1 .. logged
    BY QueuesAre DEF Unread
  <1>2. logged' \in Nat /\ evicted' \cap (1 .. s) \subseteq 1 .. logged'
    <2>1. logged' \in 0 .. MaxLogs /\ evicted' \subseteq 1 .. logged'
      BY DEF QueuesFit
    <2>2. QED
      BY <2>1, ConstantsAre
  <1>3. /\ Cardinality(Unread) \in Nat /\ Cardinality(Unread') \in Nat
        /\ Cardinality(Unread') <= Cardinality(Unread)
    BY <1>1, NumbersFinite
  <1>4. /\ Cardinality(evicted \cap (1 .. r)) \in Nat /\ Cardinality(evicted' \cap (1 .. s)) \in Nat
        /\ Cardinality(evicted \cap (1 .. r)) <= Cardinality(evicted' \cap (1 .. s))
    BY <1>2, NumbersFinite
  <1>5. Cardinality(Unread) <= Cardinality(evicted \cap (1 .. r))
    BY DEF PaidFor
  <1>6. PaidFor(s)' <=> Cardinality(Unread') <= Cardinality(evicted' \cap (1 .. s))
    BY DEF PaidFor
  <1>7. QED
    BY <1>3, <1>4, <1>5, <1>6

\* The ESP32's queue holds the messages that have not left it.
LEMMA QueueHolds ==
  ASSUME TypeOK, QueuesFit, InLine
  PROVE  /\ Gone \in Int /\ logged = Gone + Len(log_message_queue)
         /\ \A m : m \in Items(log_message_queue) <=> m \in Gone + 1 .. logged
  <1>1. logged \in Nat /\ log_message_queue \in Seq(1 .. logged) /\ Len(log_message_queue) \in Nat
    BY QueuesAre
  <1>2. Gone \in Int /\ logged = Gone + Len(log_message_queue)
    BY <1>1 DEF Gone
  <1>3. DOMAIN log_message_queue = 1 .. Len(log_message_queue)
    BY <1>1
  <1>4. \A i \in 1 .. Len(log_message_queue) : log_message_queue[i] = Gone + i
    BY <1>3 DEF InLine
  <1>5. \A m \in Items(log_message_queue) : m \in Gone + 1 .. logged
    <2>1. \A i \in 1 .. Len(log_message_queue) : Gone + i \in Gone + 1 .. logged
      BY <1>1, <1>2
    <2>2. QED
      BY <1>1, <1>4, <2>1, ItemsOf
  <1>6. \A m \in Gone + 1 .. logged : m \in Items(log_message_queue)
    <2>1. TAKE m \in Gone + 1 .. logged
    <2>2. m - Gone \in 1 .. Len(log_message_queue) /\ Gone + (m - Gone) = m
      BY <1>1, <1>2
    <2>3. QED
      BY <1>1, <1>4, <2>2, ItemsOf
  <1>7. QED
    BY <1>2, <1>5, <1>6

\* An executed roll: messages r + 1 .. r + n were read, and the n messages after
\* Gone leave the queue.
LEMMA RollPaidFor ==
  ASSUME TypeOK, QueuesFit, QueuesFit', InLine,
         NEW r \in 0 .. Gone, NEW n \in Nat, n <= Len(log_message_queue), NEW s, s = Gone + n,
         PaidFor(r), r + 1 .. Gone \subseteq evicted,
         r + 1 .. r + n \subseteq UNION {Items(pulled_log_queue), evicted, printed},
         Items(log_message_queue') = Gone + n + 1 .. logged,
         UNCHANGED <<pulled_log_queue, evicted, printed, logged>>
  PROVE  PaidFor(s)'
  <1>1. /\ logged \in Nat /\ evicted \subseteq 1 .. logged
        /\ Gone \in Nat /\ r \in Nat /\ r <= Gone /\ logged = Gone + Len(log_message_queue)
        /\ Len(log_message_queue) \in Nat /\ Gone + n <= logged
        /\ \A m : m \in Items(log_message_queue) <=> m \in Gone + 1 .. logged
    <2>1. /\ logged \in Nat /\ Len(log_message_queue) \in Nat /\ evicted \subseteq 1 .. logged
      <3>1. evicted \subseteq 1 .. logged
        BY DEF QueuesFit
      <3>2. logged \in Nat /\ Len(log_message_queue) \in 0 .. LogDepth
        BY QueuesAre
      <3>. QED
        BY <3>1, <3>2
    <2>2. Gone \in Int /\ logged = Gone + Len(log_message_queue)
      BY QueueHolds
    <2>3. Gone \in Nat /\ r \in Nat /\ r <= Gone
      BY <2>2
    <2>4. \A m : m \in Items(log_message_queue) <=> m \in Gone + 1 .. logged
      BY QueueHolds
    <2>5. Gone + n <= logged
      BY <2>1, <2>2
    <2>6. QED
      BY <2>1, <2>2, <2>3, <2>4, <2>5
  <1> DEFINE skipped == r + n + 1 .. Gone + n
             lost == r + 1 .. Gone
             before == evicted \cap (1 .. r)
             after == evicted \cap (1 .. Gone + n)
  <1>2. Unread' \subseteq Unread \cup skipped
    <2>1. SUFFICES ASSUME NEW m \in Unread', m \notin Unread PROVE m \in skipped
      OBVIOUS
    <2>2. /\ m \in 1 .. logged /\ m \notin Gone + n + 1 .. logged
          /\ m \notin UNION {Items(pulled_log_queue), evicted, printed}
      BY <2>1 DEF Unread
    <2>3. m \in Gone + 1 .. logged
      BY <1>1, <2>1, <2>2 DEF Unread
    <2>4. m \notin r + 1 .. r + n
      BY <2>2
    <2>5. QED
      BY <1>1, <2>2, <2>3, <2>4
  <1>3. /\ IsFiniteSet(Unread) /\ IsFiniteSet(skipped) /\ IsFiniteSet(lost)
        /\ Cardinality(skipped) = Gone - r /\ Cardinality(lost) = Gone - r
        /\ Cardinality(Unread) \in Nat
    <2>1. Unread \subseteq 1 .. logged
      BY DEF Unread
    <2>2. r + n + 1 \in Int /\ Gone + n \in Int /\ r + 1 \in Int /\ Gone \in Int
      BY <1>1
    <2>3. /\ IsFiniteSet(skipped) /\ IsFiniteSet(lost)
          /\ Cardinality(skipped) = IF r + n + 1 > Gone + n THEN 0 ELSE Gone + n - (r + n + 1) + 1
          /\ Cardinality(lost) = IF r + 1 > Gone THEN 0 ELSE Gone - (r + 1) + 1
      BY <2>2, FS_Interval
    <2>4. Cardinality(skipped) = Gone - r /\ Cardinality(lost) = Gone - r
      BY <1>1, <2>3
    <2>5. IsFiniteSet(Unread) /\ Cardinality(Unread) \in Nat
      BY <1>1, <2>1, NumbersFinite
    <2>6. QED
      BY <2>3, <2>4, <2>5
  <1>4. /\ IsFiniteSet(before) /\ IsFiniteSet(after)
        /\ Cardinality(before) \in Nat /\ Cardinality(after) \in Nat
    BY <1>1, NumbersFinite
  <1> HIDE DEF skipped, lost, before, after
  <1>5. Cardinality(Unread') <= Cardinality(Unread) + (Gone - r) /\ Cardinality(Unread') \in Nat
    <2>1. /\ IsFiniteSet(Unread \cup skipped) /\ Cardinality(Unread \cup skipped) \in Nat
          /\ Cardinality(Unread \cup skipped) <= Cardinality(Unread) + Cardinality(skipped)
      <3>1. /\ IsFiniteSet(Unread \cup skipped)
            /\ Cardinality(Unread \cup skipped)
                  = Cardinality(Unread) + Cardinality(skipped) - Cardinality(Unread \cap skipped)
        BY <1>3, FS_Union
      <3>2. Cardinality(Unread \cap skipped) \in Nat
        <4>1. Unread \cap skipped \subseteq Unread
          OBVIOUS
        <4>2. QED
          BY <1>3, <4>1, FS_Subset, FS_CardinalityType
      <3>3. Cardinality(Unread \cup skipped) \in Nat
        BY <3>1, FS_CardinalityType
      <3>4. QED
        BY <1>1, <1>3, <3>1, <3>2, <3>3
    <2>2. Cardinality(Unread') <= Cardinality(Unread \cup skipped) /\ Cardinality(Unread') \in Nat
      BY <1>2, <2>1, FS_Subset, FS_CardinalityType
    <2>3. QED
      BY <1>1, <1>3, <2>1, <2>2
  <1>6. Cardinality(after) >= Cardinality(before) + (Gone - r)
    <2>1. before \cap lost = {} /\ before \cup lost \subseteq after
      BY <1>1 DEF before, lost, after
    <2>2. Cardinality(before \cup lost) = Cardinality(before) + Cardinality(lost)
      <3>1. Cardinality(before \cup lost)
               = Cardinality(before) + Cardinality(lost) - Cardinality(before \cap lost)
        BY <1>3, <1>4, FS_Union
      <3>2. Cardinality(before \cap lost) = 0
        BY <2>1, FS_EmptySet
      <3>3. QED
        BY <1>1, <1>3, <1>4, <3>1, <3>2
    <2>3. Cardinality(before \cup lost) <= Cardinality(after)
      BY <1>4, <2>1, FS_Subset
    <2>4. QED
      BY <1>1, <1>3, <1>4, <2>2, <2>3
  <1>7. Cardinality(Unread) <= Cardinality(before)
    BY DEF PaidFor, before
  <1>8. PaidFor(s)' <=> Cardinality(Unread') <= Cardinality(after)
    BY DEF PaidFor, after
  <1>9. QED
    BY <1>1, <1>3, <1>4, <1>5, <1>6, <1>7, <1>8

\* Steps that move no message.
LEMMA LogsKept ==
  ASSUME LogsInv, UpdateTypes',
         UNCHANGED <<log_message_queue, logged, pulled_log_queue, evicted, printed>>,
         Announced', Pulled', \A r : Opened(r) => Opened(r)'
  PROVE  LogsInv'
  <1>1. Gone' = Gone /\ Unread' = Unread /\ InLine'
    BY DEF LogsInv, Gone, Unread, InLine
  <1>2. \A r : PaidFor(r) => PaidFor(r)'
    BY <1>1 DEF PaidFor
  <1>3. QED
    BY <1>1, <1>2 DEF LogsInv

LEMMA LogMessageKeepsLogs ==
  ASSUME LogsInv, UpdateTypes', LogMessage
  PROVE  LogsInv'
  <1>1. /\ TypeOK /\ QueuesFit /\ QueuesFit' /\ InLine /\ Announced /\ Pulled
    BY DEF LogsInv, UpdateTypes
  <1>2. PICK r \in 0 .. Gone : PaidFor(r) /\ Opened(r)
    BY DEF LogsInv
  <1>3. /\ logged \in Nat /\ log_message_queue \in Seq(1 .. logged)
        /\ Len(log_message_queue) \in Nat /\ status.logs \in Nat
        /\ Len(log_message_queue) <= LogDepth
    <2>1. /\ logged \in Nat /\ log_message_queue \in Seq(1 .. logged)
          /\ Len(log_message_queue) \in 0 .. LogDepth /\ status.logs \in 0 .. LogDepth
      BY <1>1, QueuesAre
    <2>2. LogDepth \in Nat
      BY ConstantsAre
    <2>. QED
      BY <2>1, <2>2
  <1>4. /\ logged' = logged + 1 /\ UNCHANGED <<boot, rpc, rp2040, printed>>
    BY DEF LogMessage
  <1>5. UNCHANGED <<call, answer, pc, status, held, pulled_log_queue>>
    BY <1>4 DEF rpc, rp2040
  <1>6. /\ Gone \in Int /\ logged = Gone + Len(log_message_queue)
        /\ \A m : m \in Items(log_message_queue) <=> m \in Gone + 1 .. logged
    BY <1>1, QueueHolds
  <1>7. \A i \in 1 .. Len(log_message_queue) : log_message_queue[i] = Gone + i
    <2>1. DOMAIN log_message_queue = 1 .. Len(log_message_queue)
      BY <1>3
    <2>2. QED
      BY <1>1, <2>1 DEF InLine
  <1>8. CASE Len(log_message_queue) < LogDepth
    <2>1. log_message_queue' = Append(log_message_queue, logged + 1) /\ evicted' = evicted
      BY <1>4, <1>8 DEF LogMessage
    <2>2. /\ log_message_queue' \in Seq(1 .. logged + 1)
          /\ Len(log_message_queue') = Len(log_message_queue) + 1
          /\ \A i \in 1 .. Len(log_message_queue) : log_message_queue'[i] = log_message_queue[i]
          /\ log_message_queue'[Len(log_message_queue) + 1] = logged + 1
          /\ Items(log_message_queue') = Items(log_message_queue) \cup {logged + 1}
      BY <1>3, <2>1, NextAppended
    <2>3. Gone' = Gone
      BY <1>3, <1>4, <2>2 DEF Gone
    <2>4. InLine'
      <3>1. DOMAIN log_message_queue' = 1 .. Len(log_message_queue) + 1
        BY <2>2
      <3>2. \A i \in 1 .. Len(log_message_queue) + 1 : log_message_queue'[i] = Gone + i
        <4>1. \A i \in 1 .. Len(log_message_queue) : log_message_queue'[i] = Gone + i
          BY <1>7, <2>2
        <4>2. log_message_queue'[Len(log_message_queue) + 1] = Gone + (Len(log_message_queue) + 1)
          BY <1>3, <1>6, <2>2
        <4>3. \A i \in 1 .. Len(log_message_queue) + 1 :
                 i \in 1 .. Len(log_message_queue) \/ i = Len(log_message_queue) + 1
          BY <1>3
        <4>4. QED
          BY <4>1, <4>2, <4>3
      <3>3. QED
        BY <2>3, <3>1, <3>2 DEF InLine
    <2>5. Unread' \subseteq Unread
      <3>1. \A m \in 1 .. logged + 1 : m \in 1 .. logged \/ m = logged + 1
        BY <1>3
      <3>2. QED
        BY <1>4, <1>5, <2>1, <2>2, <3>1 DEF Unread
    <2>6. PaidFor(r)'
      BY <1>1, <1>2, <2>1, <2>5, StillPaidFor
    <2>7. Opened(r)'
      BY <1>2, <1>4, <1>5, <2>1, <2>3 DEF Opened, Answered, Window
    <2>8. Announced'
      <3>1. \A n : n <= Len(log_message_queue) /\ n \in Nat => n <= Len(log_message_queue')
        BY <1>3, <2>2
      <3>2. pc = "status" /\ Answered => answer.logs \in Nat
        BY DEF LogsInv, UpdateTypes, AnswerFits, Statuses
      <3>3. QED
        BY <1>1, <1>3, <1>4, <1>5, <3>1, <3>2 DEF Announced, Answered
    <2>9. Pulled'
      BY <1>1, <1>4, <1>5, <2>1 DEF Pulled, Answered
    <2>10. QED
      BY <1>2, <2>3, <2>4, <2>6, <2>7, <2>8, <2>9 DEF LogsInv
  <1>9. CASE ~(Len(log_message_queue) < LogDepth)
    <2> DEFINE rest == Tail(log_message_queue)
    <2>1. log_message_queue # <<>>
      BY <1>9, ConstantsAre
    <2>2. /\ log_message_queue' = Append(rest, logged + 1)
          /\ evicted' = evicted \cup {Head(log_message_queue)}
      BY <1>4, <1>9 DEF LogMessage
    <2>3. /\ rest \in Seq(1 .. logged) /\ Len(rest) = Len(log_message_queue) - 1
          /\ Head(log_message_queue) = log_message_queue[1] /\ Len(rest) \in Nat
          /\ \A i \in 1 .. Len(log_message_queue) - 1 : rest[i] = log_message_queue[i + 1]
          /\ Items(log_message_queue) = Items(rest) \cup {Head(log_message_queue)}
      BY <1>3, <2>1, WithoutHead
    <2> HIDE DEF rest
    <2>4. /\ log_message_queue' \in Seq(1 .. logged + 1)
          /\ Len(log_message_queue') = Len(log_message_queue)
          /\ \A i \in 1 .. Len(rest) : log_message_queue'[i] = rest[i]
          /\ log_message_queue'[Len(log_message_queue)] = logged + 1
          /\ Items(log_message_queue') = Items(rest) \cup {logged + 1}
      <3>1. /\ Append(rest, logged + 1) \in Seq(1 .. logged + 1)
            /\ Len(Append(rest, logged + 1)) = Len(rest) + 1
            /\ \A i \in 1 .. Len(rest) : Append(rest, logged + 1)[i] = rest[i]
            /\ Append(rest, logged + 1)[Len(rest) + 1] = logged + 1
            /\ Items(Append(rest, logged + 1)) = Items(rest) \cup {logged + 1}
        BY <1>3, <2>3, NextAppended
      <3>2. Len(rest) + 1 = Len(log_message_queue)
        BY <1>3, <2>3
      <3>3. QED
        BY <2>2, <3>1, <3>2
    <2>5. Gone' = Gone + 1 /\ Head(log_message_queue) = Gone + 1 /\ r <= Gone /\ r \in Nat /\ Gone \in Nat
      <3>1. Gone' = Gone + 1 /\ 1 \in 1 .. Len(log_message_queue)
        BY <1>3, <1>4, <1>6, <2>3, <2>4 DEF Gone
      <3>2. Head(log_message_queue) = Gone + 1
        BY <1>7, <2>3, <3>1
      <3>3. QED
        BY <1>2, <1>6, <3>1, <3>2
    <2>6. InLine'
      <3>1. DOMAIN log_message_queue' = 1 .. Len(log_message_queue)
        BY <2>4
      <3>2. \A i \in 1 .. Len(rest) : log_message_queue'[i] = Gone + 1 + i
        <4>1. TAKE i \in 1 .. Len(rest)
        <4>2. i + 1 \in 1 .. Len(log_message_queue) /\ i \in 1 .. Len(log_message_queue) - 1
          BY <1>3, <2>3
        <4>3. rest[i] = log_message_queue[i + 1] /\ log_message_queue[i + 1] = Gone + (i + 1)
          BY <1>7, <2>3, <4>2
        <4>4. QED
          BY <1>6, <2>4, <4>2, <4>3
      <3>3. log_message_queue'[Len(log_message_queue)] = Gone + 1 + Len(log_message_queue)
        BY <1>3, <1>6, <2>4
      <3>4. \A i \in 1 .. Len(log_message_queue) : i \in 1 .. Len(rest) \/ i = Len(log_message_queue)
        BY <1>3, <2>3
      <3>5. \A i \in 1 .. Len(log_message_queue) : log_message_queue'[i] = Gone + 1 + i
        BY <3>2, <3>3, <3>4
      <3>6. QED
        BY <2>5, <3>1, <3>5 DEF InLine
    <2>7. Unread' \subseteq Unread
      <3>1. \A m \in 1 .. logged + 1 : m \in 1 .. logged \/ m = logged + 1
        BY <1>3
      <3>2. QED
        BY <1>4, <1>5, <2>2, <2>3, <2>4, <3>1 DEF Unread
    <2>8. PaidFor(r)'
      BY <1>1, <1>2, <2>2, <2>7, StillPaidFor
    <2>9. Opened(r)'
      <3>1. \A m \in r + 1 .. Gone + 1 : m \in r + 1 .. Gone \/ m = Gone + 1
        BY <2>5
      <3>2. \A seq : Window(seq, r) =>
               /\ Len(seq) = status'.logs /\ seq # <<>> /\ (\A i \in DOMAIN seq : seq[i] = r + i)
               /\ r + 1 .. Gone' \subseteq evicted'
        BY <1>5, <2>2, <2>5, <3>1 DEF Window
      <3>3. QED
        BY <1>2, <1>4, <1>5, <3>2 DEF Opened, Answered, Window
    <2>10. Announced'
      BY <1>1, <1>4, <1>5, <2>4 DEF Announced, Answered
    <2>11. Pulled'
      BY <1>1, <1>4, <1>5, <2>2 DEF Pulled, Answered
    <2>12. r \in 0 .. Gone'
      BY <2>5
    <2>13. QED
      BY <2>6, <2>8, <2>9, <2>10, <2>11, <2>12 DEF LogsInv
  <1>10. QED
    BY <1>8, <1>9

LEMMA RestartKeepsLogs ==
  ASSUME LogsInv, UpdateTypes', Restart
  PROVE  LogsInv'
  <1>1. /\ TypeOK /\ QueuesFit /\ QueuesFit' /\ InLine /\ Announced /\ Pulled
    BY DEF LogsInv, UpdateTypes
  <1>2. PICK r \in 0 .. Gone : PaidFor(r) /\ Opened(r)
    BY DEF LogsInv
  <1>3. /\ boot' = "off" /\ log_message_queue' = <<>> /\ UNCHANGED <<rpc, rp2040, logged, evicted>>
        /\ printed' = printed \cup Items(log_message_queue)
    BY DEF Restart
  <1>4. UNCHANGED <<call, answer, pc, status, held, pulled_log_queue>>
    BY <1>3 DEF rpc, rp2040
  <1>5. Unread' \subseteq Unread
    BY <1>3, <1>4 DEF Unread
  <1>6. PaidFor(r)'
    BY <1>1, <1>2, <1>3, <1>5, StillPaidFor
  <1>7. r \in 0 .. Gone'
    <2>1. /\ logged \in Nat /\ Len(log_message_queue) \in Nat /\ Gone \in Int
          /\ logged = Gone + Len(log_message_queue)
      BY <1>1, QueuesAre, QueueHolds
    <2>2. Gone' = logged
      BY <1>3, <2>1 DEF Gone
    <2>3. QED
      BY <2>1, <2>2
  <1>8. InLine' /\ Announced' /\ Opened(r)'
    BY <1>3 DEF InLine, Announced, Opened
  <1>9. Pulled'
    BY <1>1, <1>3, <1>4 DEF Pulled, Answered
  <1>10. QED
    BY <1>6, <1>7, <1>8, <1>9 DEF LogsInv

LEMMA ReadKeepsLogs ==
  ASSUME LogsInv, UpdateTypes', SPITask, GetLogMessages, ~RepliesLost
  PROVE  LogsInv'
  <1>1. /\ TypeOK /\ QueuesFit /\ QueuesFit' /\ InLine /\ Announced /\ Pulled /\ CallFits
    BY DEF LogsInv, UpdateTypes
  <1>2. PICK r \in 0 .. Gone : PaidFor(r) /\ Opened(r)
    BY DEF LogsInv
  <1>3. /\ call # None /\ boot # "off" /\ boot' = boot /\ answer \in {None, Refused} /\ call' = call
        /\ UNCHANGED <<log_message_queue, logged, pc, status, held, pulled_log_queue, evicted, printed>>
        /\ answer' = Front(log_message_queue, call.num_items)
    BY DEF SPITask, GetLogMessages, Remote!Execute, Up, esp32, dictionary, rp2040, history, inputs
  <1>4. pc = "log_read" /\ call.num_items = status.logs /\ status.logs > 0 /\ held = <<>>
    BY <1>1, <1>3, CallsMade DEF GetLogMessages, Pulled
  <1>5. /\ logged \in Nat /\ log_message_queue \in Seq(1 .. logged) /\ Len(log_message_queue) \in Nat
        /\ status.logs \in Nat /\ status.logs <= Len(log_message_queue)
    BY <1>1, <1>3, <1>4, QueuesAre, ConstantsAre DEF Announced
  <1>6. Gone \in Nat /\ r \in Nat /\ r <= Gone
    <2>1. Gone \in Int
      BY <1>1, QueueHolds
    <2>2. QED
      BY <1>2, <2>1
  <1>7. /\ Len(answer') = status.logs /\ answer' # <<>>
        /\ \A i \in DOMAIN answer' : answer'[i] = Gone + i
    <2>1. /\ answer' \in Seq(1 .. logged) /\ Len(answer') = SmallerOf(status.logs, Len(log_message_queue))
          /\ \A i \in 1 .. Len(answer') : answer'[i] = log_message_queue[i]
      BY <1>3, <1>4, <1>5, FrontIs
    <2>2. Len(answer') = status.logs
      BY <1>5, <2>1 DEF SmallerOf
    <2>3. DOMAIN answer' = 1 .. status.logs /\ answer' # <<>>
      BY <1>4, <1>5, <2>1, <2>2
    <2>4. \A i \in 1 .. status.logs : i \in DOMAIN log_message_queue
      BY <1>5
    <2>5. QED
      BY <1>1, <2>1, <2>2, <2>3, <2>4 DEF InLine
  <1>8. Gone' = Gone /\ Unread' = Unread /\ InLine'
    BY <1>1, <1>3 DEF Gone, Unread, InLine
  <1>9. PaidFor(r)' /\ \A s : s = Gone => PaidFor(s)'
    <2>1. evicted \cap (1 .. r) \subseteq evicted' \cap (1 .. Gone)
      BY <1>3, <1>6
    <2>2. \A s : s = Gone => PaidFor(s)'
      BY <1>1, <1>2, <1>8, <2>1, StillPaidFor
    <2>3. PaidFor(r)'
      BY <1>1, <1>2, <1>3, <1>8, StillPaidFor
    <2>4. QED
      BY <2>2, <2>3
  <1>10. PICK s : s = Gone
    OBVIOUS
  <1>11. Opened(s)'
    <2>1. Gone + 1 .. Gone = {}
      BY <1>6
    <2>2. Window(answer, s)'
      BY <1>3, <1>7, <1>8, <1>10, <2>1 DEF Window
    <2>3. QED
      BY <1>3, <1>4, <2>2 DEF Opened
  <1>12. Announced'
    BY <1>1, <1>3, <1>4 DEF Announced
  <1>13. Pulled'
    BY <1>1, <1>3, <1>4, <1>7 DEF Pulled
  <1>14. s \in 0 .. Gone'
    BY <1>6, <1>8, <1>10
  <1>15. QED
    BY <1>8, <1>9, <1>10, <1>11, <1>12, <1>13, <1>14 DEF LogsInv

LEMMA RollKeepsLogs ==
  ASSUME LogsInv, UpdateTypes', SPITask, SetRollLogs, ~RepliesLost
  PROVE  LogsInv'
  <1>1. /\ TypeOK /\ QueuesFit /\ QueuesFit' /\ InLine /\ Announced /\ Pulled /\ CallFits
    BY DEF LogsInv, UpdateTypes
  <1>2. PICK r \in 0 .. Gone : PaidFor(r) /\ Opened(r)
    BY DEF LogsInv
  <1>3. /\ call # None /\ boot # "off" /\ answer \in {None, Refused} /\ call' = call
        /\ UNCHANGED <<logged, pc, status, held, pulled_log_queue, evicted, printed>>
        /\ answer' = TRUE
        /\ log_message_queue' = Discard(log_message_queue, call.num_items)
    BY DEF SPITask, SetRollLogs, Remote!Execute, Up, esp32, dictionary, rp2040, history, inputs
  <1>4. /\ pc = "logs_rolled" /\ call.num_items = Len(held) /\ ~Answered /\ Window(held, r)
    BY <1>1, <1>2, <1>3, CallsMade DEF SetRollLogs, Opened, Answered
  <1> DEFINE n == Len(held)
  <1>5. /\ logged \in Nat /\ log_message_queue \in Seq(1 .. logged) /\ Len(log_message_queue) \in Nat
        /\ n \in Nat /\ n = status.logs /\ n <= Len(log_message_queue) /\ held \in Seq(Nat)
    BY <1>1, <1>3, <1>4, QueuesAre DEF Announced, Window
  <1> HIDE DEF n
  <1>6. /\ Gone \in Nat /\ r \in Nat /\ r <= Gone /\ logged = Gone + Len(log_message_queue)
        /\ \A m : m \in Items(log_message_queue) <=> m \in Gone + 1 .. logged
    <2>1. /\ Gone \in Int /\ logged = Gone + Len(log_message_queue)
          /\ \A m : m \in Items(log_message_queue) <=> m \in Gone + 1 .. logged
      BY <1>1, QueueHolds
    <2>2. QED
      BY <1>2, <2>1
  <1>7. r + 1 .. r + n \subseteq UNION {Items(pulled_log_queue), evicted, printed}
    <2>1. \A m \in r + 1 .. r + n : m \in Items(held)
      <3>1. TAKE m \in r + 1 .. r + n
      <3>2. m - r \in 1 .. n /\ r + (m - r) = m
        BY <1>5, <1>6
      <3>3. DOMAIN held = 1 .. n
        BY <1>5 DEF n
      <3>4. held[m - r] = m
        BY <1>4, <3>2, <3>3 DEF Window
      <3>5. QED
        BY <1>5, <3>2, <3>4, ItemsOf DEF n
    <2>2. Items(held) \subseteq UNION {Items(pulled_log_queue), evicted, printed}
      BY <1>1, <1>4 DEF Pulled
    <2>3. QED
      BY <2>1, <2>2
  <1>8. /\ log_message_queue' \in Seq(1 .. logged)
        /\ Len(log_message_queue') = Len(log_message_queue) - n
        /\ \A i \in 1 .. Len(log_message_queue) - n : log_message_queue'[i] = log_message_queue[i + n]
    <2>1. log_message_queue' = Discard(log_message_queue, n)
      BY <1>3, <1>4 DEF n
    <2>2. /\ Discard(log_message_queue, n) \in Seq(1 .. logged)
          /\ Len(Discard(log_message_queue, n)) = Len(log_message_queue) - n
          /\ \A i \in 1 .. Len(log_message_queue) - n :
                Discard(log_message_queue, n)[i] = log_message_queue[i + n]
      <3>1. log_message_queue \in Seq(1 .. logged) /\ n \in Nat /\ n <= Len(log_message_queue)
        BY <1>5
      <3>2. QED
        BY <3>1, DiscardIs, Zenon
    <2>3. QED
      BY <2>1, <2>2
  <1>9. Gone' = Gone + n
    BY <1>3, <1>5, <1>6, <1>8 DEF Gone
  <1>10. InLine'
    <2>1. DOMAIN log_message_queue' = 1 .. Len(log_message_queue) - n
      BY <1>5, <1>8
    <2>2. \A i \in 1 .. Len(log_message_queue) - n : i + n \in DOMAIN log_message_queue
      BY <1>5
    <2>3. \A i \in 1 .. Len(log_message_queue) - n : log_message_queue'[i] = Gone + (i + n)
      BY <1>1, <1>8, <2>2 DEF InLine
    <2>4. \A i \in 1 .. Len(log_message_queue) - n : Gone + (i + n) = Gone + n + i
      BY <1>5, <1>6
    <2>5. QED
      BY <1>9, <2>1, <2>3, <2>4 DEF InLine
  <1>11. Items(log_message_queue') = Gone + n + 1 .. logged
    <2>1. /\ (Gone + n) + Len(log_message_queue') = logged /\ Len(log_message_queue') \in Nat
          /\ Gone \in Nat /\ n \in Nat /\ logged \in Nat
      BY <1>5, <1>6, <1>8
    <2>2. \A i \in 1 .. Len(log_message_queue') : log_message_queue'[i] = Gone + n + i
      <3>1. DOMAIN log_message_queue' = 1 .. Len(log_message_queue')
        BY <1>8
      <3>2. QED
        BY <1>9, <1>10, <3>1 DEF InLine
    <2>3. ASSUME NEW m \in Items(log_message_queue') PROVE m \in Gone + n + 1 .. logged
      <3>1. PICK i \in 1 .. Len(log_message_queue') : m = log_message_queue'[i]
        BY <1>8, ItemsOf
      <3>2. m = Gone + n + i
        BY <2>2, <3>1
      <3>3. QED
        BY <2>1, <3>2
    <2>4. ASSUME NEW m \in Gone + n + 1 .. logged PROVE m \in Items(log_message_queue')
      <3>1. m - (Gone + n) \in 1 .. Len(log_message_queue') /\ Gone + n + (m - (Gone + n)) = m
        BY <2>1
      <3>2. log_message_queue'[m - (Gone + n)] = m
        BY <2>2, <3>1
      <3>3. QED
        BY <1>8, <3>1, <3>2, ItemsOf
    <2>5. QED
      BY <2>3, <2>4
  <1>12. PICK s : s = Gone + n
    OBVIOUS
  <1>13. PaidFor(s)'
    <2>1. r + 1 .. Gone \subseteq evicted
      BY <1>4 DEF Window
    <2>2. QED
      BY <1>1, <1>2, <1>3, <1>5, <1>7, <1>11, <1>12, <2>1, RollPaidFor
  <1>14. Answered'
    BY <1>3, UpdateAssumption DEF Answered
  <1>15. Opened(s)' /\ Announced' /\ Pulled'
    BY <1>1, <1>3, <1>4, <1>14 DEF Opened, Announced, Pulled
  <1>16. s \in 0 .. Gone'
    BY <1>5, <1>6, <1>9, <1>12
  <1>17. QED
    BY <1>10, <1>13, <1>15, <1>16 DEF LogsInv

LEMMA CoprocessorKeepsLogs ==
  ASSUME LogsInv, UpdateTypes', SPITask, ~RepliesLost
  PROVE  LogsInv'
  <1>1. CASE \/ GetDeviceStatus \/ GetConsole \/ SetRollConsole \/ GetSCCommandRequest
             \/ SetRollRequests \/ SetSettings \/ SetDeviceStatus
    <2>1. /\ call # None /\ CallFits /\ Announced /\ Pulled
          /\ boot # "off" /\ call' = call
          /\ UNCHANGED <<log_message_queue, logged, pc, status, held, pulled_log_queue, evicted, printed>>
      BY <1>1 DEF LogsInv, UpdateTypes, SPITask, Up, GetDeviceStatus, GetConsole, SetRollConsole,
             GetSCCommandRequest, SetRollRequests, SetSettings, SetDeviceStatus, Remote!Execute,
             esp32, dictionary, rp2040, history, inputs
    <2>2. pc \notin {"log_read", "logs_rolled", "roll_logs"}
      BY <1>1, <2>1, CallsMade DEF GetDeviceStatus, GetConsole, SetRollConsole,
             GetSCCommandRequest, SetRollRequests, SetSettings, SetDeviceStatus, Calls
    <2>3. pc = "status" => answer'.logs = Len(log_message_queue)
      <3>1. pc = "status" => GetDeviceStatus
        BY <1>1, <2>1, CallsMade DEF GetConsole, SetRollConsole, GetSCCommandRequest,
               SetRollRequests, SetSettings, SetDeviceStatus
      <3>2. \A n : DeviceStatus(n).logs = Len(log_message_queue)
        BY DEF DeviceStatus
      <3>3. QED
        BY <3>1, <3>2 DEF GetDeviceStatus, Remote!Execute
    <2>4. Announced'
      <3>1. Len(log_message_queue) \in Nat
        BY QueuesAre DEF LogsInv, UpdateTypes
      <3>2. QED
        BY <2>1, <2>2, <2>3, <3>1 DEF Announced
    <2>5. Pulled'
      BY <2>1, <2>2 DEF Pulled
    <2>6. \A r : Opened(r)'
      BY <2>1, <2>2 DEF Opened
    <2>7. QED
      BY <2>1, <2>4, <2>5, <2>6, LogsKept
  <1>2. QED
    BY <1>1, ReadKeepsLogs, RollKeepsLogs DEF SPITask

\* A read of the log messages brings all of them, where a chunk has room for a
\* full queue.
LEMMA MainLoopKeepsLogs ==
  ASSUME LogsInv, UpdateTypes', MainLoop, LogChunk >= LogDepth
  PROVE  LogsInv'
  <1>1. /\ TypeOK /\ QueuesFit /\ CallFits /\ Announced /\ Pulled
        /\ UNCHANGED <<log_message_queue, logged, boot, evicted, printed, status, pulled_log_queue>>
    BY DEF LogsInv, UpdateTypes, MainLoop, BeginUpdate, BeginConsoleRead, RollConsole,
           ReadStatusAgain, BeginWriteStatus, BeginRequest, ExecuteSCCommandRequest, RollRequests,
           BeginLogs, NoLogs, RollLogs, BeginRoll, Invoke, esp32, dictionary, history, inputs
  <1>2. /\ pc \notin {"status", "logs_rolled"}
        /\ pc = "idle" => pc' = "status" /\ answer' = None
        /\ pc' = "status" => pc = "idle"
        /\ pc' # "logs"
    BY <1>1 DEF Pulled, MainLoop, BeginUpdate, BeginConsoleRead, RollConsole,
           ReadStatusAgain, BeginWriteStatus, BeginRequest, ExecuteSCCommandRequest, RollRequests,
           BeginLogs, NoLogs, RollLogs, BeginRoll, Invoke, Remote!Invoke
  <1>3. \/ pc' \notin {"log_read", "roll_logs", "logs_rolled"}
        \/ BeginLogs
        \/ pc' = "logs_rolled" /\ pc = "roll_logs" /\ held' = held /\ answer' = None
    BY DEF MainLoop, BeginUpdate, BeginConsoleRead, RollConsole, ReadStatusAgain,
           BeginWriteStatus, BeginRequest, ExecuteSCCommandRequest, RollRequests, NoLogs, RollLogs,
           BeginRoll, Invoke, Remote!Invoke
  <1>4. Announced'
    BY <1>1, <1>2 DEF Announced, Answered
  <1>5. CASE BeginLogs
    <2>1. pc = "requests" /\ status.logs > 0 /\ pc' = "log_read" /\ held' = <<>> /\ answer' = None
          /\ call' = Read("LogMessages", SmallerOf(status.logs, LogChunk))
      <3>1. pc = "requests"
        BY <1>1, <1>5 DEF BeginLogs, Pulled
      <3>2. status.logs \in Nat /\ status.logs - 0 = status.logs
        BY <1>1, QueuesAre
      <3>3. /\ status.logs - 0 > 0 /\ pc' = "log_read" /\ held' = <<>> /\ answer' = None
            /\ call' = Read("LogMessages", SmallerOf(status.logs - 0, LogChunk))
        BY <1>5, <3>1 DEF BeginLogs, Invoke, Remote!Invoke
      <3>4. QED
        BY <3>1, <3>2, <3>3
    <2>2. /\ status.logs \in Nat /\ status.logs <= LogDepth /\ LogDepth \in Nat /\ LogChunk \in Nat
      BY <1>1, QueuesAre, ConstantsAre
    <2>3. SmallerOf(status.logs, LogChunk) = status.logs
      BY <2>2 DEF SmallerOf
    <2>4. call'.num_items = status.logs
      BY <2>1, <2>3 DEF Read
    <2>5. Pulled'
      BY <1>1, <2>1, <2>4 DEF Pulled, Answered
    <2>6. \A r : Opened(r)'
      BY <2>1 DEF Opened, Answered
    <2>7. QED
      BY <1>1, <1>4, <2>5, <2>6, LogsKept
  <1>6. CASE pc' \notin {"log_read", "roll_logs", "logs_rolled"}
    <2>1. Pulled' /\ \A r : Opened(r)'
      BY <1>2, <1>6 DEF Pulled, Opened
    <2>2. QED
      BY <1>1, <1>4, <2>1, LogsKept
  <1>7. CASE pc' = "logs_rolled" /\ pc = "roll_logs" /\ held' = held /\ answer' = None
    <2>1. Pulled'
      BY <1>1, <1>7 DEF Pulled
    <2>2. \A r : Opened(r) => Opened(r)'
      BY <1>1, <1>7 DEF Opened, Window, Gone
    <2>3. QED
      BY <1>1, <1>4, <2>1, <2>2, LogsKept
  <1>8. QED
    BY <1>3, <1>5, <1>6, <1>7

LEMMA ReturnsKeepLogs ==
  ASSUME LogsInv, UpdateTypes', CallReturned
  PROVE  LogsInv'
  <1>1. /\ TypeOK /\ QueuesFit /\ QueuesFit' /\ AnswerFits /\ InLine /\ Announced /\ Pulled
        /\ Answered /\ UNCHANGED <<log_message_queue, logged, boot, answer>> /\ call' = None
    BY DEF LogsInv, UpdateTypes, CallReturned, Remote!Succeed, Answered, esp32, dictionary, inputs
  <1>2. CASE StatusRead
    <2>1. /\ pc' = "console" /\ UNCHANGED <<held, pulled_log_queue, printed, evicted>>
          /\ pc \in {"status", "status_reread"}
      BY <1>2 DEF StatusRead
    <2>2. /\ pc = "status" => status'.logs = answer.logs
          /\ pc = "status_reread" => status'.logs = status.logs
      BY <1>1, <1>2 DEF StatusRead, QueuesFit, Statuses
    <2>3. Announced' /\ Pulled' /\ \A r : Opened(r)'
      BY <1>1, <2>1, <2>2 DEF Announced, Pulled, Opened
    <2>4. QED
      BY <1>1, <2>1, <2>3, LogsKept
  <1>3. CASE ConsoleRead \/ ConsoleRolled \/ StatusWritten \/ RequestStep
    <2>1. /\ UNCHANGED <<status, pulled_log_queue, printed, evicted>>
          /\ pc \notin {"idle", "status", "logs_rolled"}
          /\ pc' \notin {"log_read", "logs", "roll_logs", "logs_rolled", "status"}
      BY <1>3 DEF ConsoleRead, ConsoleRolled, StatusWritten, RequestStep
    <2>2. Announced' /\ Pulled' /\ \A r : Opened(r)'
      BY <1>1, <2>1 DEF Announced, Pulled, Opened
    <2>3. QED
      BY <1>1, <2>1, <2>2, LogsKept
  <1>4. CASE LogsRead
    <2>1. PICK r \in 0 .. Gone : PaidFor(r) /\ Opened(r)
      BY DEF LogsInv
    <2>2. /\ pc = "log_read" /\ held = <<>> /\ held' = held \o answer
          /\ UNCHANGED <<status, printed>> /\ Len(answer) = status.logs
          /\ answer \in Seq(1 .. logged) /\ status.logs \in Nat
      BY <1>1, <1>4, QueuesAre DEF LogsRead, Pulled, AnswerFits
    <2>3. held' = answer
      BY <2>2
    <2>4. ~(Len(held') < status.logs)
      BY <2>2, <2>3
    <2> DEFINE all == pulled_log_queue \o held'
    <2>5. /\ pc' = "roll_logs"
          /\ evicted' = evicted \cup (Items(all) \ Items(pulled_log_queue'))
      BY <1>4, <2>2, <2>4 DEF LogsRead
    <2>6. Items(all) = Items(pulled_log_queue) \cup Items(held')
      <3>1. pulled_log_queue \in Seq(1 .. logged) /\ held' \in Seq(1 .. logged)
        BY <1>1, <2>2, <2>3, QueuesAre
      <3>2. QED
        BY <3>1, Concatenated
    <2> HIDE DEF all
    <2>7. Unread' \subseteq Unread
      BY <1>1, <2>2, <2>5, <2>6 DEF Unread
    <2>8. PaidFor(r)'
      <3>1. evicted \cap (1 .. r) \subseteq evicted' \cap (1 .. r)
        BY <2>5
      <3>2. QED
        BY <1>1, <2>1, <2>7, <3>1, StillPaidFor
    <2>9. Gone' = Gone /\ InLine'
      BY <1>1 DEF Gone, InLine
    <2>10. Opened(r)'
      <3>1. boot # "off" => Window(answer, r)
        BY <1>1, <2>1, <2>2 DEF Opened
      <3>2. boot # "off" => Window(held, r)'
        BY <2>2, <2>3, <2>5, <2>9, <3>1 DEF Window
      <3>3. QED
        BY <1>1, <2>5, <3>2 DEF Opened
    <2>11. Announced' /\ Pulled'
      BY <1>1, <2>2, <2>5, <2>6 DEF Announced, Pulled
    <2>12. QED
      BY <2>1, <2>8, <2>9, <2>10, <2>11 DEF LogsInv
  <1>5. CASE LogsRolled
    <2>1. PICK r \in 0 .. Gone : PaidFor(r) /\ Opened(r)
      BY DEF LogsInv
    <2>2. /\ printed' = printed \cup Items(pulled_log_queue) /\ pc' = "idle" /\ evicted' = evicted
      BY <1>5 DEF LogsRolled
    <2>3. Unread' \subseteq Unread
      BY <1>1, <2>2 DEF Unread
    <2>4. PaidFor(r)'
      BY <1>1, <2>1, <2>2, <2>3, StillPaidFor
    <2>5. Gone' = Gone /\ InLine'
      BY <1>1 DEF Gone, InLine
    <2>6. Opened(r)' /\ Announced' /\ Pulled'
      BY <2>2 DEF Opened, Announced, Pulled
    <2>7. QED
      BY <2>1, <2>4, <2>5, <2>6 DEF LogsInv
  <1>6. QED
    BY <1>2, <1>3, <1>4, <1>5 DEF CallReturned

LEMMA OtherStepsKeepLogs ==
  ASSUME LogsInv, UpdateTypes',
         \/ NetworkConsoleMessageReceived \/ RequestSettings \/ Retry \/ CallFailed \/ ParseConsole
         \/ UNCHANGED vars
  PROVE  LogsInv'
  <1>1. Announced /\ Pulled
    BY DEF LogsInv
  <1>2. UNCHANGED <<log_message_queue, logged, pulled_log_queue, evicted, printed, status, held, answer>>
    BY DEF NetworkConsoleMessageReceived, RequestSettings, Retry, Remote!Miss, CallFailed,
           Remote!Fail, ParseConsole, vars, rpc, esp32, dictionary, rp2040, history, inputs
  <1>3. CASE CallFailed
    <2>1. pc' = "idle"
      BY <1>3 DEF CallFailed
    <2>2. Announced' /\ Pulled' /\ \A r : Opened(r)'
      BY <2>1 DEF Announced, Pulled, Opened
    <2>3. QED
      BY <1>2, <2>2, LogsKept
  <1>4. CASE \/ NetworkConsoleMessageReceived \/ RequestSettings \/ Retry \/ ParseConsole
             \/ UNCHANGED vars
    <2>1. /\ pc' = pc /\ call' = call /\ (boot' # "off" => boot # "off")
      BY <1>4 DEF NetworkConsoleMessageReceived, RequestSettings, Retry, Remote!Miss, ParseConsole,
             vars, rpc, esp32, rp2040
    <2>2. Announced' /\ Pulled' /\ \A r : Opened(r) => Opened(r)'
      BY <1>1, <1>2, <2>1 DEF Announced, Pulled, Opened, Answered, Window, Gone
    <2>3. QED
      BY <1>2, <2>2, LogsKept
  <1>5. QED
    BY <1>3, <1>4

\* Of the log messages that left the ESP32's queue without having been read there
\* are never more than were overwritten in a full queue.
THEOREM MessagesRead ==
  ASSUME ~RepliesLost, LogChunk >= LogDepth
  PROVE  Spec => []LogsReadBeforeRolled
  <1>1. Init => LogsInv
    <2>1. ASSUME Init PROVE LogsInv
      <3>1. /\ logged = 0 /\ log_message_queue = <<>> /\ pc = "idle" /\ evicted = {}
        BY <2>1 DEF Init
      <3>2. UpdateTypes
        BY <2>1, InitTypes
      <3>3. InLine /\ Announced /\ Pulled /\ Opened(0)
        BY <3>1 DEF InLine, Announced, Pulled, Opened
      <3>4. Gone = 0
        <4>1. Len(<<>>) = 0 /\ 0 - 0 = 0
          OBVIOUS
        <4>2. Gone = 0 - Len(<<>>)
          BY <3>1, Zenon DEF Gone
        <4>3. QED
          BY <4>1, <4>2, Zenon
      <3>5. PaidFor(0)
        <4>1. Unread = {} /\ evicted \cap (1 .. 0) = {}
          BY <3>1 DEF Unread
        <4>2. QED
          BY <4>1, FS_EmptySet DEF PaidFor
      <3>6. 0 \in 0 .. Gone
        BY <3>4
      <3>7. QED
        BY <3>2, <3>3, <3>5, <3>6 DEF LogsInv
    <2>2. QED
      BY <2>1
  <1>2. LogsInv /\ [Next]_vars => LogsInv'
    <2>1. LogsInv => UpdateTypes
      BY DEF LogsInv
    <2>2. QED
      BY <2>1, StepKeepsTypes, LogMessageKeepsLogs, RestartKeepsLogs, CoprocessorKeepsLogs,
         MainLoopKeepsLogs, ReturnsKeepLogs, OtherStepsKeepLogs DEF Next
  <1>3. LogsInv => LogsReadBeforeRolled
    <2>1. ASSUME LogsInv PROVE LogsReadBeforeRolled
      <3>1. PICK r \in 0 .. Gone : PaidFor(r)
        BY <2>1 DEF LogsInv
      <3>2. logged \in Nat /\ evicted \subseteq 1 .. logged /\ Unread \subseteq 1 .. logged
        BY <2>1, QueuesAre DEF LogsInv, UpdateTypes, QueuesFit, Unread
      <3>3. /\ Cardinality(Unread) \in Nat /\ Cardinality(evicted) \in Nat
            /\ Cardinality(evicted \cap (1 .. r)) \in Nat
            /\ Cardinality(evicted \cap (1 .. r)) <= Cardinality(evicted)
        BY <3>2, NumbersFinite
      <3>4. Cardinality(Unread) <= Cardinality(evicted)
        BY <3>1, <3>3 DEF PaidFor
      <3>5. QED
        BY <3>4 DEF LogsReadBeforeRolled, Unread
    <2>2. QED
      BY <2>1
  <1>4. QED
    BY <1>1, <1>2, <1>3, PTL DEF Spec
=============================================================================
