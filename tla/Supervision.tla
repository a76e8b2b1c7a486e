---------------------------- MODULE Supervision ----------------------------
(***************************************************************************)
(* How the RP2040 starts and keeps its ESP32 alive: main() up to its loop, *)
(* with the check of the ESP32's firmware and its flashing, then the       *)
(* heartbeats, the power cycle of an ESP32 that went silent, the watchdog, *)
(* and the AT commands that switch the ESP32 or flash it.                  *)
(*                                                                         *)
(* Every image of the RP2040 carries one firmware of the ESP32, with its   *)
(* number; v is the running image's.  A tick is a second of the main loop. *)
(* The ESP32 may hang, and may be left without a firmware that works by a  *)
(* flashing that fails; with one it comes up within BootTime.              *)
(***************************************************************************)
EXTENDS Naturals

CONSTANTS
    Firmwares,             \* firmware versions of the ESP32
    NoFirmware,            \* nothing the ESP32 can run
    MaxTries,              \* kESP32BootupTimeoutMs / kESP32BootupCommsRetryMs
    CommsLost,             \* kESP32CommsLostTimeoutMs, in ticks
    WatchdogTimeout,       \* watchdog_timeout_sec_, in ticks
    BootTime,              \* ticks an ESP32 takes to boot
    MaxFaults              \* bound: hangs, failed flashings and losses of power

ASSUME SupervisionAssumption ==
    /\ NoFirmware \notin Firmwares
    /\ MaxTries \in Nat \ {0}
    /\ CommsLost \in Nat /\ WatchdogTimeout \in Nat
    /\ BootTime \in Nat /\ BootTime < CommsLost /\ BootTime < WatchdogTimeout
    /\ MaxFaults \in Nat

VARIABLES
    phase,                 \* where main() is, "off" before it
    esp,                   \* the ESP32, its enable pin and its firmware
    tries,                 \* reads of its version that failed
    silence,               \* ticks since esp32_last_successful_comms_ms
    unpoked,               \* ticks since the watchdog was poked or enabled
    faults                 \* number of faults so far

supervisionVars == <<phase, esp, tries, silence, unpoked, faults>>

Phases == {"off", "load", "apply", "version", "flash", "main"}

On(firmware) == [enabled |-> TRUE, state |-> "booting", age |-> 0, firmware |-> firmware]
Off(firmware) == [enabled |-> FALSE, state |-> "off", age |-> 0, firmware |-> firmware]

Fault == faults < MaxFaults /\ faults' = faults + 1

-----------------------------------------------------------------------------
(* The ESP32.                                                              *)

Works == esp.firmware \in Firmwares

ESP32Boots ==
    /\ esp.state = "booting" /\ Works
    /\ esp' = [esp EXCEPT !.state = "up", !.age = 0]
    /\ UNCHANGED <<phase, tries, silence, unpoked, faults>>

ESP32Hangs ==
    /\ esp.state \in {"booting", "up"}
    /\ Fault
    /\ esp' = [esp EXCEPT !.state = "hung", !.age = 0]
    /\ UNCHANGED <<phase, tries, silence, unpoked>>

\* FlashESP32 reports success whatever became of it, so that Init follows: the
\* new firmware, the old one if no connection was made, or neither.
FlashAndInit(v) ==
    \/ /\ esp' = On(v)
       /\ UNCHANGED faults
    \/ /\ Fault
       /\ \E f \in {esp.firmware, NoFirmware} : esp' = On(f)

-----------------------------------------------------------------------------
(* main() before its loop.                                                 *)

StartMain ==
    /\ phase' = "load"
    /\ esp' = Off(esp.firmware)
    /\ tries' = 0 /\ silence' = 0 /\ unpoked' = 0
    /\ UNCHANGED faults

\* settings_manager.Apply(), as far as the ESP32 goes.
ApplyToESP32(enabled) ==
    /\ phase = "apply"
    /\ esp' = IF enabled THEN On(esp.firmware) ELSE Off(esp.firmware)
    /\ phase' = IF enabled THEN "version" ELSE "main"
    /\ UNCHANGED <<tries, silence, unpoked, faults>>

\* Mutant: an ESP32 that answers is left alone, whatever its version.
ReadVersionIgnored(v) ==
    /\ phase = "version"
    /\ \/ /\ esp.state = "up"
          /\ phase' = "main"
          /\ UNCHANGED tries
       \/ /\ tries' = tries + 1
          /\ phase' = IF tries' = MaxTries THEN "flash" ELSE phase
    /\ UNCHANGED <<esp, silence, unpoked, faults>>

\* The version is read, or cannot be read this time.
ReadVersion(v) ==
    /\ phase = "version"
    /\ \/ /\ esp.state = "up"
          /\ phase' = IF esp.firmware = v THEN "main" ELSE "flash"
          /\ UNCHANGED tries
       \/ /\ tries' = tries + 1
          /\ phase' = IF tries' = MaxTries THEN "flash" ELSE phase
    /\ UNCHANGED <<esp, silence, unpoked, faults>>

FlashAtStart(v) ==
    /\ phase = "flash"
    /\ FlashAndInit(v)
    /\ phase' = "main"
    /\ UNCHANGED <<tries, silence, unpoked>>

-----------------------------------------------------------------------------
(* The main loop.                                                          *)

Heard == esp.state = "up" \/ ~esp.enabled

Expired(armed) == armed /\ unpoked >= WatchdogTimeout

\* Mutant: the watchdog is poked as soon as the ESP32 has been power cycled.
TickPokesAfterCycle(armed) ==
    /\ phase = "main" /\ ~Expired(armed)
    /\ esp.state = "booting" /\ Works => esp.age < BootTime
    /\ IF Heard
       THEN silence' = 0 /\ unpoked' = 0 /\ UNCHANGED esp
       ELSE IF silence = CommsLost
       THEN silence' = 0 /\ unpoked' = 0 /\ esp' = On(esp.firmware)
       ELSE /\ silence' = silence + 1
            /\ unpoked' = IF armed THEN unpoked + 1 ELSE 0
            /\ esp' = IF esp.state = "booting" /\ Works THEN [esp EXCEPT !.age = @ + 1] ELSE esp
    /\ UNCHANGED <<phase, tries, faults>>

\* Mutant: time is lost by one second before the power cycle.
TickCyclesLate(armed) ==
    /\ phase = "main" /\ ~Expired(armed)
    /\ esp.state = "booting" /\ Works => esp.age < BootTime
    /\ IF Heard
       THEN silence' = 0 /\ unpoked' = 0 /\ UNCHANGED esp
       ELSE /\ unpoked' = IF armed THEN unpoked + 1 ELSE 0
            /\ IF silence > CommsLost
               THEN silence' = 0 /\ esp' = On(esp.firmware)
               ELSE silence' = silence + 1 /\ UNCHANGED esp
    /\ UNCHANGED <<phase, tries, faults>>

\* A heartbeat, or nothing to wait for: the watchdog is poked.  Else the ESP32
\* is power cycled in the end, and has a few seconds before the watchdog bites.
Tick(armed) ==
    /\ phase = "main" /\ ~Expired(armed)
    /\ esp.state = "booting" /\ Works => esp.age < BootTime
    /\ IF Heard
       THEN silence' = 0 /\ unpoked' = 0 /\ UNCHANGED esp
       ELSE /\ unpoked' = IF armed THEN unpoked + 1 ELSE 0
            /\ IF silence = CommsLost
               THEN silence' = 0 /\ esp' = On(esp.firmware)
               ELSE /\ silence' = silence + 1
                    /\ esp' = IF esp.state = "booting" /\ Works THEN [esp EXCEPT !.age = @ + 1] ELSE esp
    /\ UNCHANGED <<phase, tries, faults>>

\* AT+ESP32_ENABLE.
EnableESP32(enabled) ==
    /\ phase = "main"
    /\ esp.enabled # enabled
    /\ esp' = IF enabled THEN On(esp.firmware) ELSE Off(esp.firmware)
    /\ UNCHANGED <<phase, tries, silence, unpoked, faults>>

\* AT+ESP32_FLASH takes longer than CommsLost; the watchdog is enabled anew.
FlashCommand(v) ==
    /\ phase = "main"
    /\ FlashAndInit(v)
    /\ silence' = CommsLost
    /\ unpoked' = 0
    /\ UNCHANGED <<phase, tries>>

\* A reset takes the enable pin's level away; it may come while the ESP32 is
\* being flashed.
ResetSupervision ==
    /\ phase' = "off"
    /\ \E f \in IF phase = "flash" THEN {esp.firmware, NoFirmware} ELSE {esp.firmware} : esp' = Off(f)
    /\ tries' = 0 /\ silence' = 0 /\ unpoked' = 0

SupervisionInit ==
    /\ phase = "off"
    /\ esp = Off(NoFirmware)
    /\ tries = 0 /\ silence = 0 /\ unpoked = 0
    /\ faults = 0

ESP32s ==
    [enabled : BOOLEAN, state : {"off", "booting", "up", "hung"}, age : 0 .. BootTime,
     firmware : Firmwares \cup {NoFirmware}]

SupervisionTypeOK ==
    /\ phase \in Phases
    /\ esp \in ESP32s
    /\ tries \in 0 .. MaxTries
    /\ silence \in 0 .. CommsLost
    /\ unpoked \in 0 .. WatchdogTimeout
    /\ faults \in 0 .. MaxFaults
=============================================================================
