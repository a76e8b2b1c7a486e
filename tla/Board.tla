------------------------------- MODULE Board -------------------------------
(***************************************************************************)
(* The RP2040's flash partitions, its settings and its supervision of the  *)
(* ESP32, as they meet in a board: an image that starts loads the settings *)
(* another image may have stored, applies them, checks and flashes the     *)
(* ESP32 with the firmware it carries and then runs its loop, in which the *)
(* console's commands are carried out one at a time.  Power may fail       *)
(* between any two steps; the watchdog resets the board.                   *)
(***************************************************************************)
EXTENDS FirmwareUpdate, SettingsStore, Supervision

CONSTANTS
    Layout,                \* image -> version of its settings
    WatchdogOn             \* the configs with a watchdog timeout

ASSUME BoardAssumption ==
    /\ Layout \in [Images -> Versions]
    /\ Firmwares = Images
    /\ WatchdogOn \subseteq Configs

boardVars == <<firmwareVars, storeVars, supervisionVars>>

Armed == config \in WatchdogOn

\* The console waits for a command to be over, and so does the loop.
Idle == phase = "main" /\ command = NoCommand /\ StoreIdle

-----------------------------------------------------------------------------
(* From reset to the main loop.                                            *)

BootFromReset ==
    /\ phase = "off"
    /\ BootloaderBoots
    /\ IF executing' \in Partitions THEN StartMain ELSE UNCHANGED supervisionVars
    /\ UNCHANGED storeVars

\* The other image starts as after a reset; what the first kept in RAM is gone.
JumpToOther ==
    /\ Jump
    /\ StartMain
    /\ ResetStore

LoadAtStart ==
    /\ phase = "load"
    /\ Load(Layout[ran])
    /\ phase' = "apply"
    /\ UNCHANGED <<firmwareVars, esp, tries, silence, unpoked, faults>>

LoadFailsAtStart ==
    /\ phase = "load"
    /\ LoadFails(Layout[ran])
    /\ Fault
    /\ phase' = "apply"
    /\ UNCHANGED <<firmwareVars, esp, tries, silence, unpoked>>

\* FlashUnsafe enables the watchdog anew.
StoreSettings ==
    /\ phase \in {"apply", "main"}
    /\ WriteSettings
    /\ unpoked' = IF hasEEPROM /\ writing # "copy" THEN unpoked ELSE 0
    /\ UNCHANGED <<firmwareVars, phase, esp, tries, silence, faults>>

StoreFails ==
    /\ WriteFails
    /\ Fault
    /\ UNCHANGED <<firmwareVars, phase, esp, tries, silence, unpoked>>

ApplyAtStart ==
    /\ ApplySettings
    /\ ApplyToESP32(settings.network.esp32_enabled)
    /\ UNCHANGED firmwareVars

CheckESP32 ==
    /\ ReadVersion(ran) \/ FlashAtStart(ran)
    /\ UNCHANGED <<firmwareVars, storeVars>>

-----------------------------------------------------------------------------
(* The main loop.                                                          *)

Loop ==
    /\ Idle
    /\ Tick(Armed)
    /\ UNCHANGED <<firmwareVars, storeVars>>

CarryOut ==
    /\ phase = "main" /\ StoreIdle
    /\ OTACommand
    /\ unpoked' = 0
    /\ UNCHANGED <<storeVars, phase, esp, tries, silence, faults>>

Upload ==
    /\ (phase = "main" /\ StoreIdle /\ (Proceed \/ Retry)) \/ Abandon
    /\ UNCHANGED <<storeVars, supervisionVars>>

\* Bounded like the changes of the settings.
Operated ==
    /\ Idle
    /\ Edit
    /\ Operator \/ StartUpload
    /\ UNCHANGED <<hasEEPROM, storage, settings, config, saved, cut, supervisionVars>>

SettingsCommand ==
    /\ Idle
    /\ \/ \E n \in Networks : ChangeNetwork(n)
       \/ \E c \in Configs : ChangeConfig(c)
       \/ Save(esp.enabled)
       \/ ResetSettings(Layout[ran])
       \/ Load(Layout[ran])
    /\ UNCHANGED <<firmwareVars, supervisionVars>>

ESP32Command ==
    /\ Idle
    /\ \/ \E enabled \in BOOLEAN : EnableESP32(enabled)
       \/ FlashCommand(ran)
    /\ UNCHANGED <<firmwareVars, storeVars>>

-----------------------------------------------------------------------------
(* The ESP32, and resets.                                                  *)

ESP32Step ==
    /\ ESP32Boots \/ ESP32Hangs
    /\ UNCHANGED <<firmwareVars, storeVars>>

Reset == ResetFirmware /\ ResetStore /\ ResetSupervision

PowerLoss == Fault /\ Reset

WatchdogReset ==
    /\ Idle
    /\ Expired(Armed)
    /\ Reset
    /\ UNCHANGED faults

-----------------------------------------------------------------------------

BoardInit == FirmwareInit /\ StoreInit /\ SupervisionInit

Startup == BootFromReset \/ JumpToOther \/ LoadAtStart \/ ApplyAtStart \/ CheckESP32

\* What the RP2040 does by itself, one step after the other.
RP2040 == Startup \/ StoreSettings \/ Loop \/ CarryOut \/ WatchdogReset

BoardNext ==
    \/ RP2040
    \/ LoadFailsAtStart \/ StoreFails
    \/ Upload \/ Operated \/ SettingsCommand \/ ESP32Command
    \/ ESP32Step
    \/ PowerLoss

BoardSpec == BoardInit /\ [][BoardNext]_boardVars

\* The RP2040 keeps running, and an ESP32 that works comes up; the user, the
\* uploader and the faults need never act.
FairBoardSpec ==
    /\ BoardSpec
    /\ WF_boardVars(RP2040)
    /\ WF_boardVars(ESP32Boots /\ UNCHANGED <<firmwareVars, storeVars>>)

-----------------------------------------------------------------------------

BoardTypeOK == FirmwareTypeOK /\ StoreTypeOK /\ SupervisionTypeOK

\* What Load makes of the settings when nothing goes wrong.
Loads == phase = "load" /\ phase' = "apply" /\ faults' = faults

\* Whatever image stored them, and whichever power failures and failed writes
\* came in between, network settings whose write was not cut short are the ones
\* the next image runs with, unless its layout differs and their CRC is wrong.
NetworkSettingsKept ==
    [][Loads /\ ~cut /\ (stored.version = Layout[ran] \/ stored.network.sealed)
          => settings'.network.value \in saved]_boardVars

\* settings.hh says that the network settings should remain unchanged through
\* most firmware updates: with no write cut short an image runs with those that
\* were saved, whatever its layout.
NetworkSettingsSurviveUpdates ==
    [][Loads /\ ~cut => settings'.network.value \in saved]_boardVars

\* When main() goes into its loop after an update, with the ESP32 up and no
\* flashing failed, the ESP32 runs the firmware of the image that runs now.
ESP32MatchesImage ==
    [][phase = "version" /\ phase' = "main" => esp'.firmware = ran]_boardVars

\* Whatever hangs, fails or loses power, the board comes back to its loop with
\* an ESP32 that answers or is switched off, unless the watchdog is off.
BoardRecovers ==
    \/ []<>(phase = "main" /\ Heard)
    \/ <>[](phase = "main" /\ ~Armed)
=============================================================================
