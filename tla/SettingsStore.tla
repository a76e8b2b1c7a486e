--------------------------- MODULE SettingsStore ---------------------------
(***************************************************************************)
(* The settings of the RP2040 and where they are kept: in an EEPROM that   *)
(* is written page by page, or in a sector of flash that has to be erased  *)
(* first.  Stored settings have three parts, in the order they are         *)
(* written: the version of their layout, the core network settings with a  *)
(* CRC of their own, and the rest, whose layout depends on the version.    *)
(* Power may fail between any two pages.                                   *)
(***************************************************************************)
EXTENDS Naturals

CONSTANTS
    Networks,              \* core network settings a user may choose
    DefaultNetwork,
    Configs,               \* everything else a user may choose
    DefaultConfig,
    Versions,              \* layout versions (kSettingsVersion)
    NoSetting,             \* what an erased or torn part holds
    MaxEdits               \* bound: how often the user changes or saves something

ASSUME StoreAssumption ==
    /\ DefaultNetwork \in Networks /\ DefaultConfig \in Configs
    /\ NoSetting \notin Networks \cup Configs \cup Versions
    /\ MaxEdits \in Nat

VARIABLES
    hasEEPROM,             \* bsp.has_eeprom
    stored,                \* what the EEPROM, or the sector without one, holds
    settings,              \* settings_manager.settings
    config,                \* what the receiver and the interfaces run with
    writing,               \* what is being written: "none", "stored", "stored
                           \* first", for the copy to follow, or "copy"
    part,                  \* the next part of it
    saved,                 \* history: network settings a save may have left
    cut,                   \* history: a write that put them at risk was cut short
    edits                  \* number of changes and saves so far

storage == <<stored, writing, part>>
storeVars == <<hasEEPROM, storage, settings, config, saved, cut, edits>>

\* Core network settings, with the ESP32's enable flag, and whether their CRC
\* agrees with them.
Network(n, enabled, sealed) == [value |-> n, esp32_enabled |-> enabled, sealed |-> sealed]
NoNetwork == Network(NoSetting, TRUE, FALSE)
Rest(v, c) == [layout |-> v, config |-> c]
Blank == [version |-> NoSetting, network |-> NoNetwork, rest |-> Rest(NoSetting, NoSetting)]
Defaults(v) ==
    [version |-> v, network |-> Network(DefaultNetwork, TRUE, FALSE), rest |-> Rest(v, DefaultConfig)]

Parts == <<"version", "network", "rest">>
NumParts == 3

StoreIdle == writing = "none"

-----------------------------------------------------------------------------
(* Writing.                                                                *)

\* The EEPROM is overwritten in place, a sector is erased first.
Begin(where) ==
    /\ writing' = where
    /\ part' = 1
    /\ stored' = IF hasEEPROM THEN stored ELSE Blank
    /\ saved' = saved \cup {settings'.network.value}

WritePart(where) ==
    LET p == Parts[part] IN
    IF where = "copy"
    THEN UNCHANGED <<stored, saved>>
    ELSE /\ stored' = [stored EXCEPT ![p] = settings[p]]
         /\ saved' = IF part = NumParts THEN {settings.network.value} ELSE saved

\* One part after the other.  When Load has written the EEPROM, its else branch
\* erases and programs the flash as well, which nothing reads.
WriteSettings ==
    /\ ~StoreIdle
    /\ WritePart(writing)
    /\ IF part < NumParts
       THEN part' = part + 1 /\ UNCHANGED writing
       ELSE /\ part' = 1
            /\ writing' = IF writing = "stored first" /\ hasEEPROM THEN "copy" ELSE "none"
    /\ UNCHANGED <<hasEEPROM, settings, config, cut, edits>>

\* The network settings are at risk while a sector is rewritten, or the EEPROM
\* with others.
AtRisk ==
    /\ writing \in {"stored", "stored first"}
    /\ ~hasEEPROM \/ settings.network # stored.network

\* What a write that stops leaves of the part at work, which takes more than
\* one page.
HalfWritten ==
    \/ UNCHANGED stored
    \/ /\ writing \in {"stored", "stored first"} /\ Parts[part] = "network"
       /\ settings.network # stored.network
       /\ \E enabled \in BOOLEAN :
             stored' = [stored EXCEPT !.network = Network(NoSetting, enabled, FALSE)]

StopWriting ==
    /\ HalfWritten
    /\ writing' = "none"
    /\ part' = 1
    /\ cut' = (cut \/ AtRisk)

\* The EEPROM does not acknowledge: nothing more is written.
WriteFails ==
    /\ writing \in {"stored", "stored first"} /\ hasEEPROM
    /\ StopWriting
    /\ UNCHANGED <<hasEEPROM, settings, config, saved, edits>>

-----------------------------------------------------------------------------
(* SettingsManager.                                                        *)

\* Mutant: the network settings go the way of the others.
LoadForgetsNetwork(v) ==
    /\ StoreIdle
    /\ IF stored.version = v
       THEN settings' = stored /\ UNCHANGED <<storage, saved>>
       ELSE settings' = Defaults(v) /\ Begin("stored first")
    /\ UNCHANGED <<hasEEPROM, config, cut, edits>>

\* Settings of another version are replaced by the defaults, all but network
\* settings whose CRC is right, and written back.
Load(v) ==
    /\ StoreIdle
    /\ IF stored.version = v
       THEN settings' = stored /\ UNCHANGED <<storage, saved>>
       ELSE /\ settings' = IF stored.network.sealed
                           THEN [Defaults(v) EXCEPT !.network = stored.network]
                           ELSE Defaults(v)
            /\ Begin("stored first")
    /\ UNCHANGED <<hasEEPROM, config, cut, edits>>

\* The EEPROM cannot be read.  Before the first load settings holds what it is
\* initialised with.
LoadFails(v) ==
    /\ StoreIdle /\ hasEEPROM
    /\ settings' = IF settings = Blank THEN Defaults(v) ELSE settings
    /\ UNCHANGED <<hasEEPROM, storage, config, saved, cut, edits>>

Edit ==
    /\ StoreIdle
    /\ edits < MaxEdits
    /\ edits' = edits + 1

\* AT commands change network settings in settings_manager, the others where
\* they take effect.
ChangeNetwork(n) ==
    /\ Edit
    /\ settings' = [settings EXCEPT !.network.value = n, !.network.sealed = FALSE]
    /\ UNCHANGED <<hasEEPROM, storage, config, saved, cut>>

ChangeConfig(c) ==
    /\ Edit
    /\ config' = c
    /\ UNCHANGED <<hasEEPROM, storage, settings, saved, cut>>

\* Save gathers what runs, seals the network settings and writes everything;
\* the CRC is computed before esp32_enabled is gathered.
Save(enabled) ==
    /\ Edit
    /\ settings' = [settings EXCEPT
            !.network.sealed = (settings.network.esp32_enabled = enabled),
            !.network.esp32_enabled = enabled,
            !.rest.config = config]
    /\ Begin("stored")
    /\ UNCHANGED <<hasEEPROM, config, cut>>

\* What was stored under another layout, or not at all, may come out as anything.
ApplySettings ==
    /\ StoreIdle
    /\ config' \in IF settings.rest.layout = settings.version THEN {settings.rest.config} ELSE Configs
    /\ UNCHANGED <<hasEEPROM, storage, settings, saved, cut, edits>>

\* AT+SETTINGS=RESET: ResetToDefaults and Apply.
ResetSettings(v) ==
    /\ Edit
    /\ settings' = Defaults(v)
    /\ config' = DefaultConfig
    /\ UNCHANGED <<hasEEPROM, storage, saved, cut>>

ResetStore ==
    /\ StopWriting
    /\ settings' = Blank
    /\ config' = NoSetting
    /\ UNCHANGED <<hasEEPROM, saved, edits>>

StoreInit ==
    /\ hasEEPROM \in BOOLEAN
    /\ stored = Blank
    /\ settings = Blank
    /\ config = NoSetting
    /\ writing = "none"
    /\ part = 1
    /\ saved = {DefaultNetwork}
    /\ cut = FALSE
    /\ edits = 0

NetworkRecords == [value : Networks \cup {NoSetting}, esp32_enabled : BOOLEAN, sealed : BOOLEAN]
RestRecords == [layout : Versions \cup {NoSetting}, config : Configs \cup {NoSetting}]
SettingsRecords == [version : Versions \cup {NoSetting}, network : NetworkRecords, rest : RestRecords]

StoreTypeOK ==
    /\ hasEEPROM \in BOOLEAN
    /\ stored \in SettingsRecords /\ settings \in SettingsRecords
    /\ config \in Configs \cup {NoSetting}
    /\ writing \in {"none", "stored", "stored first", "copy"}
    /\ part \in 1 .. NumParts
    /\ saved \subseteq Networks \cup {NoSetting}
    /\ cut \in BOOLEAN
    /\ edits \in 0 .. MaxEdits
=============================================================================
