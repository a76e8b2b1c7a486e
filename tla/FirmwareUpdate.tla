--------------------------- MODULE FirmwareUpdate ---------------------------
(***************************************************************************)
(* The two firmware partitions of the RP2040, the bootloader that chooses  *)
(* between them, and an update over the air: the commands of AT+OTA and    *)
(* the uploader that issues them, which may lose a command, its data or    *)
(* its answer, give up and start again with another image at any time.     *)
(*                                                                         *)
(* A partition is a header sector and sectors of code.  Images are numbered *)
(* in the order they are uploaded; an image is whole when every sector     *)
(* holds it, which is what its CRC tells.  Programming flash only clears   *)
(* bits: of the status words each is what remains of the one before it in  *)
(* Blank, Valid, Stale, Invalid, and a Stale cut short lies between.  Power *)
(* may fail at any moment and leave the sector that is being erased or     *)
(* programmed half done.                                                   *)
(***************************************************************************)
EXTENDS Naturals

CONSTANTS
    NumSectors,            \* sectors of code in a partition
    MaxImages,             \* bound: images ever offered, the factory's included
    MaxRetries             \* MAX_RETRIES of the uploader

ASSUME FirmwareAssumption ==
    /\ NumSectors \in Nat \ {0}
    /\ MaxImages \in Nat \ {0}
    /\ MaxRetries \in Nat \ {0}

VARIABLES
    header,                \* partition -> [image, status]
    app,                   \* partition -> sector -> image it holds
    executing,             \* the partition that runs, Bootloader or SOS
    command,               \* the AT+OTA command being carried out
    reply,                 \* its answer, until the uploader takes notice
    upload,                \* where the uploader is
    offered,               \* the newest image offered so far
    ran                    \* history: the image that was started last

flash == <<header, app>>
firmwareVars == <<flash, executing, command, reply, upload, offered, ran>>

Partitions == {0, 1}
Bootloader == 2
SOS == 3                   \* curl_up_and_die
Sectors == 1 .. NumSectors
Images == 1 .. MaxImages
Erased == 0
Garbled == MaxImages + 1
Contents == Images \cup {Erased, Garbled}

Other(p) == 1 - p
Running == executing \in Partitions
\* GetComplementaryFlashPartition.
Target == Other(executing)

Whole(p) == header[p].image \in Images /\ \A s \in Sectors : app[p][s] = header[p].image

-----------------------------------------------------------------------------
(* Flash.                                                                  *)

Rank == [Blank |-> 0, Valid |-> 1, HalfStale |-> 2, Stale |-> 3, Invalid |-> 4]
Statuses == DOMAIN Rank \cup {"Torn"}

\* What a status word is after another is programmed over it.
Programmed(old, new) ==
    IF old = "Torn" THEN {"Torn", new}
    ELSE IF Rank[old] < Rank[new] THEN {new} ELSE {old}

\* Mutant: any status word can be written over any other.
WriteHeaderStatusWordFreely(p, status) ==
    header' = [header EXCEPT ![p].status = status]

\* The header is copied and programmed back with another status.
WriteHeaderStatusWord(p, status) ==
    \E w \in Programmed(header[p].status, status) :
        header' = [header EXCEPT ![p].status = w]

SetSector(p, s, c, status) ==
    IF s = 0
    THEN header' = [header EXCEPT ![p] = [image |-> c, status |-> status]] /\ UNCHANGED app
    ELSE app' = [app EXCEPT ![p][s] = c] /\ UNCHANGED header

SectorContent(p, s) == IF s = 0 THEN header[p].image ELSE app[p][s]

\* The offered image, where the sector was erased before; the header of an
\* image comes with a blank status.
PartialWriteFlashPartition(p, s) ==
    IF SectorContent(p, s) = Erased
    THEN SetSector(p, s, offered, IF s = 0 THEN header[p].status ELSE "Blank")
    ELSE SetSector(p, s, Garbled, "Torn")

-----------------------------------------------------------------------------
(* The commands.                                                           *)

NoCommand == [op |-> "none", at |-> 0, last |-> 0]
Order(op, first, last) == [op |-> op, at |-> first, last |-> last]

Bootable(p) == header[p].image # Erased /\ header[p].status \in {"Valid", "Stale"}

Answer(a) == command' = NoCommand /\ reply' = a

\* Mutant: the header goes last.
EraseDescending ==
    /\ Running /\ command.op = "erase"
    /\ SetSector(Target, command.last, Erased, "Blank")
    /\ IF command.at = command.last
       THEN Answer("OK")
       ELSE command' = [command EXCEPT !.last = @ - 1] /\ UNCHANGED reply
    /\ UNCHANGED <<executing, upload, offered, ran>>

\* EraseFlashParition, one call of flash_range_erase.
Erase ==
    /\ Running /\ command.op = "erase"
    /\ SetSector(Target, command.at, Erased, "Blank")
    /\ IF command.at = command.last
       THEN Answer("OK")
       ELSE command' = [command EXCEPT !.at = @ + 1] /\ UNCHANGED reply
    /\ UNCHANGED <<executing, upload, offered, ran>>

\* The data arrive, agree with the CRC of the command and are programmed, and
\* what is read back agrees with it too.
Write ==
    /\ Running /\ command.op = "write"
    /\ PartialWriteFlashPartition(Target, command.at)
    /\ Answer(IF SectorContent(Target, command.at) = Erased THEN "OK" ELSE "ERROR")
    /\ UNCHANGED <<executing, upload, offered, ran>>

\* A command is swallowed by the one before it, or its data do not arrive in
\* time or not as they were sent.
Refuse ==
    /\ Running /\ command.op \in {"erase", "write", "verify"}
    /\ command.op = "erase" => command.at = upload.sector
    /\ upload.stage # "none"
    /\ Answer("ERROR")
    /\ UNCHANGED <<flash, executing, upload, offered, ran>>

\* VerifyFlashPartition: length, CRC, stack pointer and reset vector.
Verify ==
    /\ Running /\ command.op = "verify"
    /\ WriteHeaderStatusWord(Target, IF Whole(Target) THEN "Valid" ELSE "Invalid")
    /\ Answer(IF Whole(Target) THEN "OK" ELSE "ERROR")
    /\ UNCHANGED <<app, executing, upload, offered, ran>>

\* BootPartition up to the jump; it returns when the target cannot be booted.
MarkStale ==
    /\ Running /\ command.op = "boot"
    /\ IF Bootable(Target)
       THEN /\ WriteHeaderStatusWord(executing, "Stale")
            /\ command' = Order("jump", 0, 0)
            /\ UNCHANGED reply
       ELSE Answer("OK") /\ UNCHANGED header
    /\ UNCHANGED <<app, executing, upload, offered, ran>>

Quiet == command' = NoCommand /\ reply' = "none" /\ upload' = [stage |-> "none", sector |-> 0, tries |-> 0]

\* JumpToVTOR: the other image starts.
Jump ==
    /\ Running /\ command.op = "jump"
    /\ executing' = Target
    /\ ran' = header[Target].image
    /\ Quiet
    /\ UNCHANGED <<flash, offered>>

-----------------------------------------------------------------------------
(* The uploader.                                                           *)

Issue(stage, op, first, last, tries) ==
    /\ upload' = [stage |-> stage, sector |-> first, tries |-> tries]
    /\ command' = Order(op, first, last)
    /\ reply' = "none"

StartUpload ==
    /\ Running /\ command = NoCommand /\ upload.stage = "none"
    /\ offered < MaxImages
    /\ offered' = offered + 1
    /\ Issue("erase", "erase", 0, NumSectors, 0)
    /\ UNCHANGED <<flash, executing, ran>>

\* The next command after an OK: the header, the code, VERIFY, BOOT.
Proceed ==
    /\ command = NoCommand /\ reply = "OK"
    /\ \/ upload.stage = "erase" /\ Issue("write", "write", 0, 0, 0)
       \/ upload.stage = "erase again" /\ Issue("write", "write", upload.sector, upload.sector, upload.tries)
       \/ /\ upload.stage = "write" /\ upload.sector < NumSectors
          /\ Issue("write", "write", upload.sector + 1, upload.sector + 1, 0)
       \/ upload.stage = "write" /\ upload.sector = NumSectors /\ Issue("verify", "verify", 0, 0, 0)
       \/ upload.stage = "verify" /\ Issue("boot", "boot", 0, 0, 0)
       \/ upload.stage \in {"boot", "none"} /\ Quiet
    /\ UNCHANGED <<flash, executing, offered, ran>>

\* An ERROR, or no answer in time: code is erased and written again a few
\* times, anything else ends the upload.
Retry ==
    /\ command = NoCommand /\ reply # "none"
    /\ IF upload.stage \in {"write", "erase again"} /\ upload.sector > 0 /\ upload.tries + 1 < MaxRetries
       THEN Issue("erase again", "erase", upload.sector, upload.sector, upload.tries + 1)
       ELSE Quiet
    /\ UNCHANGED <<flash, executing, offered, ran>>

\* Somebody else at the console verifies the other partition or boots it.
Operate(op) ==
    /\ Running /\ command = NoCommand /\ upload.stage = "none"
    /\ command' = Order(op, 0, 0)
    /\ reply' = "none"
    /\ UNCHANGED <<flash, executing, upload, offered, ran>>

\* The uploader goes away; the command it sent is carried out all the same.
Abandon ==
    /\ upload.stage # "none"
    /\ upload' = [stage |-> "none", sector |-> 0, tries |-> 0]
    /\ reply' = "none"
    /\ UNCHANGED <<flash, executing, command, offered, ran>>

-----------------------------------------------------------------------------
(* The bootloader.                                                         *)

\* The first valid partition, else the first stale one.
Boots(p) ==
    /\ Bootable(p)
    /\ \A q \in Partitions \ {p} :
          Bootable(q) =>
             \/ Rank[header[p].status] < Rank[header[q].status]
             \/ header[p].status = header[q].status /\ p < q

BootloaderBoots ==
    /\ executing = Bootloader
    /\ IF \E p \in Partitions : Boots(p)
       THEN \E p \in Partitions :
               Boots(p) /\ executing' = p /\ ran' = header[p].image
       ELSE executing' = SOS /\ UNCHANGED ran
    /\ UNCHANGED <<flash, command, reply, upload, offered>>

\* What a loss of power leaves of the sector at work.
HalfDone ==
    \/ UNCHANGED flash
    \/ /\ Running /\ command.op = "erase"
       /\ \E c \in {Erased, Garbled} :
             SetSector(Target, command.at, c, IF c = Erased THEN "Blank" ELSE "Torn")
    \/ /\ Running /\ command.op = "write"
       /\ \/ PartialWriteFlashPartition(Target, command.at)
          \/ SetSector(Target, command.at, Garbled, "Torn")
    \/ /\ Running /\ command.op = "verify"
       /\ \/ WriteHeaderStatusWord(Target, IF Whole(Target) THEN "Valid" ELSE "Invalid")
          \/ header' = [header EXCEPT ![Target].status = IF @ = "Blank" THEN "Torn" ELSE @]
       /\ UNCHANGED app
    \/ /\ Running /\ command.op = "boot" /\ Bootable(Target)
       /\ \/ WriteHeaderStatusWord(executing, "Stale")
          \/ header' = [header EXCEPT ![executing].status = IF @ = "Valid" THEN "HalfStale" ELSE @]
       /\ UNCHANGED app

ResetFirmware ==
    /\ HalfDone
    /\ executing' = Bootloader
    /\ Quiet
    /\ UNCHANGED <<offered, ran>>

-----------------------------------------------------------------------------

FirmwareInit ==
    /\ header = [p \in Partitions |-> IF p = 0 THEN [image |-> 1, status |-> "Valid"]
                                               ELSE [image |-> Erased, status |-> "Blank"]]
    /\ app = [p \in Partitions |-> [s \in Sectors |-> IF p = 0 THEN 1 ELSE Erased]]
    /\ executing = Bootloader
    /\ command = NoCommand
    /\ reply = "none"
    /\ upload = [stage |-> "none", sector |-> 0, tries |-> 0]
    /\ offered = 1
    /\ ran = 1

\* What the console does in the main loop of the running image.
OTACommand == Erase \/ Write \/ Refuse \/ Verify \/ MarkStale
Uploader == StartUpload \/ Proceed \/ Retry \/ Abandon
Operator == \E op \in {"verify", "boot"} : Operate(op)
Starts == Jump \/ BootloaderBoots

FirmwareNext == OTACommand \/ Uploader \/ Operator \/ Starts \/ ResetFirmware

FirmwareSpec == FirmwareInit /\ [][FirmwareNext]_firmwareVars

-----------------------------------------------------------------------------

Headers == [image : Contents, status : Statuses]
Commands ==
    [op : {"none", "erase", "write", "verify", "boot", "jump"}, at : 0 .. NumSectors, last : 0 .. NumSectors]
Uploads ==
    [stage : {"none", "erase", "erase again", "write", "verify", "boot"},
     sector : 0 .. NumSectors, tries : 0 .. MaxRetries]

FirmwareTypeOK ==
    /\ header \in [Partitions -> Headers]
    /\ app \in [Partitions -> [Sectors -> Contents]]
    /\ executing \in Partitions \cup {Bootloader, SOS}
    /\ command \in Commands
    /\ reply \in {"none", "OK", "ERROR"}
    /\ upload \in Uploads
    /\ offered \in Images
    /\ ran \in Images

\* Whatever step of an update power fails at, and whatever was verified and
\* booted before, the bootloader finds a partition to boot, the one it chooses
\* holds a whole image, and so does the one that runs.
AlwaysBootable ==
    /\ \E p \in Partitions : Boots(p) /\ Whole(p)
    /\ Running => Whole(executing)

\* A reset does not take the board back to an image older than the one that was
\* running, unless it had been told to boot the other one or earlier BOOTs have
\* left both stale: whatever was verified and torn before, the bootloader's
\* preference and the order of the status words see to it.
NeverRunsOlder ==
    [][Running /\ executing' = Bootloader /\ command.op \notin {"boot", "jump"}
          /\ (\E p \in Partitions : header[p].status = "Valid")
          => \A p \in Partitions : Boots(p)' => header'[p].image >= ran]_firmwareVars
=============================================================================
