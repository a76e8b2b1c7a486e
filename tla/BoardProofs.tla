----------------------------- MODULE BoardProofs -----------------------------
(***************************************************************************)
(* The flash partitions, for any size of a partition, any number of images *)
(* and retries and a loss of power at any step; then a whole board: what is*)
(* proved of its partitions alone holds of them in the board, and network  *)
(* settings are lost only where a write of them was cut short.             *)
(***************************************************************************)
EXTENDS Board, TLAPS

Sealed(p) == header[p].status \in {"Valid", "Stale"}
Fresh(p) == header[p].image \in Images /\ header[p].status \in {"Blank", "Torn"}

-----------------------------------------------------------------------------
(* The inductive invariant.                                                *)

SealedIsWhole == \A p \in Partitions : Sealed(p) => Whole(p)
SomeSealed == \E p \in Partitions : Sealed(p)

\* What runs is sealed; in the bootloader nothing is under way.
RunsSealed ==
    /\ executing # SOS
    /\ Running => Sealed(executing) /\ ran = header[executing].image
    /\ ~Running => command.op = "none" /\ upload.stage = "none"

\* No sector of code is touched under a header that can be booted.
UnsealedWhileWritten ==
    /\ Running /\ upload.stage \in {"write", "erase again"} => ~Sealed(Target)
    /\ Running /\ upload.stage = "erase" /\ reply = "OK" => ~Sealed(Target)
    /\ Running /\ command.op = "write" => ~Sealed(Target)
    /\ Running /\ command.op = "erase" /\ command.at # 0 => ~Sealed(Target)

\* The command under way is the one of the uploader's stage.
OneCommand ==
    /\ command.op = "erase" => command.at <= command.last
    /\ upload.stage \in {"erase", "erase again"} => command.op \in {"none", "erase"}
    /\ upload.stage = "write" => command.op \in {"none", "write"}
    /\ upload.stage = "verify" => command.op \in {"none", "verify"}
    /\ upload.stage = "boot" => command.op \in {"none", "boot", "jump"}

JumpsToSealed ==
    command.op = "jump" => Running /\ Sealed(Target) /\ header[executing].status = "Stale"

NoneNewer == \A p \in Partitions : header[p].image \in Images => header[p].image <= offered

\* What can still become valid is at least as new as what can be booted.
FreshIsNewer ==
    \A p, q \in Partitions : Fresh(p) /\ Sealed(q) => header[p].image >= header[q].image

\* So is what is valid and would be booted in place of what runs.
ValidIsNewer ==
    /\ Running /\ command.op # "jump"
    /\ header[Target].status = "Valid"
    /\ header[executing].status = "Stale" \/ executing = 1
    => header[Target].image >= header[executing].image

FirmwareInv ==
    /\ FirmwareTypeOK
    /\ SealedIsWhole
    /\ SomeSealed
    /\ RunsSealed
    /\ UnsealedWhileWritten
    /\ OneCommand
    /\ JumpsToSealed
    /\ NoneNewer
    /\ FreshIsNewer
    /\ ValidIsNewer

-----------------------------------------------------------------------------

LEMMA FirmwareInvInit == FirmwareInit => FirmwareInv
  <1> SUFFICES ASSUME FirmwareInit PROVE FirmwareInv
    OBVIOUS
  <1> USE FirmwareAssumption
  <1>1. FirmwareTypeOK
    BY DEF FirmwareInit, FirmwareTypeOK, Partitions, Sectors, Contents, Images, Erased, Garbled, Headers, Commands, Uploads, Statuses, Rank, Bootloader, SOS, NoCommand
  <1>2. QED
    BY <1>1 DEF FirmwareInit, FirmwareInv, SealedIsWhole, SomeSealed, RunsSealed, UnsealedWhileWritten, OneCommand,
          JumpsToSealed, NoneNewer, FreshIsNewer, ValidIsNewer, Sealed, Fresh, Whole, Partitions, Sectors, Images, Erased,
          Bootloader, SOS, Running, NoCommand

\* The parts that types are needed of.
LEMMA Types ==
  ASSUME FirmwareInv
  PROVE /\ command \in Commands /\ upload \in Uploads /\ reply \in {"none", "OK", "ERROR"}
        /\ offered \in Images /\ ran \in Images /\ offered \in Nat
        /\ upload.sector \in 0 .. NumSectors /\ upload.tries \in 0 .. MaxRetries
  <1>1. command \in Commands /\ upload \in Uploads /\ reply \in {"none", "OK", "ERROR"} /\ offered \in Images /\ ran \in Images
    BY DEF FirmwareInv, FirmwareTypeOK
  <1>2. upload.sector \in 0 .. NumSectors /\ upload.tries \in 0 .. MaxRetries
    BY <1>1 DEF Uploads
  <1>3. offered \in Nat
    BY <1>1, FirmwareAssumption DEF Images
  <1>4. QED
    BY <1>1, <1>2, <1>3

\* A step that leaves alone flash and what runs, as far as the commands go.
LEMMA OrderStep ==
  ASSUME FirmwareInv,
         header' = header, app' = app, executing' = executing, ran' = ran,
         offered' \in Images, offered' >= offered,
         command' \in Commands, upload' \in Uploads, reply' \in {"none", "OK", "ERROR"},
         OneCommand', UnsealedWhileWritten',
         command'.op = "jump" <=> command.op = "jump",
         ~Running => command'.op = "none" /\ upload'.stage = "none"
  PROVE FirmwareInv'
  <1>1. FirmwareTypeOK'
    BY DEF FirmwareInv, FirmwareTypeOK
  <1>2. (SealedIsWhole /\ SomeSealed /\ FreshIsNewer)'
    BY DEF FirmwareInv, SealedIsWhole, SomeSealed, FreshIsNewer, Sealed, Fresh, Whole
  <1>3. NoneNewer'
    BY Types, FirmwareAssumption DEF FirmwareInv, NoneNewer, Images
  <1>4. RunsSealed'
    BY DEF FirmwareInv, RunsSealed, Running, Sealed
  <1>5. JumpsToSealed'
    BY DEF FirmwareInv, JumpsToSealed, Running, Sealed, Target, Other
  <1>6. ValidIsNewer'
    BY DEF FirmwareInv, ValidIsNewer, Running, Target, Other
  <1>7. QED
    BY <1>1, <1>2, <1>3, <1>4, <1>5, <1>6 DEF FirmwareInv

\* The uploader issues a command.
LEMMA IssueInv ==
  ASSUME FirmwareInv, Running, command = NoCommand,
         header' = header, app' = app, executing' = executing, ran' = ran,
         offered' \in Images, offered' >= offered,
         NEW stage, NEW op, NEW first \in 0 .. NumSectors, NEW last \in 0 .. NumSectors, NEW again \in 0 .. MaxRetries,
         Issue(stage, op, first, last, again), first <= last,
         \/ stage = "erase" /\ op = "erase" /\ first = 0
         \/ stage = "erase again" /\ op = "erase" /\ ~Sealed(Target)
         \/ stage = "write" /\ op = "write" /\ ~Sealed(Target)
         \/ stage = "verify" /\ op = "verify"
         \/ stage = "boot" /\ op = "boot"
  PROVE FirmwareInv'
  <1>1. command' = Order(op, first, last) /\ upload' = [stage |-> stage, sector |-> first, tries |-> again] /\ reply' = "none"
    BY DEF Issue
  <1>2. command' \in Commands /\ command'.op = op /\ command'.at = first /\ command'.last = last
    BY <1>1 DEF Order, Commands
  <1>3. upload' \in Uploads /\ upload'.stage = stage
    BY <1>1 DEF Uploads
  <1>4. OneCommand'
    BY <1>2, <1>3 DEF OneCommand
  <1>5. UnsealedWhileWritten'
    <2>1. (Running' <=> Running) /\ (Sealed(Target)' <=> Sealed(Target))
      BY DEF Running, Target, Other, Sealed
    <2>2. upload'.stage \in {"write", "erase again"} \/ command'.op = "write" => ~Sealed(Target)
      BY <1>2, <1>3
    <2>3. command'.op = "erase" /\ command'.at # 0 => ~Sealed(Target)
      BY <1>2
    <2>4. reply' # "OK"
      BY <1>1
    <2>5. QED
      BY <2>1, <2>2, <2>3, <2>4 DEF UnsealedWhileWritten
  <1>6. command.op = "none"
    BY DEF NoCommand
  <1>7. QED
    BY <1>1, <1>2, <1>3, <1>4, <1>5, <1>6, OrderStep

\* The uploader is done, whatever the reason.
LEMMA QuietInv ==
  ASSUME FirmwareInv, command = NoCommand, Quiet,
         header' = header, app' = app, executing' = executing, ran' = ran, offered' = offered
  PROVE FirmwareInv'
  <1>1. command' = NoCommand /\ upload' = [stage |-> "none", sector |-> 0, tries |-> 0] /\ reply' = "none"
    BY DEF Quiet
  <1>2. command' \in Commands /\ command'.op = "none" /\ command.op = "none"
    BY <1>1, FirmwareAssumption DEF NoCommand, Commands
  <1>3. upload' \in Uploads /\ upload'.stage = "none"
    BY <1>1, FirmwareAssumption DEF Uploads
  <1>4. OneCommand' /\ UnsealedWhileWritten'
    BY <1>1, <1>2, <1>3 DEF OneCommand, UnsealedWhileWritten
  <1>5. QED
    BY <1>1, <1>2, <1>3, <1>4, Types, OrderStep

LEMMA RefuseInv ==
  ASSUME FirmwareInv, Refuse
  PROVE FirmwareInv'
  <1>1. header' = header /\ app' = app /\ executing' = executing /\ ran' = ran /\ offered' = offered
    BY DEF Refuse, flash
  <1>2. /\ Running /\ command.op \in {"erase", "write", "verify"} /\ command' = NoCommand
        /\ upload' = upload /\ reply' = "ERROR"
    BY DEF Refuse, Answer
  <1>3. command' \in Commands /\ command'.op = "none"
    BY <1>2, FirmwareAssumption DEF NoCommand, Commands
  <1>4. OneCommand' /\ UnsealedWhileWritten'
    BY <1>1, <1>2, <1>3 DEF FirmwareInv, OneCommand, UnsealedWhileWritten, Running, Target, Other, Sealed
  <1>5. QED
    BY <1>1, <1>2, <1>3, <1>4, Types, OrderStep

LEMMA StartUploadInv ==
  ASSUME FirmwareInv, StartUpload
  PROVE FirmwareInv'
  <1>1. header' = header /\ app' = app /\ executing' = executing /\ ran' = ran /\ offered' = offered + 1
    BY DEF StartUpload, flash
  <1>2. Running /\ command = NoCommand /\ Issue("erase", "erase", 0, NumSectors, 0) /\ offered < MaxImages
    BY DEF StartUpload
  <1>3. offered' \in Images /\ offered' >= offered
    BY <1>1, <1>2, Types, FirmwareAssumption DEF Images
  <1>4. 0 \in 0 .. NumSectors /\ NumSectors \in 0 .. NumSectors /\ 0 <= NumSectors /\ 0 <= 0 /\ 0 \in 0 .. MaxRetries
    BY FirmwareAssumption
  <1>5. QED
    BY <1>1, <1>2, <1>3, <1>4, IssueInv

LEMMA ProceedInv ==
  ASSUME FirmwareInv, Proceed
  PROVE FirmwareInv'
  <1>1. header' = header /\ app' = app /\ executing' = executing /\ ran' = ran /\ offered' = offered
    BY DEF Proceed, flash
  <1>2. command = NoCommand /\ reply = "OK"
    BY DEF Proceed
  <1>3. offered' \in Images /\ offered' >= offered
    BY <1>1, Types
  <1>4. 0 \in 0 .. NumSectors /\ NumSectors \in 0 .. NumSectors /\ 0 <= NumSectors /\ 0 <= 0 /\ 0 \in 0 .. MaxRetries
    BY FirmwareAssumption
  <1>5. upload.stage # "none" => Running
    BY DEF FirmwareInv, RunsSealed
  <1>6. upload.stage \in {"erase", "erase again", "write"} => ~Sealed(Target)
    BY <1>2, <1>5 DEF FirmwareInv, UnsealedWhileWritten
  <1>7. CASE upload.stage = "erase" /\ Issue("write", "write", 0, 0, 0)
    BY <1>1, <1>2, <1>3, <1>4, <1>5, <1>6, <1>7, IssueInv
  <1>8. CASE upload.stage = "erase again" /\ Issue("write", "write", upload.sector, upload.sector, upload.tries)
    <2>1. upload.sector \in 0 .. NumSectors /\ upload.sector <= upload.sector /\ upload.tries \in 0 .. MaxRetries
      BY Types, FirmwareAssumption
    <2>2. QED
      BY <1>1, <1>2, <1>3, <1>5, <1>6, <1>8, <2>1, IssueInv
  <1>9. CASE /\ upload.stage = "write" /\ upload.sector < NumSectors
             /\ Issue("write", "write", upload.sector + 1, upload.sector + 1, 0)
    <2>1. upload.sector + 1 \in 0 .. NumSectors /\ upload.sector + 1 <= upload.sector + 1
      BY <1>9, Types, FirmwareAssumption
    <2>2. QED
      BY <1>1, <1>2, <1>3, <1>4, <1>5, <1>6, <1>9, <2>1, IssueInv
  <1>10. CASE upload.stage = "write" /\ Issue("verify", "verify", 0, 0, 0)
    BY <1>1, <1>2, <1>3, <1>4, <1>5, <1>10, IssueInv
  <1>11. CASE upload.stage = "verify" /\ Issue("boot", "boot", 0, 0, 0)
    BY <1>1, <1>2, <1>3, <1>4, <1>5, <1>11, IssueInv
  <1>12. CASE Quiet
    BY <1>1, <1>2, <1>12, QuietInv
  <1>13. QED
    BY <1>7, <1>8, <1>9, <1>10, <1>11, <1>12 DEF Proceed

LEMMA RetryInv ==
  ASSUME FirmwareInv, Retry
  PROVE FirmwareInv'
  <1>1. header' = header /\ app' = app /\ executing' = executing /\ ran' = ran /\ offered' = offered
    BY DEF Retry, flash
  <1>2. command = NoCommand
    BY DEF Retry
  <1>3. CASE /\ upload.stage \in {"write", "erase again"} /\ upload.tries + 1 < MaxRetries
             /\ Issue("erase again", "erase", upload.sector, upload.sector, upload.tries + 1)
    <2>1. Running
      BY <1>3 DEF FirmwareInv, RunsSealed
    <2>2. ~Sealed(Target)
      BY <1>3, <2>1 DEF FirmwareInv, UnsealedWhileWritten
    <2>3. upload.tries + 1 \in 0 .. MaxRetries
      <3>1. upload.tries \in 0 .. MaxRetries
        BY Types
      <3>2. upload.tries + 1 < MaxRetries
        BY <1>3
      <3>3. QED
        BY <3>1, <3>2, FirmwareAssumption
    <2>4. offered' \in Images /\ offered' >= offered
      BY <1>1, Types
    <2>5. upload.sector \in 0 .. NumSectors /\ upload.sector <= upload.sector
      BY Types, FirmwareAssumption
    <2>6. QED
      BY <1>1, <1>2, <1>3, <2>1, <2>2, <2>3, <2>4, <2>5, IssueInv
  <1>4. CASE Quiet
    BY <1>1, <1>2, <1>4, QuietInv
  <1>5. QED
    BY <1>3, <1>4 DEF Retry

LEMMA OperatorInv ==
  ASSUME FirmwareInv, Operator
  PROVE FirmwareInv'
  <1>1. PICK op \in {"verify", "boot"} : Operate(op)
    BY DEF Operator
  <1>2. /\ header' = header /\ app' = app /\ executing' = executing /\ ran' = ran /\ offered' = offered
        /\ Running /\ command = NoCommand /\ upload' = upload /\ upload.stage = "none"
        /\ command' = Order(op, 0, 0) /\ reply' = "none"
    BY <1>1 DEF Operate, flash
  <1>3. command' \in Commands /\ command'.op = op /\ command.op = "none"
    BY <1>2, FirmwareAssumption DEF Order, NoCommand, Commands
  <1>4. OneCommand' /\ UnsealedWhileWritten'
    BY <1>2, <1>3 DEF OneCommand, UnsealedWhileWritten
  <1>5. QED
    BY <1>2, <1>3, <1>4, Types, OrderStep

LEMMA AbandonInv ==
  ASSUME FirmwareInv, Abandon
  PROVE FirmwareInv'
  <1>1. /\ header' = header /\ app' = app /\ executing' = executing /\ ran' = ran /\ offered' = offered
        /\ command' = command /\ reply' = "none" /\ upload.stage # "none"
        /\ upload' = [stage |-> "none", sector |-> 0, tries |-> 0]
    BY DEF Abandon, flash
  <1>2. upload' \in Uploads /\ upload'.stage = "none"
    BY <1>1, FirmwareAssumption DEF Uploads
  <1>3. OneCommand' /\ UnsealedWhileWritten'
    BY <1>1, <1>2 DEF FirmwareInv, OneCommand, UnsealedWhileWritten, Running, Target, Other, Sealed
  <1>4. Running
    BY <1>1 DEF FirmwareInv, RunsSealed
  <1>5. QED
    BY <1>1, <1>2, <1>3, <1>4, Types, OrderStep

-----------------------------------------------------------------------------
(* The steps that change flash.                                            *)

LEMMA StatusesAre == Statuses = {"Blank", "Valid", "HalfStale", "Stale", "Invalid", "Torn"}
  BY DEF Statuses, Rank

LEMMA RankIs ==
  /\ Rank["Blank"] = 0 /\ Rank["Valid"] = 1 /\ Rank["HalfStale"] = 2
  /\ Rank["Stale"] = 3 /\ Rank["Invalid"] = 4
  BY DEF Rank

\* Programming only clears bits.
LEMMA ProgrammedIs ==
  ASSUME NEW old \in Statuses, NEW new \in {"Valid", "Stale", "Invalid"}, NEW w \in Programmed(old, new)
  PROVE /\ w \in Statuses
        /\ w \in {"Blank", "Torn"} => old \in {"Blank", "Torn"}
        /\ w = "Valid" => old = "Valid" \/ (new = "Valid" /\ old \in {"Blank", "Torn"})
        /\ w = "Stale" => old = "Stale" \/ new = "Stale"
        /\ new = "Invalid" => w \in {"Invalid", "Torn"}
        /\ new = "Stale" /\ old \in {"Valid", "Stale"} => w = "Stale"
  <1>1. CASE old = "Torn"
    BY <1>1, StatusesAre DEF Programmed
  <1>2. CASE new = "Valid"
    BY <1>2, StatusesAre, RankIs DEF Programmed
  <1>3. CASE new = "Stale"
    BY <1>3, StatusesAre, RankIs DEF Programmed
  <1>4. CASE new = "Invalid"
    BY <1>4, StatusesAre, RankIs DEF Programmed
  <1>5. QED
    BY <1>1, <1>2, <1>3, <1>4

LEMMA TwoPartitions ==
  ASSUME FirmwareInv, Running
  PROVE /\ executing \in Partitions /\ Target \in Partitions /\ Target # executing
        /\ \A p \in Partitions : p = executing \/ p = Target
        /\ Sealed(executing) /\ header[executing].image \in Images
        /\ header \in [Partitions -> Headers] /\ header[Target].status \in Statuses
        /\ header[executing].status \in Statuses
  <1>1. /\ executing \in Partitions /\ Target \in Partitions /\ Target # executing
        /\ \A p \in Partitions : p = executing \/ p = Target
    BY DEF Running, Target, Other, Partitions
  <1>2. Sealed(executing)
    BY DEF FirmwareInv, RunsSealed
  <1>3. header[executing].image \in Images
    BY <1>1, <1>2 DEF FirmwareInv, SealedIsWhole, Whole
  <1>4. header \in [Partitions -> Headers]
    BY DEF FirmwareInv, FirmwareTypeOK
  <1>5. QED
    BY <1>1, <1>2, <1>3, <1>4 DEF Headers

LEMMA StatusStep ==
  ASSUME NEW t \in Partitions, NEW w \in Statuses,
         header \in [Partitions -> Headers],
         header' = [header EXCEPT ![t].status = w]
  PROVE /\ header' \in [Partitions -> Headers]
        /\ \A p \in Partitions : header'[p].image = header[p].image
        /\ \A p \in Partitions : p # t => header'[p] = header[p]
        /\ header'[t].status = w
  BY DEF Headers

LEMMA SectorStep ==
  ASSUME NEW t \in Partitions, NEW s \in 0 .. NumSectors, NEW c \in Contents, NEW status \in Statuses,
         header \in [Partitions -> Headers], app \in [Partitions -> [Sectors -> Contents]],
         SetSector(t, s, c, status)
  PROVE /\ header' \in [Partitions -> Headers] /\ app' \in [Partitions -> [Sectors -> Contents]]
        /\ \A p \in Partitions : p # t => header'[p] = header[p] /\ app'[p] = app[p]
        /\ s = 0 => header'[t].image = c /\ header'[t].status = status
        /\ s # 0 => header' = header
  <1>1. CASE s = 0
    BY <1>1 DEF SetSector, Headers
  <1>2. CASE s # 0
    <2>1. s \in Sectors
      BY <1>2, FirmwareAssumption DEF Sectors
    <2>2. header' = header /\ app' = [app EXCEPT ![t][s] = c]
      BY <1>2 DEF SetSector
    <2>3. app' \in [Partitions -> [Sectors -> Contents]]
      BY <2>1, <2>2
    <2>4. QED
      BY <1>2, <2>2, <2>3
  <1>3. QED
    BY <1>1, <1>2

\* What a step leaves of the invariant that writes the partition that does not
\* run, and does it the way the commands do.
LEMMA TargetStep ==
  ASSUME FirmwareInv, Running, offered' = offered,
         header'[executing] = header[executing], app'[executing] = app[executing],
         header'[Target].status \in {"Valid", "Stale"}
            => header'[Target].image \in Images /\ \A s \in Sectors : app'[Target][s] = header'[Target].image,
         header'[Target].image \in Images => header'[Target].image \in {header[Target].image, offered},
         header'[Target].status \in {"Blank", "Torn"} =>
            \/ header[Target].status \in {"Blank", "Torn"}
            \/ header'[Target].image \notin Images
  PROVE (SealedIsWhole /\ SomeSealed /\ NoneNewer /\ FreshIsNewer)'
  <1>1. SealedIsWhole'
    BY TwoPartitions DEF FirmwareInv, SealedIsWhole, Sealed, Whole
  <1>2. SomeSealed'
    BY TwoPartitions DEF SomeSealed, Sealed
  <1>3. NoneNewer'
    BY TwoPartitions, Types DEF FirmwareInv, NoneNewer
  <1>4. FreshIsNewer'
    <2> SUFFICES ASSUME NEW p \in Partitions, NEW q \in Partitions, Fresh(p)', Sealed(q)'
                 PROVE header'[p].image >= header'[q].image
      BY DEF FreshIsNewer
    <2>1. p = Target /\ q = executing
      BY TwoPartitions DEF Fresh, Sealed
    <2>2. CASE header'[p].image = offered
      BY <2>1, <2>2, TwoPartitions, Types, FirmwareAssumption DEF FirmwareInv, NoneNewer, Images
    <2>3. CASE header'[p].image = header[p].image
      BY <2>1, <2>3, TwoPartitions DEF FirmwareInv, FreshIsNewer, Fresh, Sealed
    <2>4. QED
      BY <2>1, <2>2, <2>3 DEF Fresh
  <1>5. QED
    BY <1>1, <1>2, <1>3, <1>4

LEMMA TargetCommandInv ==
  ASSUME FirmwareInv, Running,
         header' \in [Partitions -> Headers], app' \in [Partitions -> [Sectors -> Contents]],
         header'[executing] = header[executing], app'[executing] = app[executing],
         header'[Target].status \in {"Valid", "Stale"}
            => header'[Target].image \in Images /\ \A s \in Sectors : app'[Target][s] = header'[Target].image,
         header'[Target].image \in Images => header'[Target].image \in {header[Target].image, offered},
         header'[Target].status \in {"Blank", "Torn"} =>
            \/ header[Target].status \in {"Blank", "Torn"}
            \/ header'[Target].image \notin Images,
         header'[Target].status = "Valid" =>
            header'[Target] = header[Target] \/ header'[Target].image >= header[executing].image,
         executing' = executing, upload' = upload, offered' = offered, ran' = ran,
         command.op # "jump", command' \in Commands, command'.op # "jump",
         reply' \in {"none", "OK", "ERROR"},
         OneCommand', UnsealedWhileWritten'
  PROVE FirmwareInv'
  <1>1. FirmwareTypeOK'
    BY DEF FirmwareInv, FirmwareTypeOK
  <1>2. (SealedIsWhole /\ SomeSealed /\ NoneNewer /\ FreshIsNewer)'
    BY TargetStep
  <1>3. (Running' <=> Running) /\ Target' = Target
    BY DEF Running, Target, Other
  <1>4. RunsSealed'
    BY <1>3 DEF FirmwareInv, RunsSealed, Sealed
  <1>5. JumpsToSealed'
    BY DEF JumpsToSealed
  <1>6. ValidIsNewer'
    BY <1>3 DEF FirmwareInv, ValidIsNewer
  <1>7. QED
    BY <1>1, <1>2, <1>4, <1>5, <1>6 DEF FirmwareInv

LEMMA EraseInv ==
  ASSUME FirmwareInv, Erase
  PROVE FirmwareInv'
  <1>1. /\ Running /\ command.op = "erase" /\ SetSector(Target, command.at, Erased, "Blank")
        /\ executing' = executing /\ upload' = upload /\ offered' = offered /\ ran' = ran
        /\ \/ command.at = command.last /\ command' = NoCommand /\ reply' = "OK"
           \/ command.at # command.last /\ command' = [command EXCEPT !.at = @ + 1] /\ reply' = reply
    BY DEF Erase, Answer
  <1>2. command.at \in 0 .. NumSectors /\ command.last \in 0 .. NumSectors /\ command.at <= command.last
    <2>1. command.at \in 0 .. NumSectors /\ command.last \in 0 .. NumSectors
      BY Types DEF Commands
    <2>2. QED
      BY <1>1, <2>1 DEF FirmwareInv, OneCommand
  <1>3. Erased \in Contents /\ "Blank" \in Statuses /\ Erased \notin Images
    BY StatusesAre DEF Contents, Erased, Images
  <1>4. /\ header' \in [Partitions -> Headers] /\ app' \in [Partitions -> [Sectors -> Contents]]
        /\ \A p \in Partitions : p # Target => header'[p] = header[p] /\ app'[p] = app[p]
        /\ command.at = 0 => header'[Target].image = Erased /\ header'[Target].status = "Blank"
        /\ command.at # 0 => header' = header
    BY <1>1, <1>2, <1>3, TwoPartitions, SectorStep DEF FirmwareInv, FirmwareTypeOK
  <1>5. command.at # 0 => ~Sealed(Target)
    BY <1>1 DEF FirmwareInv, UnsealedWhileWritten
  <1>6. header'[Target].status \notin {"Valid", "Stale"}
    BY <1>4, <1>5 DEF Sealed
  <1>7. command' \in Commands /\ (command'.op = "none" \/ (command'.op = "erase" /\ command'.at <= command'.last))
    <2>1. CASE command.at = command.last
      BY <1>1, <2>1, FirmwareAssumption DEF NoCommand, Commands
    <2>2. CASE command.at # command.last
      <3>1. command.at + 1 \in 0 .. NumSectors /\ command.at + 1 <= command.last
        BY <1>2, <2>2, FirmwareAssumption
      <3>2. command' = [command EXCEPT !.at = command.at + 1]
        BY <1>1, <2>2
      <3>3. QED
        BY <1>1, <3>1, <3>2, Types DEF Commands
    <2>3. QED
      BY <2>1, <2>2
  <1>8. reply' \in {"none", "OK", "ERROR"}
    BY <1>1, Types
  <1>9. OneCommand'
    BY <1>1, <1>7 DEF FirmwareInv, OneCommand
  <1>10. UnsealedWhileWritten'
    BY <1>1, <1>6 DEF UnsealedWhileWritten, Sealed, Target, Other
  <1>11. QED
    BY <1>1, <1>3, <1>4, <1>6, <1>7, <1>8, <1>9, <1>10, TwoPartitions, TargetCommandInv

\* What PartialWriteFlashPartition makes of a partition that is being written.
LEMMA WriteStep ==
  ASSUME FirmwareInv, Running, NEW s \in 0 .. NumSectors, ~Sealed(Target), offered' = offered,
         PartialWriteFlashPartition(Target, s) \/ SetSector(Target, s, Garbled, "Torn")
  PROVE /\ header' \in [Partitions -> Headers] /\ app' \in [Partitions -> [Sectors -> Contents]]
        /\ header'[executing] = header[executing] /\ app'[executing] = app[executing]
        /\ header'[Target].status \notin {"Valid", "Stale"}
        /\ header'[Target].image \in Images => header'[Target].image \in {header[Target].image, offered}
        /\ header'[Target].status \in {"Blank", "Torn"} =>
              \/ header[Target].status \in {"Blank", "Torn"}
              \/ header'[Target].image \notin Images
  <1>1. Garbled \in Contents /\ offered \in Contents /\ "Torn" \in Statuses /\ "Blank" \in Statuses /\ Garbled \notin Images
    BY StatusesAre, Types, FirmwareAssumption DEF Contents, Garbled, Images
  <1>2. PICK c \in Contents, status \in Statuses :
           /\ SetSector(Target, s, c, status)
           /\ \/ c = Garbled /\ status = "Torn"
              \/ c = offered /\ (s = 0 => status = header[Target].status)
    BY <1>1, TwoPartitions DEF PartialWriteFlashPartition
  <1>3. /\ header' \in [Partitions -> Headers] /\ app' \in [Partitions -> [Sectors -> Contents]]
        /\ \A p \in Partitions : p # Target => header'[p] = header[p] /\ app'[p] = app[p]
        /\ s = 0 => header'[Target].image = c /\ header'[Target].status = status
        /\ s # 0 => header' = header
    BY <1>2, TwoPartitions, SectorStep DEF FirmwareInv, FirmwareTypeOK
  <1>4. QED
    BY <1>1, <1>2, <1>3, TwoPartitions DEF Sealed

LEMMA WriteInv ==
  ASSUME FirmwareInv, Write
  PROVE FirmwareInv'
  <1>1. /\ Running /\ command.op = "write" /\ PartialWriteFlashPartition(Target, command.at)
        /\ executing' = executing /\ upload' = upload /\ offered' = offered /\ ran' = ran
        /\ command' = NoCommand /\ reply' \in {"none", "OK", "ERROR"}
    BY DEF Write, Answer
  <1>2. command.at \in 0 .. NumSectors
    BY Types DEF Commands
  <1>3. ~Sealed(Target)
    BY <1>1 DEF FirmwareInv, UnsealedWhileWritten
  <1>4. command' \in Commands /\ command'.op = "none"
    BY <1>1, FirmwareAssumption DEF NoCommand, Commands
  <1>5. OneCommand'
    BY <1>1, <1>4 DEF FirmwareInv, OneCommand
  <1>6. header'[Target].status \notin {"Valid", "Stale"}
    BY <1>1, <1>2, <1>3, WriteStep
  <1>7. UnsealedWhileWritten'
    BY <1>1, <1>6 DEF UnsealedWhileWritten, Sealed, Target, Other
  <1>8. QED
    BY <1>1, <1>2, <1>3, <1>4, <1>5, <1>6, <1>7, WriteStep, TargetCommandInv

\* What VERIFY makes of the partition that does not run.
LEMMA VerifyStep ==
  ASSUME FirmwareInv, Running, app' = app,
         \/ WriteHeaderStatusWord(Target, IF Whole(Target) THEN "Valid" ELSE "Invalid")
         \/ header' = [header EXCEPT ![Target].status = IF header[Target].status = "Blank" THEN "Torn" ELSE header[Target].status]
  PROVE /\ header' \in [Partitions -> Headers] /\ app' \in [Partitions -> [Sectors -> Contents]]
        /\ header'[executing] = header[executing] /\ app'[executing] = app[executing]
        /\ header'[Target].image = header[Target].image
        /\ header'[Target].status \in {"Valid", "Stale"}
              => header'[Target].image \in Images /\ \A s \in Sectors : app'[Target][s] = header'[Target].image
        /\ header'[Target].status \in {"Blank", "Torn"} => header[Target].status \in {"Blank", "Torn"}
        /\ header'[Target].status = "Stale" => header[Target].status = "Stale"
        /\ header'[Target].status = "Valid" =>
              header'[Target] = header[Target] \/ header'[Target].image >= header[executing].image
  <1> DEFINE old == header[Target].status
  <1>1. app' \in [Partitions -> [Sectors -> Contents]]
    BY DEF FirmwareInv, FirmwareTypeOK
  <1>2. PICK w \in Statuses :
           /\ header' = [header EXCEPT ![Target].status = w]
           /\ w = "Valid" => old = "Valid" \/ (Whole(Target) /\ old \in {"Blank", "Torn"})
           /\ w = "Stale" => old = "Stale"
           /\ w \in {"Blank", "Torn"} => old \in {"Blank", "Torn"}
    <2>1. CASE WriteHeaderStatusWord(Target, IF Whole(Target) THEN "Valid" ELSE "Invalid")
      <3>1. CASE Whole(Target)
        <4>1. PICK w \in Programmed(old, "Valid") : header' = [header EXCEPT ![Target].status = w]
          BY <2>1, <3>1 DEF WriteHeaderStatusWord
        <4>2. QED
          BY <3>1, <4>1, TwoPartitions, ProgrammedIs
      <3>2. CASE ~Whole(Target)
        <4>1. PICK w \in Programmed(old, "Invalid") : header' = [header EXCEPT ![Target].status = w]
          BY <2>1, <3>2 DEF WriteHeaderStatusWord
        <4>2. QED
          BY <4>1, TwoPartitions, ProgrammedIs
      <3>3. QED
        BY <3>1, <3>2
    <2>2. CASE header' = [header EXCEPT ![Target].status = IF old = "Blank" THEN "Torn" ELSE old]
      <3>1. (IF old = "Blank" THEN "Torn" ELSE old) \in Statuses
        BY TwoPartitions, StatusesAre
      <3>2. QED
        BY <2>2, <3>1
    <2>3. QED
      BY <2>1, <2>2
  <1>3. /\ header' \in [Partitions -> Headers]
        /\ header'[executing] = header[executing] /\ header'[Target].image = header[Target].image
        /\ header'[Target].status = w
    BY <1>2, TwoPartitions, StatusStep
  <1>4. w \in {"Valid", "Stale"} => Whole(Target)
    BY <1>2, TwoPartitions DEF FirmwareInv, SealedIsWhole, Sealed
  <1>5. w = "Valid" /\ old \in {"Blank", "Torn"} => header[Target].image >= header[executing].image
    BY <1>4, TwoPartitions DEF FirmwareInv, FreshIsNewer, Fresh, Whole
  <1>6. w = "Valid" /\ old = "Valid" => header'[Target] = header[Target]
    BY <1>3, TwoPartitions DEF Headers
  <1>7. QED
    BY <1>1, <1>2, <1>3, <1>4, <1>5, <1>6 DEF Whole

LEMMA VerifyInv ==
  ASSUME FirmwareInv, Verify
  PROVE FirmwareInv'
  <1>1. /\ Running /\ command.op = "verify" /\ app' = app
        /\ WriteHeaderStatusWord(Target, IF Whole(Target) THEN "Valid" ELSE "Invalid")
        /\ executing' = executing /\ upload' = upload /\ offered' = offered /\ ran' = ran
        /\ command' = NoCommand /\ reply' \in {"none", "OK", "ERROR"}
    BY DEF Verify, Answer
  <1>2. command' \in Commands /\ command'.op = "none"
    BY <1>1, FirmwareAssumption DEF NoCommand, Commands
  <1>3. OneCommand'
    BY <1>1, <1>2 DEF FirmwareInv, OneCommand
  <1>4. UnsealedWhileWritten'
    BY <1>1, <1>2 DEF FirmwareInv, OneCommand, UnsealedWhileWritten
  <1>5. QED
    BY <1>1, <1>2, <1>3, <1>4, VerifyStep, TargetCommandInv

\* The running partition is marked stale, or half so, with another to boot.
LEMMA StaleStep ==
  ASSUME FirmwareInv, Running, Sealed(Target), app' = app, offered' = offered,
         \/ WriteHeaderStatusWord(executing, "Stale")
         \/ header' = [header EXCEPT ![executing].status = IF @ = "Valid" THEN "HalfStale" ELSE @]
  PROVE /\ (SealedIsWhole /\ SomeSealed /\ NoneNewer /\ FreshIsNewer)'
        /\ header' \in [Partitions -> Headers] /\ app' \in [Partitions -> [Sectors -> Contents]]
        /\ header'[Target] = header[Target]
        /\ header'[executing].image = header[executing].image
        /\ header'[executing].status \in {"Stale", "HalfStale"}
        /\ WriteHeaderStatusWord(executing, "Stale") => header'[executing].status = "Stale"
  <1>1. header[executing].status \in {"Valid", "Stale"}
    BY TwoPartitions DEF Sealed
  <1>2. PICK w \in {"Stale", "HalfStale"} :
           /\ header' = [header EXCEPT ![executing].status = w]
           /\ WriteHeaderStatusWord(executing, "Stale") => w = "Stale"
    <2>1. CASE WriteHeaderStatusWord(executing, "Stale")
      <3>1. PICK w \in Programmed(header[executing].status, "Stale") : header' = [header EXCEPT ![executing].status = w]
        BY <2>1 DEF WriteHeaderStatusWord
      <3>2. w = "Stale"
        BY <1>1, <3>1, TwoPartitions, ProgrammedIs
      <3>3. QED
        BY <3>1, <3>2
    <2>2. CASE ~WriteHeaderStatusWord(executing, "Stale")
      BY <1>1, <2>2
    <2>3. QED
      BY <2>1, <2>2
  <1>3. /\ header' \in [Partitions -> Headers]
        /\ \A p \in Partitions : header'[p].image = header[p].image
        /\ header'[Target] = header[Target] /\ header'[executing].status = w
    BY <1>2, TwoPartitions, StatusStep, StatusesAre
  <1>4. (SealedIsWhole /\ NoneNewer)'
    BY <1>1, <1>3, TwoPartitions DEF FirmwareInv, SealedIsWhole, NoneNewer, Sealed, Whole
  <1>5. SomeSealed'
    BY <1>3, TwoPartitions DEF SomeSealed, Sealed
  <1>6. FreshIsNewer'
    BY <1>1, <1>3, TwoPartitions DEF FreshIsNewer, Fresh, Sealed
  <1>7. QED
    BY <1>2, <1>3, <1>4, <1>5, <1>6 DEF FirmwareInv, FirmwareTypeOK

LEMMA MarkStaleInv ==
  ASSUME FirmwareInv, MarkStale
  PROVE FirmwareInv'
  <1>1. /\ Running /\ command.op = "boot" /\ app' = app
        /\ executing' = executing /\ upload' = upload /\ offered' = offered /\ ran' = ran
    BY DEF MarkStale
  <1>2. (Running' <=> Running) /\ Target' = Target
    BY <1>1 DEF Running, Target, Other
  <1>3. upload.stage \notin {"erase", "erase again", "write"}
    BY <1>1 DEF FirmwareInv, OneCommand
  <1>4. CASE Bootable(Target)
    <2>1. /\ Sealed(Target) /\ WriteHeaderStatusWord(executing, "Stale")
          /\ command' = Order("jump", 0, 0) /\ reply' = reply
      BY <1>4 DEF MarkStale, Bootable, Sealed
    <2>2. command' \in Commands /\ command'.op = "jump"
      BY <2>1, FirmwareAssumption DEF Order, Commands
    <2>3. /\ (SealedIsWhole /\ SomeSealed /\ NoneNewer /\ FreshIsNewer)'
          /\ header' \in [Partitions -> Headers] /\ app' \in [Partitions -> [Sectors -> Contents]]
          /\ header'[Target] = header[Target]
          /\ header'[executing].image = header[executing].image /\ header'[executing].status = "Stale"
      BY <1>1, <2>1, StaleStep
    <2>4. FirmwareTypeOK'
      BY <1>1, <2>1, <2>2, <2>3 DEF FirmwareInv, FirmwareTypeOK
    <2>5. RunsSealed'
      BY <1>1, <1>2, <2>3 DEF FirmwareInv, RunsSealed, Sealed
    <2>6. OneCommand'
      BY <1>1, <1>3, <2>2 DEF FirmwareInv, OneCommand
    <2>7. UnsealedWhileWritten' /\ ValidIsNewer'
      BY <1>1, <1>3, <2>2 DEF UnsealedWhileWritten, ValidIsNewer
    <2>8. JumpsToSealed'
      BY <1>1, <1>2, <2>1, <2>3 DEF JumpsToSealed, Sealed
    <2>9. QED
      BY <2>3, <2>4, <2>5, <2>6, <2>7, <2>8 DEF FirmwareInv
  <1>5. CASE ~Bootable(Target)
    <2>1. header' = header /\ command' = NoCommand /\ reply' = "OK"
      BY <1>5 DEF MarkStale, Answer
    <2>2. command' \in Commands /\ command'.op = "none"
      BY <2>1, FirmwareAssumption DEF NoCommand, Commands
    <2>3. OneCommand' /\ UnsealedWhileWritten'
      BY <1>1, <1>3, <2>2 DEF FirmwareInv, OneCommand, UnsealedWhileWritten
    <2>4. offered' \in Images /\ offered' >= offered
      BY <1>1, Types
    <2>5. QED
      BY <1>1, <2>1, <2>2, <2>3, <2>4, Types, OrderStep
  <1>6. QED
    BY <1>4, <1>5

-----------------------------------------------------------------------------
(* Starts and resets.                                                      *)

LEMMA QuietIs ==
  ASSUME Quiet
  PROVE /\ command' \in Commands /\ command'.op = "none" /\ upload' \in Uploads /\ upload'.stage = "none"
        /\ reply' \in {"none", "OK", "ERROR"}
        /\ OneCommand' /\ UnsealedWhileWritten' /\ JumpsToSealed'
  <1>1. /\ command' = NoCommand /\ reply' = "none"
        /\ upload' = [stage |-> "none", sector |-> 0, tries |-> 0]
    BY DEF Quiet
  <1>2. command' \in Commands /\ command'.op = "none" /\ upload' \in Uploads /\ upload'.stage = "none"
    BY <1>1, FirmwareAssumption DEF NoCommand, Commands, Uploads
  <1>3. QED
    BY <1>1, <1>2 DEF OneCommand, UnsealedWhileWritten, JumpsToSealed

LEMMA JumpInv ==
  ASSUME FirmwareInv, Jump
  PROVE FirmwareInv'
  <1>1. /\ Running /\ command.op = "jump" /\ header' = header /\ app' = app
        /\ executing' = Target /\ ran' = header[Target].image /\ Quiet /\ offered' = offered
    BY DEF Jump, flash
  <1>2. Sealed(Target) /\ header[executing].status = "Stale"
    BY <1>1 DEF FirmwareInv, JumpsToSealed
  <1>3. header[Target].image \in Images
    BY <1>1, <1>2, TwoPartitions DEF FirmwareInv, SealedIsWhole, Whole
  <1>4. FirmwareTypeOK'
    BY <1>1, <1>3, QuietIs, TwoPartitions DEF FirmwareInv, FirmwareTypeOK
  <1>5. (SealedIsWhole /\ SomeSealed /\ FreshIsNewer /\ NoneNewer)'
    BY <1>1 DEF FirmwareInv, SealedIsWhole, SomeSealed, FreshIsNewer, NoneNewer, Sealed, Fresh, Whole
  <1>6. RunsSealed'
    BY <1>1, <1>2, TwoPartitions DEF RunsSealed, Running, Sealed, SOS, Partitions
  <1>7. ValidIsNewer'
    BY <1>1, <1>2 DEF ValidIsNewer, Target, Other, Running, Partitions
  <1>8. QED
    BY <1>1, <1>4, <1>5, <1>6, <1>7, QuietIs DEF FirmwareInv

\* What can be booted is whole, and there is always something to boot.
LEMMA SomethingBoots ==
  ASSUME FirmwareInv
  PROVE /\ \A p \in Partitions : Bootable(p) <=> Sealed(p)
        /\ \A p \in Partitions : Boots(p) => Whole(p) /\ Sealed(p)
        /\ \E p \in Partitions : Boots(p)
  <1>1. \A p \in Partitions : Bootable(p) <=> Sealed(p)
    BY DEF FirmwareInv, SealedIsWhole, Bootable, Sealed, Whole, Images, Erased
  <1>2. \A p \in Partitions : Boots(p) => Whole(p) /\ Sealed(p)
    BY <1>1 DEF FirmwareInv, SealedIsWhole, Boots
  <1>3. PICK p \in Partitions : Sealed(p)
    BY DEF FirmwareInv, SomeSealed
  <1>4. 0 \in Partitions /\ 1 \in Partitions /\ Partitions \ {0} = {1} /\ Partitions \ {1} = {0} /\ (p = 0 \/ p = 1)
    BY DEF Partitions
  <1>5. CASE Sealed(0) /\ ~Sealed(1)
    <2>1. Bootable(0) /\ ~Bootable(1)
      BY <1>1, <1>4, <1>5
    <2>2. Boots(0)
      BY <1>4, <2>1 DEF Boots
    <2>3. QED
      BY <1>1, <1>2, <1>4, <2>2
  <1>6. CASE Sealed(1) /\ ~Sealed(0)
    <2>1. Bootable(1) /\ ~Bootable(0)
      BY <1>1, <1>4, <1>6
    <2>2. Boots(1)
      BY <1>4, <2>1 DEF Boots
    <2>3. QED
      BY <1>1, <1>2, <1>4, <2>2
  <1>7. CASE Sealed(0) /\ Sealed(1) /\ header[0].status = "Stale" /\ header[1].status = "Valid"
    <2>1. Rank[header[1].status] < Rank[header[0].status]
      BY <1>7, RankIs
    <2>2. Boots(1)
      BY <1>1, <1>4, <1>7, <2>1 DEF Boots
    <2>3. QED
      BY <1>1, <1>2, <1>4, <2>2
  <1>8. CASE Sealed(0) /\ Sealed(1) /\ ~(header[0].status = "Stale" /\ header[1].status = "Valid")
    <2>1. Rank[header[0].status] < Rank[header[1].status] \/ header[0].status = header[1].status
      BY <1>8, RankIs DEF Sealed
    <2>2. Boots(0)
      BY <1>1, <1>4, <1>8, <2>1 DEF Boots
    <2>3. QED
      BY <1>1, <1>2, <1>4, <2>2
  <1>9. QED
    BY <1>1, <1>2, <1>3, <1>4, <1>5, <1>6, <1>7, <1>8

LEMMA BootloaderBootsInv ==
  ASSUME FirmwareInv, BootloaderBoots
  PROVE FirmwareInv'
  <1>1. PICK p \in Partitions : Boots(p) /\ executing' = p /\ ran' = header[p].image
    BY SomethingBoots DEF BootloaderBoots
  <1>2. /\ executing = Bootloader /\ header' = header /\ app' = app
        /\ command' = command /\ reply' = reply /\ upload' = upload /\ offered' = offered
    BY DEF BootloaderBoots, flash
  <1>3. command.op = "none" /\ upload.stage = "none"
    BY <1>2 DEF FirmwareInv, RunsSealed, Running, Bootloader, Partitions
  <1>4. Whole(p) /\ Sealed(p)
    BY <1>1, SomethingBoots
  <1>5. FirmwareTypeOK'
    BY <1>1, <1>2, <1>4 DEF FirmwareInv, FirmwareTypeOK, Whole
  <1>6. (SealedIsWhole /\ SomeSealed /\ FreshIsNewer /\ NoneNewer)'
    BY <1>2 DEF FirmwareInv, SealedIsWhole, SomeSealed, FreshIsNewer, NoneNewer, Sealed, Fresh, Whole
  <1>7. RunsSealed'
    BY <1>1, <1>2, <1>4 DEF RunsSealed, Running, Sealed, SOS, Partitions
  <1>8. OneCommand' /\ UnsealedWhileWritten' /\ JumpsToSealed'
    BY <1>2, <1>3 DEF OneCommand, UnsealedWhileWritten, JumpsToSealed
  <1>9. ValidIsNewer'
    <2> SUFFICES ASSUME header[1 - p].status = "Valid", header[p].status = "Stale" \/ p = 1
                 PROVE FALSE
      BY <1>1, <1>2 DEF ValidIsNewer, Target, Other
    <2>1. 1 - p \in Partitions \ {p} /\ Bootable(1 - p)
      BY SomethingBoots DEF Sealed, Partitions
    <2>2. Rank[header[p].status] < 1 \/ (header[p].status = "Valid" /\ p < 1 - p)
      BY <1>1, <2>1, RankIs DEF Boots
    <2>3. Rank[header[p].status] \in {1, 3}
      BY <1>4, RankIs DEF Sealed
    <2>4. QED
      BY <2>2, <2>3 DEF Partitions
  <1>10. QED
    BY <1>5, <1>6, <1>7, <1>8, <1>9 DEF FirmwareInv

LEMMA HalfDoneKeeps ==
  ASSUME FirmwareInv, HalfDone, offered' = offered
  PROVE /\ (SealedIsWhole /\ SomeSealed /\ NoneNewer /\ FreshIsNewer)'
        /\ header' \in [Partitions -> Headers] /\ app' \in [Partitions -> [Sectors -> Contents]]
  <1>1. CASE UNCHANGED flash
    BY <1>1 DEF FirmwareInv, FirmwareTypeOK, SealedIsWhole, SomeSealed, FreshIsNewer, NoneNewer, Sealed, Fresh, Whole, flash
  <1>2. CASE /\ Running /\ command.op = "erase"
             /\ \E c \in {Erased, Garbled} : SetSector(Target, command.at, c, IF c = Erased THEN "Blank" ELSE "Torn")
    <2>1. PICK c \in {Erased, Garbled} : SetSector(Target, command.at, c, IF c = Erased THEN "Blank" ELSE "Torn")
      BY <1>2
    <2>2. /\ c \in Contents /\ c \notin Images
          /\ (IF c = Erased THEN "Blank" ELSE "Torn") \in Statuses
          /\ (IF c = Erased THEN "Blank" ELSE "Torn") \notin {"Valid", "Stale"}
      BY StatusesAre, FirmwareAssumption DEF Contents, Erased, Garbled, Images
    <2>3. command.at \in 0 .. NumSectors
      BY Types DEF Commands
    <2>4. /\ header' \in [Partitions -> Headers] /\ app' \in [Partitions -> [Sectors -> Contents]]
          /\ \A p \in Partitions : p # Target => header'[p] = header[p] /\ app'[p] = app[p]
          /\ command.at = 0 => header'[Target].image = c /\ header'[Target].status \notin {"Valid", "Stale"}
          /\ command.at # 0 => header' = header
      BY <1>2, <2>1, <2>2, <2>3, TwoPartitions, SectorStep DEF FirmwareInv, FirmwareTypeOK
    <2>5. header'[Target].status \notin {"Valid", "Stale"}
      BY <1>2, <2>4 DEF FirmwareInv, UnsealedWhileWritten, Sealed
    <2>6. QED
      BY <1>2, <2>2, <2>4, <2>5, TwoPartitions, TargetStep
  <1>3. CASE /\ Running /\ command.op = "write"
             /\ PartialWriteFlashPartition(Target, command.at) \/ SetSector(Target, command.at, Garbled, "Torn")
    <2>1. ~Sealed(Target)
      BY <1>3 DEF FirmwareInv, UnsealedWhileWritten
    <2>2. command.at \in 0 .. NumSectors
      BY Types DEF Commands
    <2>3. QED
      BY <1>3, <2>1, <2>2, WriteStep, TargetStep
  <1>4. CASE /\ Running /\ command.op = "verify" /\ app' = app
             /\ \/ WriteHeaderStatusWord(Target, IF Whole(Target) THEN "Valid" ELSE "Invalid")
                \/ header' = [header EXCEPT ![Target].status = IF @ = "Blank" THEN "Torn" ELSE @]
    BY <1>4, VerifyStep, TargetStep
  <1>5. CASE /\ Running /\ command.op = "boot" /\ Bootable(Target) /\ app' = app
             /\ \/ WriteHeaderStatusWord(executing, "Stale")
                \/ header' = [header EXCEPT ![executing].status = IF @ = "Valid" THEN "HalfStale" ELSE @]
    <2>1. Sealed(Target)
      BY <1>5 DEF Bootable, Sealed
    <2>2. QED
      BY <1>5, <2>1, StaleStep
  <1>6. QED
    BY <1>1, <1>2, <1>3, <1>4, <1>5 DEF HalfDone

LEMMA ResetFirmwareInv ==
  ASSUME FirmwareInv, ResetFirmware
  PROVE FirmwareInv'
  <1>1. HalfDone /\ executing' = Bootloader /\ Quiet /\ offered' = offered /\ ran' = ran
    BY DEF ResetFirmware
  <1>2. ~Running' /\ executing' # SOS
    BY <1>1 DEF Running, Bootloader, SOS, Partitions
  <1>3. FirmwareTypeOK'
    BY <1>1, HalfDoneKeeps, QuietIs DEF FirmwareInv, FirmwareTypeOK
  <1>4. RunsSealed' /\ ValidIsNewer'
    BY <1>1, <1>2, QuietIs DEF RunsSealed, ValidIsNewer
  <1>5. QED
    BY <1>1, <1>3, <1>4, HalfDoneKeeps, QuietIs DEF FirmwareInv

LEMMA FirmwareInvStep == FirmwareInv /\ [FirmwareNext]_firmwareVars => FirmwareInv'
  <1> SUFFICES ASSUME FirmwareInv, [FirmwareNext]_firmwareVars PROVE FirmwareInv'
    OBVIOUS
  <1>1. CASE UNCHANGED firmwareVars
    <2>1. /\ header' = header /\ app' = app /\ executing' = executing /\ command' = command
          /\ reply' = reply /\ upload' = upload /\ offered' = offered /\ ran' = ran
      BY <1>1 DEF firmwareVars, flash
    <2>2. OneCommand' /\ UnsealedWhileWritten'
      BY <2>1 DEF FirmwareInv, OneCommand, UnsealedWhileWritten, Running, Target, Other, Sealed
    <2>3. offered' >= offered
      BY <2>1, Types
    <2>4. ~Running => command.op = "none" /\ upload.stage = "none"
      BY DEF FirmwareInv, RunsSealed
    <2>5. QED
      BY <2>1, <2>2, <2>3, <2>4, Types, OrderStep
  <1>2. QED
    BY <1>1, EraseInv, WriteInv, RefuseInv, VerifyInv, MarkStaleInv, StartUploadInv, ProceedInv, RetryInv, AbandonInv,
       OperatorInv, JumpInv, BootloaderBootsInv, ResetFirmwareInv DEF FirmwareNext, OTACommand, Uploader, Starts

-----------------------------------------------------------------------------
(* The theorems.                                                           *)

LEMMA FirmwareInvAlways == FirmwareSpec => []FirmwareInv
  BY FirmwareInvInit, FirmwareInvStep, PTL DEF FirmwareSpec

\* Type correctness.
THEOREM FirmwareTypes == FirmwareSpec => []FirmwareTypeOK
  <1>1. FirmwareInv => FirmwareTypeOK
    BY DEF FirmwareInv
  <1>2. QED
    BY <1>1, FirmwareInvAlways, PTL

\* Whatever is interrupted by a loss of power, by an upload that fails or by
\* whoever verifies and boots partitions at the console: the bootloader finds a
\* whole image, and a whole image runs.
THEOREM SomethingWholeBoots == FirmwareSpec => []AlwaysBootable
  <1>1. FirmwareInv => AlwaysBootable
    <2> SUFFICES ASSUME FirmwareInv PROVE AlwaysBootable
      OBVIOUS
    <2>1. Running => Whole(executing)
      BY TwoPartitions DEF FirmwareInv, SealedIsWhole
    <2>2. QED
      BY <2>1, SomethingBoots DEF AlwaysBootable
  <1>2. QED
    BY <1>1, FirmwareInvAlways, PTL

\* What a loss of power leaves of the partitions when none was to be booted.
LEMMA HalfDoneOfTarget ==
  ASSUME FirmwareInv, HalfDone, Running, command.op # "boot", offered' = offered
  PROVE /\ header'[executing] = header[executing]
        /\ header'[Target].status = "Stale" => header[Target].status = "Stale"
        /\ header'[Target].status = "Valid" =>
              header'[Target] = header[Target] \/ header'[Target].image >= header[executing].image
  <1>1. CASE UNCHANGED flash
    BY <1>1 DEF flash
  <1>2. CASE /\ command.op = "erase"
             /\ \E c \in {Erased, Garbled} : SetSector(Target, command.at, c, IF c = Erased THEN "Blank" ELSE "Torn")
    <2>1. PICK c \in {Erased, Garbled} : SetSector(Target, command.at, c, IF c = Erased THEN "Blank" ELSE "Torn")
      BY <1>2
    <2>2. /\ c \in Contents
          /\ (IF c = Erased THEN "Blank" ELSE "Torn") \in Statuses
          /\ (IF c = Erased THEN "Blank" ELSE "Torn") \notin {"Valid", "Stale"}
      BY StatusesAre DEF Contents
    <2>3. command.at \in 0 .. NumSectors
      BY Types DEF Commands
    <2>4. QED
      BY <2>1, <2>2, <2>3, TwoPartitions, SectorStep DEF FirmwareInv, FirmwareTypeOK
  <1>3. CASE /\ command.op = "write"
             /\ PartialWriteFlashPartition(Target, command.at) \/ SetSector(Target, command.at, Garbled, "Torn")
    <2>1. ~Sealed(Target)
      BY <1>3 DEF FirmwareInv, UnsealedWhileWritten
    <2>2. command.at \in 0 .. NumSectors
      BY Types DEF Commands
    <2>3. QED
      BY <1>3, <2>1, <2>2, WriteStep
  <1>4. CASE /\ command.op = "verify" /\ app' = app
             /\ \/ WriteHeaderStatusWord(Target, IF Whole(Target) THEN "Valid" ELSE "Invalid")
                \/ header' = [header EXCEPT ![Target].status = IF @ = "Blank" THEN "Torn" ELSE @]
    BY <1>4, VerifyStep
  <1>5. QED
    BY <1>1, <1>2, <1>3, <1>4 DEF HalfDone

\* A reset from an image that runs, but for one told to boot the other.
LEMMA ResetBootsNoOlder ==
  ASSUME FirmwareInv, FirmwareInv', FirmwareNext, Running, executing' = Bootloader,
         command.op \notin {"boot", "jump"},
         \E p \in Partitions : header[p].status = "Valid",
         NEW p \in Partitions, Boots(p)'
  PROVE header'[p].image >= ran
  <1>1. HalfDone /\ offered' = offered
    <2>1. executing \in Partitions /\ executing # Bootloader /\ Target # Bootloader
      BY TwoPartitions DEF Partitions, Bootloader
    <2>2. CASE ResetFirmware
      BY <2>2 DEF ResetFirmware
    <2>3. QED
      BY <2>1, <2>2 DEF FirmwareNext, OTACommand, Uploader, Operator, Starts, Operate, Erase, Write, Refuse, Verify, MarkStale,
            StartUpload, Proceed, Retry, Abandon, Jump, BootloaderBoots
  <1>2. /\ header'[executing] = header[executing]
        /\ header'[Target].status = "Stale" => header[Target].status = "Stale"
        /\ header'[Target].status = "Valid" =>
              header'[Target] = header[Target] \/ header'[Target].image >= header[executing].image
    BY <1>1, HalfDoneOfTarget
  <1>3. ran = header[executing].image /\ header[executing].image \in Nat
    BY TwoPartitions, FirmwareAssumption DEF FirmwareInv, RunsSealed, Images
  <1>4. CASE p = executing
    BY <1>2, <1>3, <1>4
  <1>5. CASE p = Target
    <2>1. header'[Target].status \in {"Valid", "Stale"}
      BY <1>5 DEF Boots, Bootable
    <2>2. header[executing].status \in {"Valid", "Stale"} /\ header[executing].image # Erased
      BY TwoPartitions DEF Sealed, Images, Erased
    <2>3. \/ Rank[header'[Target].status] < Rank[header[executing].status]
          \/ header'[Target].status = header[executing].status /\ Target < executing
      BY <1>2, <1>5, <2>2, TwoPartitions DEF Boots, Bootable
    <2>4. header'[Target].status = "Valid" /\ (header[executing].status = "Stale" \/ executing = 1)
      <3>1. CASE header'[Target].status = "Valid"
        <4>1. Target < executing => executing = 1
          BY TwoPartitions DEF Target, Other, Partitions
        <4>2. QED
          BY <2>2, <2>3, <3>1, <4>1, RankIs
      <3>2. CASE header'[Target].status = "Stale"
        <4>1. header[executing].status = "Stale"
          BY <2>2, <2>3, <3>2, RankIs
        <4>2. header[Target].status = "Valid"
          BY <4>1, TwoPartitions
        <4>3. QED
          BY <1>2, <3>2, <4>2
      <3>3. QED
        BY <2>1, <3>1, <3>2
    <2>5. CASE header'[Target] = header[Target]
      BY <1>3, <1>5, <2>4, <2>5 DEF FirmwareInv, ValidIsNewer
    <2>6. QED
      BY <1>2, <1>3, <1>5, <2>4, <2>5
  <1>6. QED
    BY <1>4, <1>5, TwoPartitions

\* No reset goes back to an older image, but for one told to boot the other or
\* with no valid partition left.
THEOREM NoResetRunsOlder == FirmwareSpec => NeverRunsOlder
  <1>1. FirmwareInv /\ FirmwareInv' /\ [FirmwareNext]_firmwareVars =>
           [Running /\ executing' = Bootloader /\ command.op \notin {"boot", "jump"}
               /\ (\E p \in Partitions : header[p].status = "Valid")
               => \A p \in Partitions : Boots(p)' => header'[p].image >= ran]_firmwareVars
    BY ResetBootsNoOlder
  <1>2. QED
    BY <1>1, FirmwareInvAlways, FirmwareInvStep, PTL DEF FirmwareSpec, NeverRunsOlder

-----------------------------------------------------------------------------
(* The board implements the partitions.                                    *)

LEMMA BoardStepIsFirmwareStep == [BoardNext]_boardVars => [FirmwareNext]_firmwareVars
  <1> SUFFICES ASSUME [BoardNext]_boardVars PROVE FirmwareNext \/ UNCHANGED firmwareVars
    OBVIOUS
  <1>1. CASE UNCHANGED boardVars
    BY <1>1 DEF boardVars
  <1>2. CASE Startup
    BY <1>2 DEF Startup, BootFromReset, JumpToOther, LoadAtStart, ApplyAtStart, CheckESP32, FirmwareNext, Starts
  <1>3. CASE StoreSettings \/ Loop \/ CarryOut
    BY <1>3 DEF StoreSettings, Loop, CarryOut, FirmwareNext
  <1>4. CASE WatchdogReset \/ PowerLoss
    BY <1>4 DEF WatchdogReset, PowerLoss, Reset, FirmwareNext
  <1>5. CASE LoadFailsAtStart \/ StoreFails \/ SettingsCommand \/ ESP32Command \/ ESP32Step
    BY <1>5 DEF LoadFailsAtStart, StoreFails, SettingsCommand, ESP32Command, ESP32Step
  <1>6. CASE Upload \/ Operated
    BY <1>6 DEF Upload, Operated, FirmwareNext, Uploader
  <1>7. QED
    BY <1>1, <1>2, <1>3, <1>4, <1>5, <1>6 DEF BoardNext, RP2040

\* A board uses its partitions the way FirmwareUpdate describes, whatever its
\* settings, its ESP32 and its watchdog do in between.
THEOREM BoardImplementsFirmware == BoardSpec => FirmwareSpec
  <1>1. BoardInit => FirmwareInit
    BY DEF BoardInit
  <1>2. QED
    BY <1>1, BoardStepIsFirmwareStep, PTL DEF BoardSpec, FirmwareSpec

\* So something whole can be booted at any moment of a board's life.
THEOREM BoardAlwaysBootable == BoardSpec => []AlwaysBootable
  BY BoardImplementsFirmware, SomethingWholeBoots, PTL

\* And no reset of the board, of its power or by its watchdog, runs an older
\* image than before.
THEOREM BoardNeverRunsOlder == BoardSpec => NeverRunsOlder
  BY BoardImplementsFirmware, NoResetRunsOlder, PTL

-----------------------------------------------------------------------------
(* The settings.                                                           *)

\* Network settings that are at rest are some that a save may have left, and a
\* write has put them in place before it comes to the last part.
NetworkIsSaved ==
    ~cut => /\ writing \in {"none", "copy"} => stored = Blank \/ stored.network.value \in saved
            /\ writing \in {"stored", "stored first"} =>
                  settings.network.value \in saved /\ (part = NumParts => stored.network = settings.network)

StoreInv == StoreTypeOK /\ NetworkIsSaved

StoreStep ==
    \/ \E i \in Images : Load(Layout[i]) \/ LoadFails(Layout[i]) \/ ResetSettings(Layout[i])
    \/ WriteSettings \/ WriteFails \/ ApplySettings
    \/ \E n \in Networks : ChangeNetwork(n)
    \/ \E c \in Configs : ChangeConfig(c)
    \/ \E enabled \in BOOLEAN : Save(enabled)
    \/ ResetStore
    \/ Edit /\ UNCHANGED <<hasEEPROM, storage, settings, config, saved, cut>>

LEMMA PartsAre ==
  /\ NumParts = 3 /\ 1 .. NumParts = {1, 2, 3}
  /\ 1 # 3 /\ 2 # 3 /\ 1 + 1 = 2 /\ 2 + 1 = 3 /\ 1 < 3 /\ 2 < 3 /\ ~(3 < 3)
  <1>1. 1 .. 3 = {1, 2, 3} /\ 1 # 3 /\ 2 # 3 /\ 1 + 1 = 2 /\ 2 + 1 = 3 /\ 1 < 3 /\ 2 < 3 /\ ~(3 < 3)
    OBVIOUS
  <1>2. QED
    BY <1>1 DEF NumParts

LEMMA BlankIs ==
  /\ Blank \in SettingsRecords /\ Blank.version = NoSetting /\ ~Blank.network.sealed
  BY DEF Blank, NoNetwork, Network, Rest, SettingsRecords, NetworkRecords, RestRecords

LEMMA DefaultsAre ==
  ASSUME NEW v \in Versions
  PROVE Defaults(v) \in SettingsRecords
  BY StoreAssumption DEF Defaults, Network, Rest, SettingsRecords, NetworkRecords, RestRecords

\* Begin, with the settings to be written.
LEMMA BeginKeeps ==
  ASSUME StoreInv, NEW where \in {"stored", "stored first"}, Begin(where), settings' \in SettingsRecords,
         hasEEPROM' = hasEEPROM, config' = config, cut' = cut, edits' \in 0 .. MaxEdits
  PROVE StoreInv'
  <1>1. stored' \in SettingsRecords
    BY BlankIs DEF Begin, StoreInv, StoreTypeOK
  <1>2. part' = 1 /\ writing' = where /\ saved' = saved \cup {settings'.network.value}
    BY DEF Begin
  <1>3. settings'.network.value \in Networks \cup {NoSetting}
    BY DEF SettingsRecords, NetworkRecords
  <1>4. StoreTypeOK'
    <2>1. part' \in 1 .. NumParts /\ saved' \subseteq Networks \cup {NoSetting}
      BY <1>2, <1>3, PartsAre DEF StoreInv, StoreTypeOK
    <2>2. QED
      BY <1>1, <1>2, <2>1 DEF StoreInv, StoreTypeOK
  <1>5. NetworkIsSaved'
    <2>1. part' # NumParts
      BY <1>2, PartsAre
    <2>2. QED
      BY <1>2, <2>1 DEF NetworkIsSaved
  <1>6. QED
    BY <1>4, <1>5 DEF StoreInv

LEMMA LoadKeeps ==
  ASSUME StoreInv, NEW v \in Versions, Load(v)
  PROVE StoreInv'
  <1>1. hasEEPROM' = hasEEPROM /\ config' = config /\ cut' = cut /\ edits' = edits
    BY DEF Load
  <1>2. stored \in SettingsRecords /\ edits \in 0 .. MaxEdits
    BY DEF StoreInv, StoreTypeOK
  <1>3. CASE stored.version = v
    BY <1>1, <1>2, <1>3 DEF Load, StoreIdle, storage, StoreInv, StoreTypeOK, NetworkIsSaved
  <1>4. CASE stored.version # v
    <2>1. Begin("stored first")
      BY <1>4 DEF Load
    <2>2. settings' = [Defaults(v) EXCEPT !.network = stored.network] \/ settings' = Defaults(v)
      BY <1>4 DEF Load
    <2>3. settings' \in SettingsRecords
      BY <1>2, <2>2, DefaultsAre DEF SettingsRecords
    <2>4. QED
      BY <1>1, <1>2, <2>1, <2>3, BeginKeeps
  <1>5. QED
    BY <1>3, <1>4

LEMMA SaveKeeps ==
  ASSUME StoreInv, NEW enabled \in BOOLEAN, Save(enabled)
  PROVE StoreInv'
  <1>1. Begin("stored") /\ hasEEPROM' = hasEEPROM /\ config' = config /\ cut' = cut /\ edits' = edits + 1 /\ edits < MaxEdits
    BY DEF Save, Edit
  <1>2. settings \in SettingsRecords /\ config \in Configs \cup {NoSetting} /\ edits \in 0 .. MaxEdits
    BY DEF StoreInv, StoreTypeOK
  <1>3. settings' \in SettingsRecords
    <2>1. settings' = [settings EXCEPT
                !.network.sealed = (settings.network.esp32_enabled = enabled),
                !.network.esp32_enabled = enabled,
                !.rest.config = config]
      BY DEF Save
    <2>2. QED
      BY <1>2, <2>1 DEF SettingsRecords, NetworkRecords, RestRecords
  <1>4. edits' \in 0 .. MaxEdits
    BY <1>1, <1>2, StoreAssumption
  <1>5. QED
    BY <1>1, <1>3, <1>4, BeginKeeps

\* What changes neither what is stored nor what is written.
LEMMA SettingsStep ==
  ASSUME StoreInv, StoreIdle, UNCHANGED <<hasEEPROM, storage, saved, cut>>,
         settings' \in SettingsRecords, config' \in Configs \cup {NoSetting}, edits' \in 0 .. MaxEdits
  PROVE StoreInv'
  BY DEF storage, StoreIdle, StoreInv, StoreTypeOK, NetworkIsSaved

LEMMA WriteSettingsKeeps ==
  ASSUME StoreInv, WriteSettings
  PROVE StoreInv'
  <1>1. /\ hasEEPROM' = hasEEPROM /\ settings' = settings /\ config' = config /\ cut' = cut /\ edits' = edits
        /\ WritePart(writing) /\ writing # "none"
    BY DEF WriteSettings, StoreIdle
  <1>2. /\ stored \in SettingsRecords /\ settings \in SettingsRecords /\ part \in {1, 2, 3}
        /\ writing \in {"none", "stored", "stored first", "copy"} /\ saved \subseteq Networks \cup {NoSetting}
    BY PartsAre DEF StoreInv, StoreTypeOK
  <1>3. settings.network.value \in Networks \cup {NoSetting}
    BY <1>2 DEF SettingsRecords, NetworkRecords
  <1>4. /\ part' \in {1, 2, 3}
        /\ \/ part # 3 /\ writing' = writing /\ (part = 1 => part' # 3)
           \/ part = 3 /\ part' # 3 /\ writing' \in {"none", "copy"}
    <2>1. CASE part = 3
      BY <2>1, PartsAre DEF WriteSettings
    <2>2. CASE part = 1
      BY <2>2, PartsAre DEF WriteSettings
    <2>3. CASE part = 2
      BY <2>3, PartsAre DEF WriteSettings
    <2>4. QED
      BY <1>2, <2>1, <2>2, <2>3
  <1>5. CASE writing = "copy"
    <2>1. stored' = stored /\ saved' = saved
      BY <1>1, <1>5 DEF WritePart
    <2>2. StoreTypeOK'
      BY <1>1, <1>2, <1>4, <1>5, <2>1, PartsAre DEF StoreInv, StoreTypeOK
    <2>3. NetworkIsSaved'
      BY <1>1, <1>4, <1>5, <2>1 DEF StoreInv, NetworkIsSaved
    <2>4. QED
      BY <2>2, <2>3 DEF StoreInv
  <1>6. CASE writing # "copy"
    <2>1. stored' = [stored EXCEPT ![Parts[part]] = settings[Parts[part]]]
      BY <1>1, <1>6 DEF WritePart
    <2>2. saved' = IF part = 3 THEN {settings.network.value} ELSE saved
      BY <1>1, <1>6 DEF WritePart, NumParts
    <2>3. /\ stored' \in SettingsRecords
          /\ part = 2 => stored'.network = settings.network
          /\ part # 2 => stored'.network = stored.network
      <3>1. CASE part = 1
        <4>1. stored' = [stored EXCEPT !.version = settings.version]
          BY <2>1, <3>1 DEF Parts
        <4>2. stored' \in SettingsRecords /\ stored'.network = stored.network
          BY <1>2, <4>1 DEF SettingsRecords
        <4>3. QED
          BY <3>1, <4>2
      <3>2. CASE part = 2
        <4>1. stored' = [stored EXCEPT !.network = settings.network]
          BY <2>1, <3>2 DEF Parts
        <4>2. QED
          BY <1>2, <3>2, <4>1 DEF SettingsRecords
      <3>3. CASE part = 3
        <4>1. stored' = [stored EXCEPT !.rest = settings.rest]
          BY <2>1, <3>3 DEF Parts
        <4>2. stored' \in SettingsRecords /\ stored'.network = stored.network
          BY <1>2, <4>1 DEF SettingsRecords
        <4>3. QED
          BY <3>3, <4>2
      <3>4. QED
        BY <1>2, <3>1, <3>2, <3>3
    <2>4. saved' \subseteq Networks \cup {NoSetting}
      BY <1>2, <1>3, <2>2
    <2>5. StoreTypeOK'
      BY <1>1, <1>2, <1>4, <2>3, <2>4, PartsAre DEF StoreInv, StoreTypeOK
    <2>6. NetworkIsSaved'
      <3>1. CASE part = 1
        BY <1>1, <1>2, <1>4, <1>6, <2>2, <3>1, PartsAre DEF StoreInv, NetworkIsSaved
      <3>2. CASE part = 2
        BY <1>1, <1>2, <1>4, <1>6, <2>2, <2>3, <3>2, PartsAre DEF StoreInv, NetworkIsSaved
      <3>3. CASE part = 3
        BY <1>1, <1>2, <1>4, <1>6, <2>2, <2>3, <3>3, PartsAre DEF StoreInv, NetworkIsSaved
      <3>4. QED
        BY <1>2, <3>1, <3>2, <3>3
    <2>7. QED
      BY <2>5, <2>6 DEF StoreInv
  <1>7. QED
    BY <1>5, <1>6

LEMMA StopWritingKeeps ==
  ASSUME StoreInv, StopWriting, hasEEPROM' = hasEEPROM, saved' = saved, edits' = edits,
         settings' \in SettingsRecords, config' \in Configs \cup {NoSetting}
  PROVE StoreInv'
  <1>1. writing' = "none" /\ part' = 1 /\ cut' = (cut \/ AtRisk) /\ HalfWritten
    BY DEF StopWriting
  <1>2. stored \in SettingsRecords /\ cut \in BOOLEAN
    BY DEF StoreInv, StoreTypeOK
  <1>3. stored' \in SettingsRecords
    <2>1. CASE stored' = stored
      BY <1>2, <2>1
    <2>2. ASSUME NEW enabled \in BOOLEAN,
                 stored' = [stored EXCEPT !.network = Network(NoSetting, enabled, FALSE)]
          PROVE stored' \in SettingsRecords
      <3>1. Network(NoSetting, enabled, FALSE) \in NetworkRecords
        BY DEF Network, NetworkRecords
      <3>2. QED
        BY <1>2, <2>2, <3>1 DEF SettingsRecords
    <2>3. QED
      BY <1>1, <2>1, <2>2 DEF HalfWritten
  <1>4. AtRisk \in BOOLEAN
    BY DEF AtRisk
  <1>5. StoreTypeOK'
    <2>1. part' \in 1 .. NumParts
      BY <1>1, PartsAre
    <2>2. cut' \in BOOLEAN
      BY <1>1, <1>2, <1>4
    <2>3. QED
      BY <1>1, <1>3, <2>1, <2>2 DEF StoreInv, StoreTypeOK
  <1>6. NetworkIsSaved'
    <2> SUFFICES ASSUME ~cut, ~AtRisk PROVE stored' = Blank \/ stored'.network.value \in saved
      BY <1>1, <1>2, <1>4 DEF NetworkIsSaved
    <2>1. stored' = stored
      BY <1>1 DEF HalfWritten, AtRisk
    <2>2. stored = Blank \/ stored.network.value \in saved
      BY DEF AtRisk, StoreInv, StoreTypeOK, NetworkIsSaved
    <2>3. QED
      BY <2>1, <2>2
  <1>7. QED
    BY <1>5, <1>6 DEF StoreInv

LEMMA StoreStepKeeps ==
  ASSUME StoreInv, StoreStep
  PROVE StoreInv'
  <1> USE BoardAssumption, StoreAssumption
  <1>1. /\ stored \in SettingsRecords /\ settings \in SettingsRecords /\ config \in Configs \cup {NoSetting}
        /\ edits \in 0 .. MaxEdits
    BY DEF StoreInv, StoreTypeOK
  <1>2. Edit => StoreIdle /\ edits' \in 0 .. MaxEdits
    BY <1>1 DEF Edit
  <1>3. ASSUME NEW i \in Images, Load(Layout[i]) \/ LoadFails(Layout[i]) \/ ResetSettings(Layout[i])
        PROVE StoreInv'
    <2>1. Layout[i] \in Versions
      OBVIOUS
    <2>2. CASE Load(Layout[i])
      BY <2>1, <2>2, LoadKeeps
    <2>3. CASE LoadFails(Layout[i])
      BY <1>1, <2>1, <2>3, DefaultsAre, SettingsStep DEF LoadFails
    <2>4. CASE ResetSettings(Layout[i])
      BY <1>2, <2>1, <2>4, DefaultsAre, SettingsStep DEF ResetSettings
    <2>5. QED
      BY <1>3, <2>2, <2>3, <2>4
  <1>4. CASE ApplySettings
    <2>1. config' \in Configs \cup {NoSetting}
      BY <1>1, <1>4 DEF ApplySettings, SettingsRecords, RestRecords
    <2>2. QED
      BY <1>1, <1>4, <2>1, SettingsStep DEF ApplySettings
  <1>5. ASSUME NEW n \in Networks, ChangeNetwork(n)
        PROVE StoreInv'
    <2>1. settings' \in SettingsRecords
      BY <1>1, <1>5 DEF ChangeNetwork, SettingsRecords, NetworkRecords
    <2>2. QED
      BY <1>1, <1>2, <1>5, <2>1, SettingsStep DEF ChangeNetwork
  <1>6. ASSUME NEW c \in Configs, ChangeConfig(c)
        PROVE StoreInv'
    BY <1>1, <1>2, <1>6, SettingsStep DEF ChangeConfig
  <1>7. CASE WriteFails
    BY <1>1, <1>7, StopWritingKeeps DEF WriteFails
  <1>8. CASE ResetStore
    BY <1>8, BlankIs, StopWritingKeeps DEF ResetStore
  <1>9. CASE Edit /\ UNCHANGED <<hasEEPROM, storage, settings, config, saved, cut>>
    BY <1>1, <1>2, <1>9, SettingsStep
  <1>10. QED
    BY <1>3, <1>4, <1>5, <1>6, <1>7, <1>8, <1>9, WriteSettingsKeeps, SaveKeeps DEF StoreStep

LEMMA BoardStepIsStoreStep ==
  ASSUME FirmwareTypeOK, SupervisionTypeOK, BoardNext
  PROVE StoreStep \/ UNCHANGED storeVars
  <1>1. ran \in Images
    BY DEF FirmwareTypeOK
  <1>2. CASE Startup
    <2>1. CASE JumpToOther
      BY <2>1 DEF JumpToOther, ResetStore, StoreStep
    <2>2. CASE LoadAtStart
      BY <1>1, <2>2 DEF LoadAtStart, StoreStep
    <2>3. CASE ApplyAtStart
      BY <2>3 DEF ApplyAtStart, StoreStep
    <2>4. QED
      BY <1>2, <2>1, <2>2, <2>3 DEF Startup, BootFromReset, CheckESP32
  <1>3. CASE StoreSettings \/ StoreFails
    BY <1>3 DEF StoreSettings, StoreFails, StoreStep
  <1>4. CASE LoadFailsAtStart
    BY <1>1, <1>4 DEF LoadFailsAtStart, StoreStep
  <1>5. CASE Loop \/ CarryOut \/ Upload \/ ESP32Command \/ ESP32Step
    BY <1>5 DEF Loop, CarryOut, Upload, ESP32Command, ESP32Step
  <1>6. CASE Operated
    BY <1>6 DEF Operated, StoreStep
  <1>7. CASE SettingsCommand
    <2>1. CASE Save(esp.enabled)
      <3>1. esp.enabled \in BOOLEAN
        BY DEF SupervisionTypeOK, ESP32s
      <3>2. QED
        BY <2>1, <3>1 DEF StoreStep
    <2>2. CASE \/ \E n \in Networks : ChangeNetwork(n)
               \/ \E c \in Configs : ChangeConfig(c)
               \/ ResetSettings(Layout[ran])
               \/ Load(Layout[ran])
      BY <1>1, <2>2 DEF StoreStep
    <2>3. QED
      BY <1>7, <2>1, <2>2 DEF SettingsCommand
  <1>8. CASE WatchdogReset \/ PowerLoss
    BY <1>8 DEF WatchdogReset, PowerLoss, Reset, ResetStore, StoreStep
  <1>9. QED
    BY <1>2, <1>3, <1>4, <1>5, <1>6, <1>7, <1>8 DEF BoardNext, RP2040

-----------------------------------------------------------------------------
(* The supervision of the ESP32.                                           *)

SupervisionStep ==
    \/ ESP32Boots \/ ESP32Hangs \/ StartMain
    \/ \E enabled \in BOOLEAN : ApplyToESP32(enabled) \/ EnableESP32(enabled)
    \/ \E i \in Images : ReadVersion(i) \/ FlashAtStart(i) \/ FlashCommand(i)
    \/ \E armed \in BOOLEAN : Tick(armed)
    \/ /\ phase' = phase \/ (phase = "load" /\ phase' = "apply")
       /\ unpoked' \in {unpoked, 0} /\ (Fault \/ faults' = faults)
       /\ UNCHANGED <<esp, tries, silence>>
    \/ ResetSupervision /\ (Fault \/ faults' = faults)

\* The version is read no more than MaxTries times.
TriesLeft ==
    /\ phase \in {"load", "apply"} => tries = 0
    /\ phase = "version" => tries # MaxTries

SupervisionInv == SupervisionTypeOK /\ TriesLeft

LEMMA ESP32sAre ==
  ASSUME NEW f \in Firmwares \cup {NoFirmware}
  PROVE On(f) \in ESP32s /\ Off(f) \in ESP32s
  BY SupervisionAssumption DEF On, Off, ESP32s

LEMMA CountersAre ==
  ASSUME SupervisionTypeOK
  PROVE /\ 0 \in 0 .. MaxTries /\ 0 \in 0 .. CommsLost /\ 0 \in 0 .. WatchdogTimeout
        /\ CommsLost \in 0 .. CommsLost
        /\ tries # MaxTries => tries + 1 \in 0 .. MaxTries
        /\ silence # CommsLost => silence + 1 \in 0 .. CommsLost
        /\ ~(unpoked >= WatchdogTimeout) => unpoked + 1 \in 0 .. WatchdogTimeout
        /\ faults < MaxFaults => faults + 1 \in 0 .. MaxFaults
  <1>1. /\ tries \in 0 .. MaxTries /\ silence \in 0 .. CommsLost /\ unpoked \in 0 .. WatchdogTimeout
        /\ faults \in 0 .. MaxFaults
    BY DEF SupervisionTypeOK
  <1>2. QED
    BY <1>1, SupervisionAssumption

LEMMA TickTypes ==
  ASSUME SupervisionTypeOK, NEW armed \in BOOLEAN, Tick(armed)
  PROVE SupervisionTypeOK'
  <1>1. /\ phase' = phase /\ tries' = tries /\ faults' = faults
        /\ ~Expired(armed)
        /\ esp.state = "booting" /\ Works => esp.age < BootTime
    BY DEF Tick
  <1>2. esp \in ESP32s /\ silence \in 0 .. CommsLost /\ unpoked \in 0 .. WatchdogTimeout
    BY DEF SupervisionTypeOK
  <1>3. esp.firmware \in Firmwares \cup {NoFirmware} /\ esp.age \in 0 .. BootTime
    BY <1>2 DEF ESP32s
  <1>4. unpoked' \in 0 .. WatchdogTimeout
    BY <1>1, <1>2, CountersAre DEF Tick, Expired
  <1>5. silence' \in 0 .. CommsLost
    BY <1>2, CountersAre DEF Tick
  <1>6. esp' \in ESP32s
    <2>1. CASE esp' = esp \/ esp' = On(esp.firmware)
      BY <1>2, <1>3, <2>1, ESP32sAre
    <2>2. CASE esp.state = "booting" /\ Works /\ esp' = [esp EXCEPT !.age = @ + 1]
      <3>1. esp.age + 1 \in 0 .. BootTime
        BY <1>1, <1>3, <2>2, SupervisionAssumption
      <3>2. esp' = [esp EXCEPT !.age = esp.age + 1]
        BY <2>2
      <3>3. QED
        BY <1>2, <3>1, <3>2 DEF ESP32s
    <2>3. QED
      BY <2>1, <2>2 DEF Tick
  <1>7. QED
    BY <1>1, <1>4, <1>5, <1>6 DEF SupervisionTypeOK

LEMMA SupervisionTypes ==
  ASSUME SupervisionInv, SupervisionStep
  PROVE SupervisionTypeOK'
  <1>1. /\ esp \in ESP32s /\ phase \in Phases /\ tries \in 0 .. MaxTries /\ silence \in 0 .. CommsLost
        /\ unpoked \in 0 .. WatchdogTimeout /\ faults \in 0 .. MaxFaults /\ SupervisionTypeOK
    BY DEF SupervisionTypeOK, SupervisionInv
  <1>2. esp.firmware \in Firmwares \cup {NoFirmware} /\ NoFirmware \in Firmwares \cup {NoFirmware}
    BY <1>1 DEF ESP32s
  <1>3. Fault => faults' \in 0 .. MaxFaults
    BY <1>1, CountersAre DEF Fault
  <1>4. {"load", "apply", "version", "flash", "main", "off"} \subseteq Phases
    BY DEF Phases
  <1>5. CASE ESP32Boots \/ ESP32Hangs
    <2>1. PICK state \in {"up", "hung"} : esp' = [esp EXCEPT !.state = state, !.age = 0]
      BY <1>5 DEF ESP32Boots, ESP32Hangs
    <2>2. 0 \in 0 .. BootTime
      BY SupervisionAssumption
    <2>3. esp' \in ESP32s
      BY <1>1, <2>1, <2>2 DEF ESP32s
    <2>4. QED
      BY <1>1, <1>3, <1>5, <2>3 DEF SupervisionTypeOK, ESP32Boots, ESP32Hangs
  <1>6. CASE StartMain
    BY <1>1, <1>2, <1>4, <1>6, ESP32sAre, CountersAre DEF SupervisionTypeOK, StartMain
  <1>7. ASSUME NEW enabled \in BOOLEAN, ApplyToESP32(enabled) \/ EnableESP32(enabled)
        PROVE SupervisionTypeOK'
    BY <1>1, <1>2, <1>4, <1>7, ESP32sAre DEF SupervisionTypeOK, ApplyToESP32, EnableESP32
  <1>8. ASSUME NEW i \in Images, ReadVersion(i) \/ FlashAtStart(i) \/ FlashCommand(i)
        PROVE SupervisionTypeOK'
    <2>1. FlashAndInit(i) => esp' \in ESP32s /\ faults' \in 0 .. MaxFaults
      BY <1>1, <1>2, <1>3, BoardAssumption, ESP32sAre DEF FlashAndInit
    <2>3. CASE ReadVersion(i)
      <3>1. tries' = tries \/ (tries' = tries + 1 /\ tries # MaxTries)
        BY <2>3 DEF ReadVersion, SupervisionInv, TriesLeft
      <3>2. tries' \in 0 .. MaxTries
        BY <1>1, <3>1, CountersAre
      <3>3. phase' \in Phases
        BY <1>1, <1>4, <2>3 DEF ReadVersion
      <3>4. QED
        BY <1>1, <2>3, <3>2, <3>3 DEF SupervisionTypeOK, ReadVersion
    <2>4. CASE FlashAtStart(i) \/ FlashCommand(i)
      BY <1>1, <1>4, <2>1, <2>4, CountersAre DEF SupervisionTypeOK, FlashAtStart, FlashCommand
    <2>5. QED
      BY <1>8, <2>3, <2>4
  <1>9. CASE /\ phase' = phase \/ (phase = "load" /\ phase' = "apply")
             /\ unpoked' \in {unpoked, 0} /\ (Fault \/ faults' = faults)
             /\ UNCHANGED <<esp, tries, silence>>
    BY <1>1, <1>3, <1>4, <1>9, CountersAre DEF SupervisionTypeOK
  <1>10. CASE ResetSupervision /\ (Fault \/ faults' = faults)
    BY <1>1, <1>2, <1>3, <1>4, <1>10, ESP32sAre, CountersAre DEF SupervisionTypeOK, ResetSupervision
  <1>11. QED
    BY <1>1, <1>5, <1>6, <1>7, <1>8, <1>9, <1>10, TickTypes DEF SupervisionStep

LEMMA TriesStayLeft ==
  ASSUME SupervisionInv, SupervisionStep
  PROVE TriesLeft'
  <1>1. 0 # MaxTries
    BY SupervisionAssumption
  <1>2. CASE ESP32Boots \/ ESP32Hangs \/ \E armed \in BOOLEAN : Tick(armed)
    BY <1>2 DEF SupervisionInv, TriesLeft, ESP32Boots, ESP32Hangs, Tick
  <1>3. CASE StartMain \/ ResetSupervision
    BY <1>1, <1>3 DEF TriesLeft, StartMain, ResetSupervision
  <1>4. ASSUME NEW enabled \in BOOLEAN, ApplyToESP32(enabled) \/ EnableESP32(enabled)
        PROVE TriesLeft'
    BY <1>1, <1>4 DEF SupervisionInv, TriesLeft, ApplyToESP32, EnableESP32
  <1>5. ASSUME NEW i \in Images, ReadVersion(i) \/ FlashAtStart(i) \/ FlashCommand(i)
        PROVE TriesLeft'
    BY <1>5 DEF SupervisionInv, TriesLeft, ReadVersion, FlashAtStart, FlashCommand
  <1>6. CASE (phase' = phase \/ (phase = "load" /\ phase' = "apply")) /\ tries' = tries
    BY <1>6 DEF SupervisionInv, TriesLeft
  <1>7. QED
    BY <1>2, <1>3, <1>4, <1>5, <1>6 DEF SupervisionStep

LEMMA BoardStepIsSupervisionStep ==
  ASSUME FirmwareTypeOK, StoreTypeOK, SupervisionTypeOK, BoardNext
  PROVE SupervisionStep \/ UNCHANGED supervisionVars
  <1>1. ran \in Images
    BY DEF FirmwareTypeOK
  <1>2. CASE Startup
    <2>1. CASE BootFromReset \/ JumpToOther
      BY <2>1 DEF BootFromReset, JumpToOther, SupervisionStep
    <2>2. CASE LoadAtStart
      BY <2>2 DEF LoadAtStart, SupervisionStep
    <2>3. CASE ApplyAtStart
      <3>1. settings.network.esp32_enabled \in BOOLEAN
        BY DEF StoreTypeOK, SettingsRecords, NetworkRecords
      <3>2. QED
        BY <2>3, <3>1 DEF ApplyAtStart, SupervisionStep
    <2>4. CASE CheckESP32
      BY <1>1, <2>4 DEF CheckESP32, SupervisionStep
    <2>5. QED
      BY <1>2, <2>1, <2>2, <2>3, <2>4 DEF Startup
  <1>3. CASE StoreSettings \/ CarryOut \/ LoadFailsAtStart \/ StoreFails
    BY <1>3 DEF StoreSettings, CarryOut, LoadFailsAtStart, StoreFails, SupervisionStep
  <1>4. CASE Loop
    <2>1. Armed \in BOOLEAN
      BY DEF Armed
    <2>2. QED
      BY <1>4, <2>1 DEF Loop, SupervisionStep
  <1>5. CASE Upload \/ Operated \/ SettingsCommand
    BY <1>5 DEF Upload, Operated, SettingsCommand
  <1>6. CASE ESP32Command \/ ESP32Step
    BY <1>1, <1>6 DEF ESP32Command, ESP32Step, SupervisionStep
  <1>7. CASE WatchdogReset \/ PowerLoss
    BY <1>7 DEF WatchdogReset, PowerLoss, Reset, SupervisionStep
  <1>8. QED
    BY <1>2, <1>3, <1>4, <1>5, <1>6, <1>7 DEF BoardNext, RP2040

-----------------------------------------------------------------------------
(* The board.                                                              *)

BoardInv == FirmwareInv /\ StoreInv /\ SupervisionInv

LEMMA BoardInvInit == BoardInit => BoardInv
  <1> SUFFICES ASSUME BoardInit PROVE BoardInv
    OBVIOUS
  <1>1. FirmwareInv
    BY FirmwareInvInit DEF BoardInit
  <1>2. StoreInv
    <2>1. StoreInit
      BY DEF BoardInit
    <2>2. 0 \in 0 .. MaxEdits
      BY StoreAssumption
    <2>3. StoreTypeOK
      BY <2>1, <2>2, BlankIs, PartsAre, StoreAssumption DEF StoreInit, StoreTypeOK
    <2>4. NetworkIsSaved
      BY <2>1 DEF StoreInit, NetworkIsSaved
    <2>5. QED
      BY <2>3, <2>4 DEF StoreInv
  <1>3. SupervisionInv
    <2>1. SupervisionInit
      BY DEF BoardInit
    <2>2. 0 \in 0 .. MaxTries /\ 0 \in 0 .. CommsLost /\ 0 \in 0 .. WatchdogTimeout /\ 0 \in 0 .. MaxFaults
      BY SupervisionAssumption
    <2>3. SupervisionTypeOK
      BY <2>1, <2>2, ESP32sAre DEF SupervisionInit, SupervisionTypeOK, Phases
    <2>4. QED
      BY <2>1, <2>3 DEF SupervisionInit, SupervisionInv, TriesLeft
  <1>4. QED
    BY <1>1, <1>2, <1>3 DEF BoardInv

LEMMA BoardInvStep == BoardInv /\ [BoardNext]_boardVars => BoardInv'
  <1> SUFFICES ASSUME BoardInv, [BoardNext]_boardVars PROVE BoardInv'
    OBVIOUS
  <1>1. FirmwareInv'
    BY BoardStepIsFirmwareStep, FirmwareInvStep DEF BoardInv
  <1>2. FirmwareTypeOK /\ StoreTypeOK /\ SupervisionTypeOK
    BY DEF BoardInv, FirmwareInv, StoreInv, SupervisionInv
  <1>3. StoreInv'
    <2>1. CASE StoreStep
      BY <2>1, StoreStepKeeps DEF BoardInv
    <2>2. CASE UNCHANGED storeVars
      BY <2>2 DEF storeVars, storage, BoardInv, StoreInv, StoreTypeOK, NetworkIsSaved
    <2>3. QED
      BY <1>2, <2>1, <2>2, BoardStepIsStoreStep DEF boardVars
  <1>4. SupervisionInv'
    <2>1. CASE SupervisionStep
      BY <2>1, SupervisionTypes, TriesStayLeft DEF BoardInv, SupervisionInv
    <2>2. CASE UNCHANGED supervisionVars
      BY <2>2 DEF supervisionVars, BoardInv, SupervisionInv, SupervisionTypeOK, TriesLeft
    <2>3. QED
      BY <1>2, <2>1, <2>2, BoardStepIsSupervisionStep DEF boardVars
  <1>5. QED
    BY <1>1, <1>3, <1>4 DEF BoardInv

LEMMA BoardInvAlways == BoardSpec => []BoardInv
  BY BoardInvInit, BoardInvStep, PTL DEF BoardSpec

\* Type correctness of the board.
THEOREM BoardTypes == BoardSpec => []BoardTypeOK
  <1>1. BoardInv => BoardTypeOK
    BY DEF BoardInv, FirmwareInv, StoreInv, SupervisionInv, BoardTypeOK
  <1>2. QED
    BY <1>1, BoardInvAlways, PTL

\* Only Load takes main() from loading the settings to applying them without a fault.
LEMMA LoadsLoads ==
  ASSUME BoardInv, BoardNext, Loads
  PROVE Load(Layout[ran])
  <1>1. faults' = faults /\ phase = "load" /\ phase' = "apply"
    BY DEF Loads
  <1>2. ~Fault
    <2>1. faults \in Nat
      BY SupervisionAssumption DEF BoardInv, SupervisionInv, SupervisionTypeOK
    <2>2. faults + 1 # faults
      BY <2>1
    <2>3. QED
      BY <1>1, <2>2 DEF Fault
  <1>3. ~Startup => FALSE
    <2>1. ~(StoreSettings \/ Loop \/ CarryOut \/ Upload \/ Operated \/ SettingsCommand)
      BY <1>1 DEF StoreSettings, Loop, Tick, CarryOut, Upload, Operated, SettingsCommand, supervisionVars
    <2>2. ~(WatchdogReset \/ PowerLoss)
      BY <1>1 DEF WatchdogReset, PowerLoss, Reset, ResetSupervision
    <2>3. ~(LoadFailsAtStart \/ StoreFails)
      BY <1>2 DEF LoadFailsAtStart, StoreFails
    <2>4. ~(ESP32Command \/ ESP32Step)
      BY <1>1 DEF ESP32Command, EnableESP32, FlashCommand, ESP32Step, ESP32Boots, ESP32Hangs
    <2>5. QED
      BY <2>1, <2>2, <2>3, <2>4 DEF BoardNext, RP2040
  <1>4. ~(BootFromReset \/ JumpToOther \/ ApplyAtStart \/ CheckESP32)
    BY <1>1 DEF BootFromReset, JumpToOther, StartMain, ApplyAtStart, ApplyToESP32, CheckESP32, ReadVersion, FlashAtStart, supervisionVars
  <1>5. QED
    BY <1>3, <1>4 DEF Startup, LoadAtStart

\* An image that loads its settings without a fault gets network settings that
\* were saved, unless a write of them was cut short, or they are of another
\* layout and their CRC is wrong.
THEOREM SavedNetworkIsLoaded == BoardSpec => NetworkSettingsKept
  <1>1. BoardInv /\ [BoardNext]_boardVars =>
           [Loads /\ ~cut /\ (stored.version = Layout[ran] \/ stored.network.sealed)
               => settings'.network.value \in saved]_boardVars
    <2> SUFFICES ASSUME BoardInv, BoardNext, Loads, ~cut, stored.version = Layout[ran] \/ stored.network.sealed
                 PROVE settings'.network.value \in saved
      OBVIOUS
    <2>1. Load(Layout[ran])
      BY LoadsLoads
    <2>2. Layout[ran] \in Versions
      BY BoardAssumption DEF BoardInv, FirmwareInv, FirmwareTypeOK
    <2>3. stored # Blank
      BY <2>2, BlankIs, StoreAssumption
    <2>4. stored.network.value \in saved
      BY <2>1, <2>3 DEF Load, StoreIdle, BoardInv, StoreInv, NetworkIsSaved
    <2>5. CASE stored.version = Layout[ran]
      BY <2>1, <2>4, <2>5 DEF Load
    <2>6. CASE stored.version # Layout[ran]
      <3>1. settings' = [Defaults(Layout[ran]) EXCEPT !.network = stored.network]
        BY <2>1, <2>6 DEF Load
      <3>2. settings'.network = stored.network
        BY <2>2, <3>1, DefaultsAre DEF SettingsRecords
      <3>3. QED
        BY <2>4, <3>2
    <2>7. QED
      BY <2>5, <2>6
  <1>2. QED
    BY <1>1, BoardInvAlways, PTL DEF BoardSpec, NetworkSettingsKept

\* An image that goes into its loop without flashing the ESP32 has read the
\* version of its own firmware there.
THEOREM LoopMeansMatch == BoardSpec => ESP32MatchesImage
  <1>1. BoardNext => [phase = "version" /\ phase' = "main" => esp'.firmware = ran]_boardVars
    <2> SUFFICES ASSUME BoardNext, phase = "version", phase' = "main" PROVE esp'.firmware = ran
      OBVIOUS
    <2>1. ~(LoadFailsAtStart \/ StoreFails \/ Upload \/ Operated \/ SettingsCommand)
      BY DEF LoadFailsAtStart, StoreFails, Upload, Operated, Idle, SettingsCommand, supervisionVars
    <2>2. ~(StoreSettings \/ Loop \/ CarryOut \/ WatchdogReset)
      BY DEF StoreSettings, Loop, CarryOut, WatchdogReset, Idle
    <2>3. ~(ESP32Command \/ ESP32Step \/ PowerLoss)
      BY DEF ESP32Command, Idle, ESP32Step, ESP32Boots, ESP32Hangs, PowerLoss, Reset, ResetSupervision
    <2>4. ~(BootFromReset \/ JumpToOther \/ LoadAtStart \/ ApplyAtStart)
      BY DEF BootFromReset, JumpToOther, StartMain, LoadAtStart, ApplyAtStart, ApplyToESP32, supervisionVars
    <2>5. ReadVersion(ran)
      BY <2>1, <2>2, <2>3, <2>4 DEF BoardNext, RP2040, Startup, CheckESP32, FlashAtStart
    <2> QED
      BY <2>5 DEF ReadVersion
  <1>2. QED
    BY <1>1, PTL DEF BoardSpec, ESP32MatchesImage
=============================================================================
