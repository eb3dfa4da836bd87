--------------------------- MODULE SavereflowProofs ---------------------------
(***************************************************************************)
(* savereflow, as a process over two files and as edits of a card.         *)
(*                                                                         *)
(* ReflowRun: for every set of cards, every glossary, any number of runs   *)
(* and of saves by the game at any moment, the types, what a verified      *)
(* backup is worth, that a card the game did not save into the run of is   *)
(* always recoverable, and that the two files implement the vault.         *)
(*                                                                         *)
(* SaveCard: for any number of blocks, chunks and records, any glossary,   *)
(* and cards of any contents, every property the runs check of it.         *)
(***************************************************************************)
EXTENDS ReflowRun, SaveCard, NaturalLemmas

(***************************************************************************)
(* The process: ReflowRun.                                                 *)
(***************************************************************************)

\* The steps of an applying process, from the card in memory to the end.
Applying == {"backup", "copy", "copying", "compare", "open", "write", "reread"}

\* What a process knows, whoever else writes the card.
ProcessInv ==
  /\ pc \in {"judge"} \cup Applying => mem \in Cards
  /\ pc \in Applying =>
       /\ mem \in Valid /\ args.mode = "apply" /\ args.glossary \in Glossaries
       /\ Reflowed[args.glossary][mem] # mem
  /\ pc \in {"read", "judge"} => args.mode # "restore"
  /\ pc \in {"restore", "restoring", "restored"} => args.mode = "restore"
  /\ pc \in {"judge"} \cup (Applying \ {"write", "reread"}) => card \in Cards
  /\ pc \in {"copy", "copying", "compare"} => src \in Cards
  /\ pc = "copy" => backup = Absent \/ args.force
  /\ pc = "copying" => backup = Torn
  /\ pc \in {"write", "restoring"} => card = Torn
  /\ pc \in {"restoring", "restored"} => backup # Absent
  /\ outcome # "none" => pc = "idle"

\* What the backup is worth.
BackupInv ==
  /\ taken # Absent => backup = taken
  /\ pc \in {"copying", "compare"} => taken = Absent
  /\ pc \in {"restoring", "restored"} => src = backup
  /\ outcome = "restored" => card = backup

\* Unless the game has saved into the run, the card on disk is the card in memory until it is
\* truncated, and is truncated only when the backup has it.
QuietInv ==
  /\ ~raced =>
       /\ pc \in {"judge"} \cup Applying => owed = mem
       /\ pc \in {"judge", "backup", "copy", "copying", "compare", "open"} => card = mem
       /\ pc \in {"copy", "copying", "compare"} => src = mem
       /\ pc \in {"open", "write", "reread"} => backup = mem
       /\ pc = "reread" => card = Reflowed[args.glossary][mem]
  /\ Recoverable
  /\ OkMeansReflowed

\* What was put aside before the card is truncated is a card, and is the card on disk unless
\* the game has saved since the copy.
CopyInv ==
  /\ pc = "compare" /\ ~late => backup \in {card, Torn}
  /\ pc \in {"open", "write", "reread"} => backup \in Cards
  /\ pc = "open" /\ ~late => backup = card

IInv == RunTypeOK /\ ProcessInv /\ BackupInv /\ CopyInv

\* The variables stay in their types, and a process in what it knows, whatever interrupts it.
LEMMA ProcessCorrect == RunSpec => [](RunTypeOK /\ ProcessInv)
<1> USE CardsAssumption, ReflowAssumption, BoundsAssumption
<1>1. RunInit => RunTypeOK
  <2> SUFFICES ASSUME RunInit PROVE RunTypeOK
    OBVIOUS
  <2>1. args \in Args BY DEF RunInit, Args, Modes
  <2>2. invocations \in 0..MaxInvocations /\ gameSaves \in 0..MaxGameSaves BY DEF RunInit
  <2> QED BY <2>1, <2>2 DEF RunInit, RunTypeOK, PCs, Outcomes
<1>2. RunInit => ProcessInv
  BY DEF RunInit, ProcessInv, Applying
<1>3. RunTypeOK /\ ProcessInv /\ [RunNext]_runVars => RunTypeOK' /\ ProcessInv'
  <2> SUFFICES ASSUME RunTypeOK, ProcessInv, [RunNext]_runVars
               PROVE  RunTypeOK' /\ ProcessInv'
    OBVIOUS
  <2> USE DEF RunTypeOK, ProcessInv, Applying, PCs, Outcomes, Goto, Exit, process
  <2>1. ASSUME NEW a \in Args, Start(a) PROVE RunTypeOK' /\ ProcessInv'
    BY <2>1 DEF Start
  <2>2. CASE ReadCard BY <2>2 DEF ReadCard
  <2>3. CASE Judge
    <3>1. CASE Verdict = "write"
      <4>1. /\ mem \in Valid /\ args.mode = "apply" /\ args.glossary \in Glossaries
            /\ Reflowed[args.glossary][mem] # mem
        BY <2>3, <3>1 DEF Judge, Verdict, Args, Modes
      <4> QED BY <2>3, <3>1, <4>1 DEF Judge
    <3>2. CASE Verdict # "write"
      <4>1. Verdict \in Outcomes
        BY <3>2 DEF Verdict
      <4> QED BY <2>3, <3>2, <4>1 DEF Judge
    <3> QED BY <3>1, <3>2
  <2>4. CASE HashCard BY <2>4 DEF HashCard
  <2>5. CASE BackupBegin BY <2>5 DEF BackupBegin
  <2>6. CASE BackupEnd BY <2>6 DEF BackupEnd
  <2>7. CASE CompareBackup BY <2>7 DEF CompareBackup
  <2>8. CASE OpenCard BY <2>8 DEF OpenCard
  <2>9. CASE WriteCard BY <2>9 DEF WriteCard
  <2>10. CASE Reread BY <2>10 DEF Reread
  <2>11. CASE RestoreBegin BY <2>11 DEF RestoreBegin
  <2>12. CASE RestoreEnd BY <2>12 DEF RestoreEnd
  <2>13. CASE RestoreCompare BY <2>13 DEF RestoreCompare
  <2>14. CASE Crash BY <2>14 DEF Crash
  <2>15. ASSUME NEW c \in Valid, GameSave(c) PROVE RunTypeOK' /\ ProcessInv'
    BY <2>15 DEF GameSave
  <2>16. CASE UNCHANGED runVars BY <2>16 DEF runVars
  <2> QED
    BY <2>1, <2>2, <2>3, <2>4, <2>5, <2>6, <2>7, <2>8, <2>9, <2>10, <2>11, <2>12,
       <2>13, <2>14, <2>15, <2>16 DEF RunNext, Tool
<1> QED BY <1>1, <1>2, <1>3, PTL DEF RunSpec

\* The variables stay in their types.
THEOREM TypeCorrect == RunSpec => []RunTypeOK
BY ProcessCorrect, PTL

LEMMA BackupInvInit == RunInit => BackupInv
BY DEF RunInit, BackupInv

LEMMA BackupInvStep ==
  RunTypeOK /\ ProcessInv /\ BackupInv /\ [RunNext]_runVars => BackupInv'
<1> SUFFICES ASSUME RunTypeOK, ProcessInv, BackupInv, [RunNext]_runVars PROVE BackupInv'
  OBVIOUS
<1> USE CardsAssumption DEF ProcessInv, BackupInv, Applying, Goto, Exit, process
<1>1. ASSUME NEW a \in Args, Start(a) PROVE BackupInv' BY <1>1 DEF Start
<1>2. CASE ReadCard BY <1>2 DEF ReadCard
<1>3. CASE Judge BY <1>3 DEF Judge, Verdict
<1>4. CASE HashCard BY <1>4 DEF HashCard
<1>5. CASE BackupBegin BY <1>5 DEF BackupBegin
<1>6. CASE BackupEnd BY <1>6 DEF BackupEnd
<1>7. CASE CompareBackup BY <1>7 DEF CompareBackup
<1>8. CASE OpenCard BY <1>8 DEF OpenCard
<1>9. CASE WriteCard BY <1>9 DEF WriteCard
<1>10. CASE Reread BY <1>10 DEF Reread
<1>11. CASE RestoreBegin BY <1>11 DEF RestoreBegin
<1>12. CASE RestoreEnd BY <1>12 DEF RestoreEnd
<1>13. CASE RestoreCompare BY <1>13 DEF RestoreCompare
<1>14. CASE Crash BY <1>14 DEF Crash
<1>15. ASSUME NEW c \in Valid, GameSave(c) PROVE BackupInv' BY <1>15 DEF GameSave
<1>16. CASE UNCHANGED runVars BY <1>16 DEF runVars
<1> QED
  BY <1>1, <1>2, <1>3, <1>4, <1>5, <1>6, <1>7, <1>8, <1>9, <1>10, <1>11, <1>12,
     <1>13, <1>14, <1>15, <1>16 DEF RunNext, Tool

LEMMA CopyInvStep ==
  RunTypeOK /\ ProcessInv /\ CopyInv /\ [RunNext]_runVars => CopyInv'
<1> SUFFICES ASSUME RunTypeOK, ProcessInv, CopyInv, [RunNext]_runVars PROVE CopyInv'
  OBVIOUS
<1> USE CardsAssumption DEF ProcessInv, CopyInv, Applying, Goto, Exit, process
<1>1. ASSUME NEW a \in Args, Start(a) PROVE CopyInv' BY <1>1 DEF Start
<1>2. CASE ReadCard BY <1>2 DEF ReadCard
<1>3. CASE Judge BY <1>3 DEF Judge
<1>4. CASE HashCard BY <1>4 DEF HashCard
<1>5. CASE BackupBegin BY <1>5 DEF BackupBegin
<1>6. CASE BackupEnd BY <1>6 DEF BackupEnd
<1>7. CASE CompareBackup BY <1>7 DEF CompareBackup
<1>8. CASE OpenCard BY <1>8 DEF OpenCard
<1>9. CASE WriteCard BY <1>9 DEF WriteCard
<1>10. CASE Reread BY <1>10 DEF Reread
<1>11. CASE RestoreBegin BY <1>11 DEF RestoreBegin
<1>12. CASE RestoreEnd BY <1>12 DEF RestoreEnd
<1>13. CASE RestoreCompare BY <1>13 DEF RestoreCompare
<1>14. CASE Crash BY <1>14 DEF Crash
<1>15. ASSUME NEW c \in Valid, GameSave(c) PROVE CopyInv' BY <1>15 DEF GameSave
<1>16. CASE UNCHANGED runVars BY <1>16 DEF runVars
<1> QED
  BY <1>1, <1>2, <1>3, <1>4, <1>5, <1>6, <1>7, <1>8, <1>9, <1>10, <1>11, <1>12,
     <1>13, <1>14, <1>15, <1>16 DEF RunNext, Tool

\* The strengthening the safety theorems rest on.
THEOREM Invariance == RunSpec => []IInv
<1>1. RunInit => BackupInv BY BackupInvInit
<1>2. RunTypeOK /\ ProcessInv /\ BackupInv /\ [RunNext]_runVars => BackupInv' BY BackupInvStep
<1>3. RunInit => CopyInv BY DEF RunInit, CopyInv
<1>4. RunTypeOK /\ ProcessInv /\ CopyInv /\ [RunNext]_runVars => CopyInv' BY CopyInvStep
<1> QED BY <1>1, <1>2, <1>3, <1>4, ProcessCorrect, PTL DEF RunSpec, IInv

\* A restore that reports success puts back the card the backup was verified to copy.
THEOREM RestoreRoundTrips == RunSpec => []RoundTrip
<1>1. IInv => RoundTrip BY DEF IInv, BackupInv, RoundTrip
<1> QED BY <1>1, Invariance, PTL

\* A verified backup is displaced only by --force-backup and a card that validates.
THEOREM BackupIsKept == RunSpec => BackupKept
<1>1. IInv /\ [RunNext]_runVars
        => [taken # Absent /\ taken' # taken => args.force /\ mem \in Valid]_runVars
  <2> SUFFICES ASSUME IInv, RunNext, taken # Absent, taken' # taken
               PROVE  args.force /\ mem \in Valid
    BY DEF runVars
  <2> USE DEF IInv, ProcessInv, BackupInv, Applying
  <2>1. BackupBegin \/ CompareBackup
    BY DEF RunNext, Tool, Start, ReadCard, Judge, HashCard, BackupEnd, OpenCard, WriteCard,
           Reread, RestoreBegin, RestoreEnd, RestoreCompare, Crash, GameSave, Exit
  <2>2. CASE BackupBegin BY <2>2 DEF BackupBegin
  <2>3. CASE CompareBackup BY <2>3 DEF CompareBackup
  <2> QED BY <2>1, <2>2, <2>3
<1> QED BY <1>1, Invariance, PTL DEF RunSpec, BackupKept

-----------------------------------------------------------------------------
(* A run the game does not save into: the card is in one of the two files. *)

LEMMA QuietInvInit == RunInit => QuietInv
BY CardsAssumption DEF RunInit, QuietInv, Applying, Recoverable, OkMeansReflowed

LEMMA QuietInvStep ==
  ASSUME IInv, QuietInv, [RunNext]_runVars
  PROVE  QuietInv'
<1> USE CardsAssumption
    DEF IInv, RunTypeOK, ProcessInv, BackupInv, QuietInv, Applying, Goto, Exit, process,
        Recoverable, OkMeansReflowed
<1>1. ASSUME NEW a \in Args, Start(a) PROVE QuietInv' BY <1>1 DEF Start
<1>2. CASE ReadCard BY <1>2 DEF ReadCard
<1>3. CASE Judge BY <1>3 DEF Judge, Verdict
<1>4. CASE HashCard BY <1>4 DEF HashCard
<1>5. CASE BackupBegin BY <1>5 DEF BackupBegin
<1>6. CASE BackupEnd BY <1>6 DEF BackupEnd
<1>7. CASE CompareBackup BY <1>7 DEF CompareBackup
<1>8. CASE OpenCard BY <1>8 DEF OpenCard
<1>9. CASE WriteCard BY <1>9 DEF WriteCard
<1>10. CASE Reread BY <1>10 DEF Reread
<1>11. CASE RestoreBegin BY <1>11 DEF RestoreBegin
<1>12. CASE RestoreEnd BY <1>12 DEF RestoreEnd
<1>13. CASE RestoreCompare BY <1>13 DEF RestoreCompare
<1>14. CASE Crash BY <1>14 DEF Crash
<1>15. ASSUME NEW c \in Valid, GameSave(c) PROVE QuietInv' BY <1>15 DEF GameSave
<1>16. CASE UNCHANGED runVars BY <1>16 DEF runVars
<1> QED
  BY <1>1, <1>2, <1>3, <1>4, <1>5, <1>6, <1>7, <1>8, <1>9, <1>10, <1>11, <1>12,
     <1>13, <1>14, <1>15, <1>16 DEF RunNext, Tool

LEMMA QuietInvariance == RunSpec => []QuietInv
<1>1. RunInit => QuietInv BY QuietInvInit
<1>2. IInv /\ QuietInv /\ [RunNext]_runVars => QuietInv' BY QuietInvStep
<1> QED BY <1>1, <1>2, Invariance, PTL DEF RunSpec

\* No crash, at any step of any sequence of runs, leaves the player without the card.
THEOREM CardIsRecoverable == RunSpec => []Recoverable
<1>1. QuietInv => Recoverable BY DEF QuietInv
<1> QED BY <1>1, QuietInvariance, PTL

\* OK means that the card is the reflow of what the backup holds.
THEOREM OkIsReflowed == RunSpec => []OkMeansReflowed
<1>1. QuietInv => OkMeansReflowed BY DEF QuietInv
<1> QED BY <1>1, QuietInvariance, PTL

-----------------------------------------------------------------------------
(* The refinement: initial states, then steps. *)

LEMMA VaultInit == RunInit => Vault!Init
BY CardsAssumption DEF RunInit, Vault!Init, Whole, Nothing

\* A process serves a command line, and one past its plan has something to write.
LEMMA Serving ==
  ASSUME IInv, pc # "idle"
  PROVE  /\ args # NoRequest
         /\ pc \in Applying => Vault!Planned
<1>1. args # NoRequest BY DEF IInv, RunTypeOK, Args, Modes, NoRequest
<1>2. ASSUME pc \in Applying PROVE Vault!Planned
  BY <1>2, ReflowAssumption DEF IInv, ProcessInv, Vault!Planned, Glossaries
<1> QED BY <1>1, <1>2

\* A process that is answered, or dies, leaves the card and the backup.
LEMMA VaultEnd ==
  ASSUME IInv, pc # "idle", NEW result, Exit(result),
         UNCHANGED <<card, backup, gameSaves, raced, late>>
  PROVE  Vault!End
BY Serving DEF Exit, Vault!End, Whole, Nothing

LEMMA VaultStep ==
  ASSUME IInv, QuietInv, [RunNext]_runVars
  PROVE  [Vault!Next]_(Vault!vars)
<1> USE CardsAssumption, ReflowAssumption
    DEF IInv, RunTypeOK, ProcessInv, BackupInv, CopyInv, Applying, Goto,
        Vault!vars, Vault!tool, Whole, Nothing
<1>1. ASSUME NEW a \in Args, Start(a) PROVE Vault!Next
  <2>1. Vault!Request(a) BY <1>1 DEF Start, Vault!Request
  <2> QED BY <2>1 DEF Vault!Next
<1>2. CASE ReadCard
  <2>1. CASE card \in Cards
    <3>1. Vault!Look BY <1>2, <2>1, Serving DEF ReadCard, Vault!Look
    <3> QED BY <3>1 DEF Vault!Next
  <2>2. CASE card \notin Cards
    <3>1. Vault!End BY <1>2, <2>2, VaultEnd DEF ReadCard
    <3> QED BY <3>1 DEF Vault!Next
  <2> QED BY <2>1, <2>2
<1>3. CASE Judge
  <2>1. CASE Verdict = "write" BY <1>3, <2>1 DEF Judge, process
  <2>2. CASE Verdict # "write"
    <3>1. Vault!End BY <1>3, <2>2, VaultEnd DEF Judge
    <3> QED BY <3>1 DEF Vault!Next
  <2> QED BY <2>1, <2>2
<1>4. CASE HashCard
  <2>1. CASE backup # Absent /\ ~args.force
    <3>1. Vault!End BY <1>4, <2>1, VaultEnd DEF HashCard
    <3> QED BY <3>1 DEF Vault!Next
  <2>2. CASE ~(backup # Absent /\ ~args.force) BY <1>4, <2>2 DEF HashCard
  <2> QED BY <2>1, <2>2
<1>5. CASE BackupBegin
  <2>1. CASE args.force
    <3>1. Vault!Discard BY <1>5, <2>1, Serving DEF BackupBegin, Vault!Discard
    <3> QED BY <3>1 DEF Vault!Next
  <2>2. CASE backup = Absent BY <1>5, <2>2 DEF BackupBegin
  <2> QED BY <1>5, <2>1, <2>2 DEF BackupBegin
<1>6. CASE BackupEnd
  <2>1. CASE backup' = card
    <3>1. Vault!PutAside BY <1>6, <2>1, Serving DEF BackupEnd, Vault!PutAside
    <3> QED BY <3>1 DEF Vault!Next
  <2>2. CASE backup' = Torn BY <1>6, <2>2 DEF BackupEnd
  <2> QED BY <1>6, <2>1, <2>2 DEF BackupEnd
<1>7. CASE CompareBackup
  <2>1. CASE backup = src BY <1>7, <2>1 DEF CompareBackup, process
  <2>2. CASE backup # src
    <3>1. Vault!End BY <1>7, <2>2, VaultEnd DEF CompareBackup
    <3> QED BY <3>1 DEF Vault!Next
  <2> QED BY <2>1, <2>2
<1>8. CASE OpenCard
  <2>1. CASE late
    <3>1. Vault!Lose BY <1>8, <2>1, Serving DEF OpenCard, Vault!Lose
    <3> QED BY <3>1 DEF Vault!Next
  <2>2. CASE ~late BY <1>8, <2>2 DEF OpenCard
  <2> QED BY <2>1, <2>2
<1>9. CASE WriteCard
  <2>1. mem = backup \/ raced BY <1>9 DEF WriteCard, QuietInv
  <2>2. Reflowed[args.glossary][mem] \in Cards BY <1>9 DEF WriteCard
  <2>3. Vault!Replace BY <1>9, <2>1, <2>2, Serving DEF WriteCard, Vault!Replace
  <2> QED BY <2>3 DEF Vault!Next
<1>10. CASE Reread
  <2>1. Vault!End BY <1>10, VaultEnd DEF Reread
  <2> QED BY <2>1 DEF Vault!Next
<1>11. CASE RestoreBegin
  <2>1. CASE backup = Absent
    <3>1. Vault!End BY <1>11, <2>1, VaultEnd DEF RestoreBegin
    <3> QED BY <3>1 DEF Vault!Next
  <2>2. CASE backup # Absent
    <3>1. Vault!Restore BY <1>11, <2>2 DEF RestoreBegin, Vault!Restore
    <3> QED BY <3>1 DEF Vault!Next
  <2> QED BY <2>1, <2>2
<1>12. CASE RestoreEnd BY <1>12 DEF RestoreEnd
<1>13. CASE RestoreCompare
  <2>1. Vault!End BY <1>13, VaultEnd DEF RestoreCompare
  <2> QED BY <2>1 DEF Vault!Next
<1>14. CASE Crash
  <2>1. Vault!End BY <1>14, VaultEnd DEF Crash
  <2> QED BY <2>1 DEF Vault!Next
<1>15. ASSUME NEW c \in Valid, GameSave(c) PROVE Vault!Next
  <2>1. pc # "idle" => args # NoRequest BY Serving
  <2>2. Vault!Play BY <1>15, <2>1 DEF GameSave, Vault!Play
  <2> QED BY <2>2 DEF Vault!Next
<1>16. CASE UNCHANGED runVars BY <1>16 DEF runVars
<1> QED
  BY <1>1, <1>2, <1>3, <1>4, <1>5, <1>6, <1>7, <1>8, <1>9, <1>10, <1>11, <1>12,
     <1>13, <1>14, <1>15, <1>16 DEF RunNext, Tool

\* Two files, slow copies and processes that die implement the vault.
THEOREM FilesImplementVault == RunSpec => ImplementsVault
<1>1. RunInit => Vault!Init BY VaultInit
<1>2. IInv /\ QuietInv /\ [RunNext]_runVars => [Vault!Next]_(Vault!vars) BY VaultStep
<1> QED
  BY <1>1, <1>2, Invariance, QuietInvariance, PTL DEF RunSpec, ImplementsVault, Vault!Spec

(***************************************************************************)
(* The bytes of the card: SaveCard.                                        *)
(***************************************************************************)

(* Where names lie. *)

Addr(i, k) == RecordBase + RecordStride * i + (k - 1)

\* A cell of a name lies in the save body, and not in chunk 0, which holds the present map.
LEMMA SiteTypes ==
  ASSUME NEW i \in Records, NEW k \in 1..NameLen
  PROVE  /\ Addr(i, k) \in Int
         /\ Site(i, k) = <<Addr(i, k) \div ChunkData, Addr(i, k) % ChunkData>>
         /\ Site(i, k)[1] \in Chunks /\ Site(i, k)[1] # 0 /\ Site(i, k)[2] \in Offsets
<1> DEFINE x == Addr(i, k)
           lo == 1
           hi == NChunks
<1>1. /\ NameLen \in Nat \ {0} /\ RecordStride \in Nat /\ RecordBase \in Nat /\ NRecords \in Nat
      /\ ChunkData \in Nat \ {0} /\ NChunks \in Nat \ {0} /\ i \in Int /\ i <= NRecords - 1
      /\ i \in Nat /\ k \in Int
  BY GeometryAssumption DEF Records
<1>2. RecordStride * i \in Nat /\ RecordStride * i <= RecordStride * (NRecords - 1)
  <2>1. i * RecordStride <= (NRecords - 1) * RecordStride BY <1>1, TimesMonotone
  <2>2. /\ i * RecordStride = RecordStride * i /\ i * RecordStride \in Nat
        /\ (NRecords - 1) * RecordStride = RecordStride * (NRecords - 1)
    BY <1>1
  <2> QED BY <2>1, <2>2
<1>3. RecordStride * (NRecords - 1) \in Int /\ NChunks * ChunkData \in Int /\ 1 * ChunkData = ChunkData
  BY <1>1
<1>4. x \in Int /\ lo * ChunkData <= x /\ x < hi * ChunkData
  BY <1>1, <1>2, <1>3, GeometryAssumption DEF Addr
<1>5. lo \in Int /\ hi \in Int BY <1>1
<1>6. Site(i, k) = <<x \div ChunkData, x % ChunkData>> BY DEF Site, Addr
<1> HIDE DEF x, lo, hi
<1>7. x \div ChunkData \in lo .. hi - 1 BY <1>1, <1>4, <1>5, DivBetween
<1>8. x % ChunkData \in 0 .. ChunkData - 1 BY <1>1, <1>4, DivMod
<1>9. x \div ChunkData \in Chunks /\ x \div ChunkData # 0 BY <1>1, <1>7 DEF lo, hi, Chunks
<1> QED BY <1>4, <1>6, <1>8, <1>9 DEF Offsets, x

\* No cell belongs to two names, or to two places of one.
LEMMA SitesApart ==
  ASSUME NEW i \in Records, NEW k \in 1..NameLen, NEW m \in Records, NEW l \in 1..NameLen,
         Site(i, k) = Site(m, l)
  PROVE  i = m /\ k = l
<1> DEFINE x == Addr(i, k)
           y == Addr(m, l)
<1>1. /\ NameLen \in Nat \ {0} /\ RecordStride \in Nat \ {0} /\ RecordBase \in Nat
      /\ ChunkData \in Nat \ {0} /\ NameLen <= RecordStride
      /\ i \in Int /\ m \in Int /\ k \in 1..NameLen /\ l \in 1..NameLen
  BY GeometryAssumption DEF Records
<1>2. x = y
  <2>1. x \in Int /\ y \in Int /\ x \div ChunkData = y \div ChunkData /\ x % ChunkData = y % ChunkData
    BY SiteTypes
  <2> HIDE DEF x, y
  <2>2. x = (x \div ChunkData) * ChunkData + (x % ChunkData) BY <2>1, <1>1, DivMod
  <2>3. y = (y \div ChunkData) * ChunkData + (y % ChunkData) BY <2>1, <1>1, DivMod
  <2> QED BY <2>1, <2>2, <2>3
<1> DEFINE z == RecordStride * i + (k - 1)
           p == k - 1
           q == l - 1
<1>3. /\ z \in Int /\ z = i * RecordStride + p /\ p \in 0 .. RecordStride - 1
      /\ RecordStride * i \in Int /\ RecordStride * m \in Int
      /\ RecordStride * m = m * RecordStride
  <2>1. /\ RecordStride * i = i * RecordStride /\ RecordStride * i \in Int
        /\ RecordStride * m \in Int /\ RecordStride * m = m * RecordStride
    BY <1>1, Distribute
  <2> QED BY <2>1, <1>1
<1>4. z = m * RecordStride + q /\ q \in 0 .. RecordStride - 1
  <2>1. z = RecordStride * m + (l - 1) BY <1>1, <1>2, <1>3 DEF Addr
  <2> QED BY <2>1, <1>1, <1>3
<1> HIDE DEF z, p, q
<1>5. z \div RecordStride = i /\ z % RecordStride = p BY <1>1, <1>3, DivModUnique
<1>6. z \div RecordStride = m /\ z % RecordStride = q
  <2>1. z \in Int /\ RecordStride \in Nat \ {0} /\ m \in Int BY <1>1, <1>3
  <2> QED BY <2>1, <1>4, DivModUnique
<1> QED BY <1>1, <1>5, <1>6 DEF p, q

----------------------------------------------------------------------------
(* What is written into a field. *)

NewName(v)  == PadTo(EncodeFullwidth(v), NameLen, Zero)
NewPlace(v) == PadTo(EncodeFullwidth(v), PlaceLen, FwSpace)

\* What a glossary may write into a field of n cells.
Fit(g, n) == {v \in {g[k] : k \in DOMAIN g} : Encodable(v) /\ Len(v) <= n}

\* What plan_block takes of the glossary fits.
LEMMA LookupFits ==
  ASSUME NEW g, NEW text, NEW n, Writable(g, text, n) PROVE Lookup(g, text) \in Fit(g, n)
BY DEF Writable, Known, Lookup, Fit

\* The values of a glossary are texts.
LEMMA GlossaryTexts ==
  ASSUME NEW rows \in GlossaryFiles, NEW rename \in Renames, NEW k \in DOMAIN Glossary(rows, rename)
  PROVE  Glossary(rows, rename)[k] \in Texts
<1> DEFINE e == CHOOSE e \in Entries(rows) : e[1] = k
<1>1. k \in {x[1] : x \in Entries(rows)} \cup DOMAIN rename BY DEF Glossary
<1>2. Glossary(rows, rename)[k] = IF k \in DOMAIN rename THEN rename[k] ELSE e[2]
  BY <1>1 DEF Glossary
<1>3. \A x \in Entries(rows) : x[2] \in Texts BY GlossaryAssumption DEF Entries
<1>4. k \notin DOMAIN rename => e \in Entries(rows) BY <1>1
<1> QED BY <1>2, <1>3, <1>4, GlossaryAssumption

\* Fullwidth characters fold back to what they encode.
LEMMA Encoding ==
  ASSUME NEW v \in Texts, Encodable(v)
  PROVE  /\ EncodeFullwidth(v) \in Seq(Fullwidth) /\ Len(EncodeFullwidth(v)) = Len(v)
         /\ \A k \in 1 .. Len(v) : Ascii[EncodeFullwidth(v)[k]] = v[k]
         /\ Fold(EncodeFullwidth(v)) = v
         /\ Len(v) \in Nat
<1> DEFINE w == EncodeFullwidth(v)
<1>1. DOMAIN v = 1 .. Len(v) /\ Len(v) \in Nat BY DEF Texts
<1>2. w = [k \in 1 .. Len(v) |-> InFullwidth(v[k])] BY <1>1 DEF EncodeFullwidth
<1>3. ASSUME NEW k \in 1 .. Len(v) PROVE w[k] \in Fullwidth /\ Ascii[w[k]] = v[k]
  <2>1. v[k] \in AsciiChars BY <1>1 DEF Encodable
  <2>2. \E c \in Fullwidth : Ascii[c] = v[k] BY <2>1 DEF AsciiChars
  <2> QED BY <2>2, <1>2 DEF InFullwidth
<1>4. w \in [1 .. Len(v) -> Fullwidth] BY <1>2, <1>3
<1>5. w \in Seq(Fullwidth) /\ Len(w) = Len(v) BY <1>1, <1>4
<1>6. Fold(w) = v
  <2>1. DOMAIN w = 1 .. Len(v) BY <1>2
  <2>2. Fold(w) = [k \in 1 .. Len(v) |-> v[k]] BY <2>1, <1>3 DEF Fold
  <2>3. v = [k \in 1 .. Len(v) |-> v[k]] BY <1>1 DEF Texts
  <2> QED BY <2>2, <2>3
<1> QED BY <1>1, <1>3, <1>5, <1>6

\* A padded text: its characters, and then the pad.
LEMMA Padded ==
  ASSUME NEW v \in Texts, Encodable(v), NEW n \in Nat, Len(v) <= n, NEW pad \in Cells
  PROVE  /\ PadTo(EncodeFullwidth(v), n, pad) \in [1..n -> Cells]
         /\ \A k \in 1..n : PadTo(EncodeFullwidth(v), n, pad)[k] =
                              IF k <= Len(v) THEN EncodeFullwidth(v)[k] ELSE pad
         /\ SubSeq(PadTo(EncodeFullwidth(v), n, pad), 1, Len(v)) = EncodeFullwidth(v)
<1> DEFINE w == EncodeFullwidth(v)
           f == PadTo(w, n, pad)
<1>1. w \in Seq(Fullwidth) /\ Len(w) = Len(v) /\ Len(v) \in Nat BY Encoding
<1>2. f = [k \in 1..n |-> IF k <= Len(v) THEN w[k] ELSE pad] BY <1>1 DEF PadTo
<1>3. ASSUME NEW k \in 1..n PROVE f[k] \in Cells
  <2>1. CASE k <= Len(v)
    <3>1. w[k] \in Fullwidth
      <4> HIDE DEF w
      <4> QED BY <2>1, <1>1
    <3> QED BY <3>1, <2>1, <1>2, CharAssumption
  <2>2. CASE ~(k <= Len(v)) BY <2>2, <1>2
  <2> QED BY <2>1, <2>2
<1>4. f \in [1..n -> Cells] BY <1>2, <1>3
<1> HIDE DEF w
<1>5. f \in Seq(Cells) /\ Len(f) = n BY <1>4
<1>6. SubSeq(f, 1, Len(v)) = w
  <2> DEFINE s == SubSeq(f, 1, Len(v))
  <2>1. /\ s \in Seq(Cells) /\ Len(s) = Len(v)
        /\ \A k \in 1 .. Len(v) : s[k] = f[k]
    <3> HIDE DEF f
    <3> QED BY <1>1, <1>5
  <2>2. \A k \in 1 .. Len(v) : s[k] = w[k] BY <2>1, <1>1, <1>2
  <2> HIDE DEF s
  <2> QED BY <2>1, <2>2, <1>1
<1> QED BY <1>2, <1>4, <1>6 DEF w

\* A name that was written is read back, and so is a place.
LEMMA ReadsBack ==
  ASSUME NEW v \in Texts, Encodable(v)
  PROVE  /\ Len(v) <= NameLen => /\ NewName(v) \in [1..NameLen -> Cells]
                                 /\ NameText(NewName(v)) = EncodeFullwidth(v)
         /\ Len(v) <= PlaceLen => NewPlace(v) \in [1..PlaceLen -> Cells]
         /\ Len(v) <= PlaceLen /\ v # <<>> /\ v[Len(v)] # Ascii[FwSpace]
              => PlaceText(NewPlace(v)) = EncodeFullwidth(v)
<1> DEFINE w == EncodeFullwidth(v)
<1>1. /\ w \in Seq(Fullwidth) /\ Len(w) = Len(v) /\ Len(v) \in Nat
      /\ \A k \in 1 .. Len(v) : Ascii[w[k]] = v[k]
  BY Encoding
<1>2. \A k \in 1 .. Len(v) : w[k] \in Fullwidth
  <2> HIDE DEF w
  <2> QED BY <1>1
<1>3. NameLen \in Nat /\ PlaceLen \in Nat BY GeometryAssumption
<1>4. ASSUME Len(v) <= NameLen
      PROVE  NewName(v) \in [1..NameLen -> Cells] /\ NameText(NewName(v)) = w
  <2> DEFINE f == NewName(v)
  <2>1. /\ f \in [1..NameLen -> Cells]
        /\ \A k \in 1..NameLen : f[k] = IF k <= Len(v) THEN w[k] ELSE Zero
        /\ SubSeq(f, 1, Len(v)) = w
    BY <1>3, <1>4, Padded, CharAssumption DEF NewName
  <2>2. \A k \in 1..NameLen : f[k] = Zero <=> Len(v) < k
    BY <2>1, <1>1, <1>2, <1>3, CharAssumption
  <2> HIDE DEF f
  <2> DEFINE P(n) == /\ \A k \in 1..n : f[k] # Zero
                     /\ n < NameLen => f[n + 1] = Zero
  <2>3. P(Len(v)) /\ Len(v) \in 0..NameLen BY <2>2, <1>1, <1>3, <1>4
  <2>4. \A n \in 0..NameLen : P(n) => n = Len(v)
    <3> SUFFICES ASSUME NEW n \in 0..NameLen, P(n) PROVE n = Len(v) OBVIOUS
    <3>1. ~(n < Len(v))
      <4> SUFFICES ASSUME n < Len(v) PROVE FALSE OBVIOUS
      <4>1. n + 1 \in 1..NameLen /\ n < NameLen /\ ~(Len(v) < n + 1) BY <1>1, <1>3, <1>4
      <4> QED BY <4>1, <2>2
    <3>2. ~(Len(v) < n)
      <4> SUFFICES ASSUME Len(v) < n PROVE FALSE OBVIOUS
      <4>1. n \in 1..NameLen /\ n \in 1..n BY <1>1, <1>3
      <4> QED BY <4>1, <2>2
    <3> QED BY <3>1, <3>2, <1>1, <1>3
  <2>5. NameEnd(f) = CHOOSE n \in 0..NameLen : P(n) BY DEF NameEnd
  <2> HIDE DEF P
  <2>6. NameEnd(f) = Len(v) BY <2>3, <2>4, <2>5
  <2> QED BY <2>1, <2>6 DEF NameText, f
<1>5. ASSUME Len(v) <= PlaceLen
      PROVE  /\ NewPlace(v) \in [1..PlaceLen -> Cells]
             /\ \A k \in 1..PlaceLen : NewPlace(v)[k] = IF k <= Len(v) THEN w[k] ELSE FwSpace
             /\ SubSeq(NewPlace(v), 1, Len(v)) = w
  BY <1>3, <1>5, Padded, CharAssumption DEF NewPlace
<1>6. ASSUME Len(v) <= PlaceLen, v # <<>>, v[Len(v)] # Ascii[FwSpace]
      PROVE  PlaceText(NewPlace(v)) = w
  <2> DEFINE f == NewPlace(v)
  <2>1. Len(v) # 0 BY <1>6 DEF Texts
  <2>2. Len(v) \in 1 .. Len(v) /\ Len(v) \in 1..PlaceLen BY <2>1, <1>1, <1>3, <1>6
  <2>3. f[Len(v)] # FwSpace
    <3>1. f[Len(v)] = w[Len(v)] BY <2>2, <1>5, <1>6
    <3>2. Ascii[w[Len(v)]] = v[Len(v)] BY <2>2, <1>1
    <3> QED BY <3>1, <3>2, <1>6
  <2>4. \A k \in 1..PlaceLen : Len(v) < k => f[k] = FwSpace BY <1>1, <1>5, <1>6
  <2>5. SubSeq(f, 1, Len(v)) = w BY <1>5, <1>6
  <2> HIDE DEF f
  <2> DEFINE P(n) == /\ \A k \in n + 1 .. PlaceLen : f[k] = FwSpace
                     /\ n > 0 => f[n] # FwSpace
  <2>6. P(Len(v)) /\ Len(v) \in 0..PlaceLen
    <3>1. \A k \in Len(v) + 1 .. PlaceLen : k \in 1..PlaceLen /\ Len(v) < k BY <1>1, <1>3
    <3> QED BY <3>1, <2>2, <2>3, <2>4
  <2>7. \A n \in 0..PlaceLen : P(n) => n = Len(v)
    <3> SUFFICES ASSUME NEW n \in 0..PlaceLen, P(n) PROVE n = Len(v) OBVIOUS
    <3>1. ~(n < Len(v))
      <4> SUFFICES ASSUME n < Len(v) PROVE FALSE OBVIOUS
      <4>1. Len(v) \in n + 1 .. PlaceLen BY <2>2, <1>3
      <4> QED BY <4>1, <2>3
    <3>2. ~(Len(v) < n)
      <4> SUFFICES ASSUME Len(v) < n PROVE FALSE OBVIOUS
      <4>1. n \in 1..PlaceLen /\ n > 0 BY <1>1, <1>3
      <4> QED BY <4>1, <2>4
    <3> QED BY <3>1, <3>2, <1>1, <1>3
  <2>8. PlaceEnd(f) = CHOOSE n \in 0..PlaceLen : P(n) BY DEF PlaceEnd
  <2> HIDE DEF P
  <2>9. PlaceEnd(f) = Len(v) BY <2>6, <2>7, <2>8
  <2> QED BY <2>5, <2>9 DEF PlaceText, f
<1> QED BY <1>4, <1>5, <1>6

\* A name that a glossary has written in fullwidth is its own translation, or is left alone: the
\* english column is a key, no key has two values, and no source is in fullwidth Latin.
LEMMA NoMore ==
  ASSUME NEW rows \in GlossaryFiles, NEW rename \in Renames, DOMAIN rename = {},
         \A r \in rows : Fold(r[1]) = r[1], ~Conflict(rows),
         NEW v, NEW k \in DOMAIN Glossary(rows, rename), Glossary(rows, rename)[k] = v,
         Encodable(v), NEW n, Writable(Glossary(rows, rename), EncodeFullwidth(v), n)
  PROVE  /\ Lookup(Glossary(rows, rename), EncodeFullwidth(v)) = v
         /\ v \in Texts /\ v # <<>> /\ v[Len(v)] # Ascii[FwSpace]
<1> DEFINE g == Glossary(rows, rename)
           w == EncodeFullwidth(v)
           E == Entries(rows)
<1>1. g = [x \in {e[1] : e \in E} |-> (CHOOSE e \in E : e[1] = x)[2]] BY DEF Glossary
<1>2. \A p, q \in E : p[1] = q[1] => p[2] = q[2] BY DEF Conflict
<1>3. \A e \in E : e[1] \in DOMAIN g /\ g[e[1]] = e[2]
  <2> SUFFICES ASSUME NEW e \in E PROVE e[1] \in DOMAIN g /\ g[e[1]] = e[2] OBVIOUS
  <2> DEFINE c == CHOOSE c \in E : c[1] = e[1]
  <2>1. c \in E /\ c[1] = e[1] OBVIOUS
  <2>2. c[2] = e[2] BY <2>1, <1>2
  <2>3. e[1] \in {x[1] : x \in E} OBVIOUS
  <2> HIDE DEF g, E
  <2>4. e[1] \in DOMAIN g /\ g[e[1]] = c[2] BY <2>3, <1>1
  <2> QED BY <2>2, <2>4
<1>4. \A x \in DOMAIN g : \E e \in E : e[1] = x /\ g[x] = e[2]
  <2> SUFFICES ASSUME NEW x \in DOMAIN g PROVE \E e \in E : e[1] = x /\ g[x] = e[2] OBVIOUS
  <2> HIDE DEF g, E
  <2>1. PICK e \in E : e[1] = x BY <1>1
  <2> QED BY <2>1, <1>3
<1>5. \A e \in E : <<e[2], e[2]>> \in E
               /\ e[2] \in Texts /\ e[2] # <<>> /\ e[2][Len(e[2])] # Ascii[FwSpace]
  BY GlossaryAssumption DEF Entries
<1>6. PICK e \in E : g[k] = e[2] BY <1>4
<1>7. /\ v \in DOMAIN g /\ g[v] = v
      /\ v \in Texts /\ v # <<>> /\ v[Len(v)] # Ascii[FwSpace]
  BY <1>3, <1>5, <1>6
<1>8. Fold(w) = v /\ w # v /\ ~Encodable(w)
  <2>1. /\ w \in Seq(Fullwidth) /\ Len(w) = Len(v) /\ Fold(w) = v
        /\ \A j \in 1 .. Len(v) : Ascii[w[j]] = v[j]
    BY <1>7, Encoding
  <2>2. 1 \in 1 .. Len(v) /\ DOMAIN v = 1 .. Len(v) BY <1>7 DEF Texts
  <2> HIDE DEF w
  <2>3. w[1] \in Fullwidth /\ DOMAIN w = 1 .. Len(v) BY <2>1, <2>2
  <2>4. w[1] \notin AsciiChars BY <2>3, CharAssumption DEF AsciiChars
  <2>5. v[1] \in AsciiChars BY <2>2 DEF Encodable
  <2>6. ~Encodable(w) BY <2>2, <2>3, <2>4 DEF Encodable
  <2> QED BY <2>1, <2>4, <2>5, <2>6
<1>9. CASE w \in DOMAIN g
  <2>1. PICK x \in E : x[1] = w /\ g[w] = x[2] BY <1>4, <1>9
  <2>2. CASE x \in rows BY <2>1, <2>2, <1>8
  <2>3. CASE \E r \in rows : x = <<r[2], r[2]>>
    <3>1. g[w] = w BY <2>1, <2>3
    <3>2. Encodable(g[w]) BY <1>9 DEF Writable, Lookup
    <3> QED BY <3>1, <3>2, <1>8
  <2> QED BY <2>2, <2>3 DEF Entries
<1>10. CASE w \notin DOMAIN g BY <1>7, <1>8, <1>10 DEF Lookup
<1> QED BY <1>7, <1>9, <1>10

----------------------------------------------------------------------------
(* The invariant. *)

Types ==
  /\ data \in [Blocks -> Block] /\ before \in [Blocks -> Block]
  /\ \A b \in Blocks : /\ data[b].sc = before[b].sc /\ Present(data[b]) = Present(before[b])
                       /\ Present(before[b]) \subseteq Chunks
  /\ phase \in {"start", "apply", "refused", "done"}
  /\ opts \in Options
  /\ gloss.rows \in GlossaryFiles /\ gloss.rename \in Renames
  /\ runs \in 0..MaxRuns /\ (phase = "start" => runs < MaxRuns)
  /\ phase # "apply" => edits = {} /\ frames = {} /\ titles = {}

\* What is planned is a field of a save, and text of the glossary that fits it.
EditInv ==
  \A e \in edits :
    /\ e.block \in Blocks /\ before[e.block].sc
    /\ \/ /\ e.kind = "party" /\ opts.party /\ e.record \in Records
          /\ e.new \in {NewName(v) : v \in Fit(TheGlossary, NameLen)}
          /\ NameChunks(e.record) \subseteq Present(before[e.block])
       \/ /\ e.kind = "place" /\ opts.place
          /\ e.new \in {NewPlace(v) : v \in Fit(TheGlossary, PlaceLen)}

\* A seal that is not over the cells beside it is still to be taken.
SealInv ==
  /\ \A p \in frames : p \in Blocks \X Chunks /\ before[p[1]].sc /\ p[2] \in Present(before[p[1]])
  /\ \A b \in titles : b \in Blocks /\ before[b].sc
  /\ phase = "apply" => AuditClean(before)
  /\ phase \in {"apply", "done"} =>
       \A b \in Blocks : data[b].sc =>
         /\ b \in titles \/ data[b].xor = data[b].place
         /\ \A c \in Present(data[b]) : <<b, c>> \in frames \/ data[b].crc[c] = data[b].payload[c]

\* What may differ from the card the run began with; no seal is taken before the last edit.
Change(old, new) ==
  /\ new.place # old.place => old.sc /\ opts.place
  /\ new.xor # old.xor => new.place # old.place
  /\ \A c \in Chunks :
       /\ \A j \in Offsets : new.payload[c][j] # old.payload[c][j] =>
            /\ old.sc /\ opts.party /\ c \in Present(old)
            /\ \E i \in Records, k \in 1..NameLen : Site(i, k) = <<c, j>>
       /\ new.crc[c] # old.crc[c] => new.payload[c] # old.payload[c]

ChangeInv ==
  \A b \in Blocks : /\ Change(before[b], data[b])
                    /\ edits # {} => data[b].crc = before[b].crc /\ data[b].xor = before[b].xor

\* What is left to do is what is planned.
PlanInv ==
  phase \in {"apply", "done"} /\ FilesOnly(gloss) =>
    ~Conflict(gloss.rows) /\ Plan(data, TheGlossary, opts) \subseteq edits

CardInv == Types /\ EditInv /\ SealInv /\ ChangeInv /\ PlanInv

\* What a glossary in force may write fits the field.
LEMMA FitTypes ==
  ASSUME Types
  PROVE  /\ \A v \in Fit(TheGlossary, NameLen) \cup Fit(TheGlossary, PlaceLen) :
              /\ v \in Texts /\ Encodable(v)
              /\ \E k \in DOMAIN TheGlossary : TheGlossary[k] = v
         /\ \A v \in Fit(TheGlossary, NameLen)  : NewName(v) \in [1..NameLen -> Cells]
         /\ \A v \in Fit(TheGlossary, PlaceLen) : NewPlace(v) \in [1..PlaceLen -> Cells]
<1>1. \A k \in DOMAIN TheGlossary : TheGlossary[k] \in Texts
  BY GlossaryTexts DEF Types, TheGlossary
<1>2. \A v \in Fit(TheGlossary, NameLen) \cup Fit(TheGlossary, PlaceLen) :
        /\ v \in Texts /\ Encodable(v)
        /\ \E k \in DOMAIN TheGlossary : TheGlossary[k] = v
  BY <1>1 DEF Fit
<1>3. /\ \A v \in Fit(TheGlossary, NameLen)  : Len(v) <= NameLen
      /\ \A v \in Fit(TheGlossary, PlaceLen) : Len(v) <= PlaceLen
  BY DEF Fit
<1> QED BY <1>2, <1>3, ReadsBack

\* An edit of a name writes its cells, and no other.
LEMMA NameMoves ==
  ASSUME Types, EditInv, NEW e \in edits, ApplyEdit(e), e.kind # "place"
  PROVE  /\ e.block \in Blocks /\ e.record \in Records /\ e.kind = "party" /\ opts.party
         /\ before[e.block].sc /\ NameChunks(e.record) \subseteq Present(before[e.block])
         /\ data' \in [Blocks -> Block]
         /\ \A b \in Blocks : b # e.block => data'[b] = data[b]
         /\ \A b \in Blocks : /\ data'[b].sc = data[b].sc /\ data'[b].place = data[b].place
                              /\ data'[b].xor = data[b].xor /\ data'[b].crc = data[b].crc
                              /\ Present(data'[b]) = Present(data[b])
         /\ \A k \in 1..NameLen :
              data'[e.block].payload[Site(e.record, k)[1]][Site(e.record, k)[2]] = e.new[k]
         /\ \A c \in Chunks, j \in Offsets :
              (\A k \in 1..NameLen : Site(e.record, k) # <<c, j>>)
                => data'[e.block].payload[c][j] = data[e.block].payload[c][j]
         /\ \A c \in Chunks : c \notin NameChunks(e.record)
                => data'[e.block].payload[c] = data[e.block].payload[c]
<1> DEFINE i == e.record
           old == data[e.block].payload
           new == [c \in Chunks |-> [j \in Offsets |->
                     IF \E k \in 1..NameLen : Site(i, k) = <<c, j>>
                       THEN e.new[CHOOSE k \in 1..NameLen : Site(i, k) = <<c, j>>]
                       ELSE old[c][j]]]
<1>1. /\ e.block \in Blocks /\ i \in Records /\ e.kind = "party" /\ opts.party
      /\ before[e.block].sc /\ NameChunks(i) \subseteq Present(before[e.block])
      /\ e.new \in [1..NameLen -> Cells]
  BY FitTypes DEF EditInv
<1>2. /\ data \in [Blocks -> Block] /\ data[e.block] \in Block
      /\ old \in [Chunks -> [Offsets -> Cells]]
  BY <1>1 DEF Types, Block
<1>3. data' = [data EXCEPT ![e.block].payload = new] BY DEF ApplyEdit
<1>4. \A k \in 1..NameLen : /\ Site(i, k)[1] \in Chunks /\ Site(i, k)[2] \in Offsets
                            /\ Site(i, k)[1] # 0 /\ Site(i, k) = <<Site(i, k)[1], Site(i, k)[2]>>
  BY <1>1, SiteTypes
<1>5. \A c \in Chunks, j \in Offsets, k \in 1..NameLen :
        Site(i, k) = <<c, j>> => new[c][j] = e.new[k]
  <2> SUFFICES ASSUME NEW c \in Chunks, NEW j \in Offsets, NEW k \in 1..NameLen, Site(i, k) = <<c, j>>
               PROVE  new[c][j] = e.new[k]
    OBVIOUS
  <2> DEFINE l == CHOOSE l \in 1..NameLen : Site(i, l) = <<c, j>>
  <2>1. l \in 1..NameLen /\ Site(i, l) = <<c, j>> OBVIOUS
  <2>2. l = k BY <2>1, <1>1, SitesApart
  <2>3. new[c][j] = e.new[l] OBVIOUS
  <2> QED BY <2>2, <2>3
<1>6. \A c \in Chunks, j \in Offsets :
        (\A k \in 1..NameLen : Site(i, k) # <<c, j>>) => new[c][j] = old[c][j]
  OBVIOUS
<1>7. \A c \in Chunks, j \in Offsets : new[c][j] \in Cells
  <2> SUFFICES ASSUME NEW c \in Chunks, NEW j \in Offsets PROVE new[c][j] \in Cells OBVIOUS
  <2>1. CASE \E k \in 1..NameLen : Site(i, k) = <<c, j>> BY <2>1, <1>1, <1>5
  <2>2. CASE \A k \in 1..NameLen : Site(i, k) # <<c, j>> BY <2>2, <1>2, <1>6
  <2> QED BY <2>1, <2>2
<1>8. new \in [Chunks -> [Offsets -> Cells]]
  <2>1. \A c \in Chunks : new[c] \in [Offsets -> Cells] BY <1>7
  <2> QED BY <2>1
<1>9. \A c \in Chunks : c \notin NameChunks(i) => new[c] = old[c]
  <2> SUFFICES ASSUME NEW c \in Chunks, c \notin NameChunks(i) PROVE new[c] = old[c] OBVIOUS
  <2>1. \A j \in Offsets, k \in 1..NameLen : Site(i, k) # <<c, j>> BY <1>4 DEF NameChunks
  <2>2. \A j \in Offsets : new[c][j] = old[c][j] BY <2>1, <1>6
  <2>3. new[c] \in [Offsets -> Cells] /\ old[c] \in [Offsets -> Cells] BY <1>2, <1>8
  <2> HIDE DEF new, old
  <2> QED BY <2>2, <2>3
<1> HIDE DEF new
<1>10. /\ data' \in [Blocks -> Block] /\ data'[e.block] = [data[e.block] EXCEPT !.payload = new]
       /\ \A b \in Blocks : b # e.block => data'[b] = data[b]
  <2>1. [data[e.block] EXCEPT !.payload = new] \in Block BY <1>2, <1>8 DEF Block
  <2> QED BY <2>1, <1>1, <1>2, <1>3
<1>11. /\ data'[e.block].payload = new
       /\ data'[e.block].sc = data[e.block].sc /\ data'[e.block].place = data[e.block].place
       /\ data'[e.block].xor = data[e.block].xor /\ data'[e.block].crc = data[e.block].crc
  BY <1>2, <1>10 DEF Block
<1>12. Present(data'[e.block]) = Present(data[e.block])
  <2>1. 0 \in Chunks /\ 0 \notin NameChunks(i) BY <1>4, GeometryAssumption DEF NameChunks, Chunks
  <2> QED BY <2>1, <1>9, <1>11 DEF Present
<1>13. \A k \in 1..NameLen : new[Site(i, k)[1]][Site(i, k)[2]] = e.new[k] BY <1>4, <1>5
<1>14. \A b \in Blocks : /\ data'[b].sc = data[b].sc /\ data'[b].place = data[b].place
                         /\ data'[b].xor = data[b].xor /\ data'[b].crc = data[b].crc
                         /\ Present(data'[b]) = Present(data[b])
  BY <1>10, <1>11, <1>12
<1> QED BY <1>1, <1>6, <1>9, <1>10, <1>11, <1>13, <1>14

\* An edit of a place name writes the field of its block.
LEMMA PlaceMoves ==
  ASSUME Types, EditInv, NEW e \in edits, ApplyEdit(e), e.kind = "place"
  PROVE  /\ e.block \in Blocks /\ opts.place /\ before[e.block].sc
         /\ data' \in [Blocks -> Block]
         /\ data'[e.block].place = e.new
         /\ \A b \in Blocks : b # e.block => data'[b] = data[b]
         /\ \A b \in Blocks : /\ data'[b].sc = data[b].sc /\ data'[b].payload = data[b].payload
                              /\ data'[b].xor = data[b].xor /\ data'[b].crc = data[b].crc
<1>1. /\ e.block \in Blocks /\ opts.place /\ before[e.block].sc /\ e.new \in [1..PlaceLen -> Cells]
  BY FitTypes DEF EditInv
<1>2. data \in [Blocks -> Block] /\ data[e.block] \in Block BY <1>1 DEF Types
<1>3. data' = [data EXCEPT ![e.block].place = e.new] BY DEF ApplyEdit
<1>4. /\ data' \in [Blocks -> Block] /\ data'[e.block] = [data[e.block] EXCEPT !.place = e.new]
      /\ \A b \in Blocks : b # e.block => data'[b] = data[b]
  <2>1. [data[e.block] EXCEPT !.place = e.new] \in Block BY <1>1, <1>2 DEF Block
  <2> QED BY <2>1, <1>1, <1>2, <1>3
<1>5. /\ data'[e.block].place = e.new
      /\ data'[e.block].sc = data[e.block].sc /\ data'[e.block].payload = data[e.block].payload
      /\ data'[e.block].xor = data[e.block].xor /\ data'[e.block].crc = data[e.block].crc
  BY <1>2, <1>4 DEF Block
<1> QED BY <1>1, <1>4, <1>5

----------------------------------------------------------------------------
(* Each step. *)

\* What the plan of a card holds.
LEMMA Planned ==
  ASSUME NEW d, NEW g, NEW o, NEW e \in Plan(d, g, o)
  PROVE  /\ e.block \in Blocks /\ d[e.block].sc
         /\ \/ /\ e.kind = "party" /\ o.party /\ e.record \in Records
               /\ e.new \in {NewName(v) : v \in Fit(g, NameLen)}
               /\ NameChunks(e.record) \subseteq Present(d[e.block])
               /\ e \in PartyEdits(d, g, e.block)
            \/ /\ e.kind = "place" /\ o.place
               /\ e.new \in {NewPlace(v) : v \in Fit(g, PlaceLen)}
               /\ e \in PlaceEdits(d, g, e.block)
<1>1. PICK b \in Blocks : /\ d[b].sc
                          /\ \/ o.party /\ e \in PartyEdits(d, g, b)
                             \/ o.place /\ e \in PlaceEdits(d, g, b)
  BY DEF Plan
<1>2. CASE o.party /\ e \in PartyEdits(d, g, b)
  <2>1. PICK i \in Records :
          LET f == NameField(d[b], i)
          IN /\ NameChunks(i) \subseteq Present(d[b])
             /\ Writable(g, NameText(f), NameLen)
             /\ e = [block |-> b, kind |-> "party", record |-> i,
                     new |-> PadTo(EncodeFullwidth(Lookup(g, NameText(f))), NameLen, Zero)]
    BY <1>2 DEF PartyEdits
  <2>2. e.new = NewName(Lookup(g, NameText(NameField(d[b], i)))) BY <2>1 DEF NewName
  <2>3. e.new \in {NewName(v) : v \in Fit(g, NameLen)} BY <2>1, <2>2, LookupFits
  <2>4. e.block = b /\ e.kind = "party" /\ e.record = i BY <2>1
  <2> QED BY <1>1, <1>2, <2>1, <2>3, <2>4
<1>3. CASE o.place /\ e \in PlaceEdits(d, g, b)
  <2> DEFINE f == d[b].place
             new == PadTo(EncodeFullwidth(Lookup(g, PlaceText(f))), PlaceLen, FwSpace)
  <2>1. /\ Writable(g, PlaceText(f), PlaceLen)
        /\ e = [block |-> b, kind |-> "place", record |-> 0, new |-> new]
    BY <1>3 DEF PlaceEdits
  <2>2. new = NewPlace(Lookup(g, PlaceText(f))) BY DEF NewPlace
  <2>3. new \in {NewPlace(v) : v \in Fit(g, PlaceLen)} BY <2>1, <2>2, LookupFits
  <2>4. e.block = b /\ e.kind = "place" /\ e.new = new BY <2>1
  <2> QED BY <1>1, <1>3, <2>3, <2>4
<1> QED BY <1>1, <1>2, <1>3

\* A run begins with the audit, and plans for what is there.
LEMMA BeginKeeps == ASSUME CardInv, Begin PROVE CardInv'
<1>1. /\ phase = "start" /\ runs' = runs + 1 /\ before' = data
      /\ UNCHANGED <<data, gloss, opts, frames, titles>>
      /\ TheGlossary' = TheGlossary
      /\ \/ /\ phase' = "apply" /\ edits' = Plan(data, TheGlossary, opts)
            /\ AuditClean(data) /\ ~Conflict(gloss.rows)
         \/ phase' = "refused" /\ edits' = edits
  BY DEF Begin, TheGlossary
<1>2. edits = {} /\ frames = {} /\ titles = {} /\ runs \in Nat /\ runs + 1 \in 0..MaxRuns
  BY <1>1, MaxRunsAssumption DEF CardInv, Types
<1>3. Types' BY <1>1, <1>2 DEF CardInv, Types
<1>4. EditInv'
  <2>1. CASE edits' = {} BY <2>1 DEF EditInv
  <2>2. CASE edits' = Plan(data, TheGlossary, opts)
    <3> SUFFICES ASSUME NEW e \in edits'
                 PROVE  /\ e.block \in Blocks /\ data[e.block].sc
                        /\ \/ /\ e.kind = "party" /\ opts.party /\ e.record \in Records
                              /\ e.new \in {NewName(v) : v \in Fit(TheGlossary, NameLen)}
                              /\ NameChunks(e.record) \subseteq Present(data[e.block])
                           \/ /\ e.kind = "place" /\ opts.place
                              /\ e.new \in {NewPlace(v) : v \in Fit(TheGlossary, PlaceLen)}
      BY <1>1 DEF EditInv
    <3> QED BY <2>2, Planned
  <2> QED BY <1>1, <1>2, <2>1, <2>2
<1>5. SealInv'
  <2>1. phase' = "apply" => AuditClean(data) BY <1>1
  <2>2. phase' \in {"apply", "done"} =>
          \A b \in Blocks : data[b].sc =>
            /\ data[b].xor = data[b].place
            /\ \A c \in Present(data[b]) : data[b].crc[c] = data[b].payload[c]
    BY <1>1 DEF AuditClean, SealsHold
  <2>3. data' = data /\ before' = data /\ frames' = {} /\ titles' = {} BY <1>1, <1>2
  <2> QED BY <2>1, <2>2, <2>3 DEF SealInv, AuditClean
<1>6. ChangeInv' BY <1>1 DEF ChangeInv, Change
<1>7. PlanInv' BY <1>1 DEF PlanInv
<1> QED BY <1>3, <1>4, <1>5, <1>6, <1>7 DEF CardInv

\* The invariant but for what is left to do.
LEMMA ApplyKeeps ==
  ASSUME CardInv, NEW e \in edits, ApplyEdit(e)
  PROVE  Types' /\ EditInv' /\ SealInv' /\ ChangeInv'
<1>1. /\ phase = "apply" /\ phase' = "apply" /\ edits' = edits \ {e}
      /\ UNCHANGED <<gloss, opts, runs, before>> /\ TheGlossary' = TheGlossary
  BY DEF ApplyEdit, TheGlossary
<1>2. EditInv' BY <1>1 DEF CardInv, EditInv
<1>3. CASE e.kind # "place"
  <2>1. frames' = frames \cup {<<e.block, c>> : c \in NameChunks(e.record)} /\ titles' = titles
    BY <1>3 DEF ApplyEdit
  <2>2. /\ e.block \in Blocks /\ e.record \in Records /\ opts.party
        /\ before[e.block].sc /\ NameChunks(e.record) \subseteq Present(before[e.block])
        /\ data' \in [Blocks -> Block]
        /\ \A b \in Blocks : b # e.block => data'[b] = data[b]
        /\ \A b \in Blocks : /\ data'[b].sc = data[b].sc /\ data'[b].place = data[b].place
                             /\ data'[b].xor = data[b].xor /\ data'[b].crc = data[b].crc
                             /\ Present(data'[b]) = Present(data[b])
        /\ \A c \in Chunks, j \in Offsets :
             (\A k \in 1..NameLen : Site(e.record, k) # <<c, j>>)
               => data'[e.block].payload[c][j] = data[e.block].payload[c][j]
        /\ \A c \in Chunks : c \notin NameChunks(e.record)
               => data'[e.block].payload[c] = data[e.block].payload[c]
    BY <1>3, NameMoves DEF CardInv
  <2>3. Types' BY <1>1, <2>2 DEF CardInv, Types
  <2>4. SealInv'
    <3>1. \A c \in NameChunks(e.record) :
            <<e.block, c>> \in Blocks \X Chunks /\ c \in Present(before[e.block])
      BY <2>2 DEF CardInv, Types
    <3>2. \A p \in frames' : p \in Blocks \X Chunks /\ before[p[1]].sc /\ p[2] \in Present(before[p[1]])
      BY <2>1, <2>2, <3>1 DEF CardInv, SealInv
    <3>3. ASSUME NEW b \in Blocks, data'[b].sc
          PROVE  /\ b \in titles \/ data'[b].xor = data'[b].place
                 /\ \A c \in Present(data'[b]) :
                      <<b, c>> \in frames' \/ data'[b].crc[c] = data'[b].payload[c]
      <4>1. /\ b \in titles \/ data[b].xor = data[b].place
            /\ \A c \in Present(data[b]) : <<b, c>> \in frames \/ data[b].crc[c] = data[b].payload[c]
        BY <1>1, <2>2, <3>3 DEF CardInv, SealInv
      <4>2. Present(data[b]) \subseteq Chunks BY DEF CardInv, Types
      <4>3. ASSUME NEW c \in Present(data[b])
            PROVE  <<b, c>> \in frames' \/ data'[b].payload[c] = data[b].payload[c]
        <5>1. CASE b # e.block BY <5>1, <2>2
        <5>2. CASE b = e.block BY <5>2, <2>1, <2>2, <4>2
        <5> QED BY <5>1, <5>2
      <4>4. \A c \in Present(data'[b]) : <<b, c>> \in frames' \/ data'[b].crc[c] = data'[b].payload[c]
        BY <2>1, <2>2, <4>1, <4>3
      <4> QED BY <2>2, <4>1, <4>4
    <3> QED BY <1>1, <2>1, <3>2, <3>3 DEF CardInv, SealInv
  <2>5. ChangeInv'
    <3> SUFFICES ASSUME NEW b \in Blocks
                 PROVE  /\ Change(before[b], data[b])'
                        /\ data'[b].crc = before[b].crc /\ data'[b].xor = before[b].xor
      BY <1>1 DEF ChangeInv
    <3>1. data'[b].crc = before[b].crc /\ data'[b].xor = before[b].xor
      BY <2>2 DEF CardInv, ChangeInv
    <3>2. ASSUME NEW c \in Chunks, NEW j \in Offsets,
                 data'[b].payload[c][j] # before[b].payload[c][j]
          PROVE  /\ before[b].sc /\ opts.party /\ c \in Present(before[b])
                 /\ \E i \in Records, k \in 1..NameLen : Site(i, k) = <<c, j>>
      <4>1. CASE data'[b].payload[c][j] = data[b].payload[c][j]
        BY <4>1, <3>2 DEF CardInv, ChangeInv, Change
      <4>2. CASE data'[b].payload[c][j] # data[b].payload[c][j]
        <5>1. b = e.block BY <4>2, <2>2
        <5>2. PICK k \in 1..NameLen : Site(e.record, k) = <<c, j>> BY <4>2, <5>1, <2>2
        <5>3. c \in NameChunks(e.record) BY <5>2 DEF NameChunks
        <5> QED BY <5>1, <5>2, <5>3, <2>2
      <4> QED BY <4>1, <4>2
    <3>3. data'[b].place # before[b].place => before[b].sc /\ opts.place
      BY <2>2 DEF CardInv, ChangeInv, Change
    <3> QED BY <1>1, <3>1, <3>2, <3>3 DEF Change
  <2> QED BY <1>2, <2>3, <2>4, <2>5
<1>4. CASE e.kind = "place"
  <2>1. titles' = titles \cup {e.block} /\ frames' = frames BY <1>4 DEF ApplyEdit
  <2>2. /\ e.block \in Blocks /\ opts.place /\ before[e.block].sc
        /\ data' \in [Blocks -> Block]
        /\ \A b \in Blocks : b # e.block => data'[b] = data[b]
        /\ \A b \in Blocks : /\ data'[b].sc = data[b].sc /\ data'[b].payload = data[b].payload
                             /\ data'[b].xor = data[b].xor /\ data'[b].crc = data[b].crc
    BY <1>4, PlaceMoves DEF CardInv
  <2>3. \A b \in Blocks : Present(data'[b]) = Present(data[b]) BY <2>2 DEF Present
  <2>4. Types' BY <1>1, <2>2, <2>3 DEF CardInv, Types
  <2>5. SealInv'
    <3>1. \A b \in titles' : b \in Blocks /\ before[b].sc BY <2>1, <2>2 DEF CardInv, SealInv
    <3>2. ASSUME NEW b \in Blocks, data'[b].sc
          PROVE  /\ b \in titles' \/ data'[b].xor = data'[b].place
                 /\ \A c \in Present(data'[b]) :
                      <<b, c>> \in frames \/ data'[b].crc[c] = data'[b].payload[c]
      <4>1. /\ b \in titles \/ data[b].xor = data[b].place
            /\ \A c \in Present(data[b]) : <<b, c>> \in frames \/ data[b].crc[c] = data[b].payload[c]
        BY <1>1, <2>2, <3>2 DEF CardInv, SealInv
      <4> QED BY <4>1, <2>1, <2>2, <2>3
    <3> QED BY <1>1, <2>1, <3>1, <3>2 DEF CardInv, SealInv
  <2>6. ChangeInv'
    <3> SUFFICES ASSUME NEW b \in Blocks
                 PROVE  /\ Change(before[b], data[b])'
                        /\ data'[b].crc = before[b].crc /\ data'[b].xor = before[b].xor
      BY <1>1 DEF ChangeInv
    <3>1. data'[b].crc = before[b].crc /\ data'[b].xor = before[b].xor
      BY <2>2 DEF CardInv, ChangeInv
    <3>2. data'[b].place # before[b].place => before[b].sc /\ opts.place
      <4>1. CASE b = e.block BY <4>1, <2>2
      <4>2. CASE b # e.block BY <4>2, <2>2 DEF CardInv, ChangeInv, Change
      <4> QED BY <4>1, <4>2
    <3>3. \A c \in Chunks, j \in Offsets : data'[b].payload[c][j] # before[b].payload[c][j] =>
             /\ before[b].sc /\ opts.party /\ c \in Present(before[b])
             /\ \E i \in Records, k \in 1..NameLen : Site(i, k) = <<c, j>>
      BY <2>2 DEF CardInv, ChangeInv, Change
    <3> QED BY <1>1, <3>1, <3>2, <3>3 DEF Change
  <2> QED BY <1>2, <2>4, <2>5, <2>6
<1> QED BY <1>3, <1>4

\* The columns of a glossary file are stripped.
LEMMA ValuesStripped ==
  ASSUME NEW rows \in GlossaryFiles, NEW rename, DOMAIN rename = {},
         NEW k \in DOMAIN Glossary(rows, rename)
  PROVE  LET v == Glossary(rows, rename)[k] IN v # <<>> /\ v[Len(v)] # Ascii[FwSpace]
<1> DEFINE E == Entries(rows)
           e == CHOOSE e \in E : e[1] = k
<1>1. Glossary(rows, rename) = [x \in {p[1] : p \in E} |-> (CHOOSE p \in E : p[1] = x)[2]]
  BY DEF Glossary
<1>2. k \in {p[1] : p \in E} BY <1>1
<1>3. Glossary(rows, rename)[k] = e[2] /\ e \in E
  <2>1. e \in E BY <1>2
  <2> HIDE DEF E
  <2> QED BY <2>1, <1>1, <1>2
<1>4. \A p \in E : p[2] # <<>> /\ p[2][Len(p[2])] # Ascii[FwSpace]
  BY GlossaryAssumption DEF Entries
<1> HIDE DEF e, E
<1> QED BY <1>3, <1>4

\* A field that holds what a glossary file has written there is not planned for again.
LEMMA NotAgain ==
  ASSUME Types, FilesOnly(gloss), ~Conflict(gloss.rows)
  PROVE  /\ \A v \in Fit(TheGlossary, NameLen) :
              LET f == NewName(v)
              IN  Writable(TheGlossary, NameText(f), NameLen)
                    => NewName(Lookup(TheGlossary, NameText(f))) = f
         /\ \A v \in Fit(TheGlossary, PlaceLen) :
              LET f == NewPlace(v)
              IN  Writable(TheGlossary, PlaceText(f), PlaceLen)
                    => NewPlace(Lookup(TheGlossary, PlaceText(f))) = f
<1>1. /\ gloss.rows \in GlossaryFiles /\ gloss.rename \in Renames /\ DOMAIN gloss.rename = {}
      /\ \A r \in gloss.rows : Fold(r[1]) = r[1]
      /\ TheGlossary = Glossary(gloss.rows, gloss.rename)
  BY DEF Types, FilesOnly, TheGlossary
<1>2. ASSUME NEW v \in Fit(TheGlossary, NameLen) \cup Fit(TheGlossary, PlaceLen)
      PROVE  /\ v \in Texts /\ Encodable(v) /\ v # <<>> /\ v[Len(v)] # Ascii[FwSpace]
             /\ \A n : Writable(TheGlossary, EncodeFullwidth(v), n)
                         => Lookup(TheGlossary, EncodeFullwidth(v)) = v
  <2>1. v \in Texts /\ Encodable(v) BY <1>2, FitTypes
  <2>2. PICK k \in DOMAIN TheGlossary : TheGlossary[k] = v BY <1>2, FitTypes
  <2>3. v # <<>> /\ v[Len(v)] # Ascii[FwSpace] BY <1>1, <2>2, ValuesStripped
  <2>4. ASSUME NEW n, Writable(TheGlossary, EncodeFullwidth(v), n)
        PROVE  Lookup(TheGlossary, EncodeFullwidth(v)) = v
    BY <1>1, <2>1, <2>2, <2>4, NoMore
  <2> QED BY <2>1, <2>3, <2>4
<1>3. \A v \in Fit(TheGlossary, NameLen) : NameText(NewName(v)) = EncodeFullwidth(v)
  BY <1>2, ReadsBack DEF Fit
<1>4. \A v \in Fit(TheGlossary, PlaceLen) : PlaceText(NewPlace(v)) = EncodeFullwidth(v)
  BY <1>2, ReadsBack DEF Fit
<1> QED BY <1>2, <1>3, <1>4

\* A field that is as it was is planned for as it was.
LEMMA SamePlan ==
  ASSUME NEW d, NEW d2, NEW g, NEW o, NEW x \in Plan(d2, g, o),
         d[x.block].sc, Present(d2[x.block]) = Present(d[x.block]),
         IF x.kind = "party" THEN NameField(d2[x.block], x.record) = NameField(d[x.block], x.record)
                             ELSE d2[x.block].place = d[x.block].place
  PROVE  x \in Plan(d, g, o)
<1> DEFINE b == x.block
           S(q) == (IF o.party THEN PartyEdits(d, g, q) ELSE {}) \cup
                   (IF o.place THEN PlaceEdits(d, g, q) ELSE {})
<1>0. x \in S(b) => x \in Plan(d, g, o)
  <2>1. b \in {q \in Blocks : d[q].sc} BY Planned
  <2>2. Plan(d, g, o) = UNION {S(q) : q \in {q \in Blocks : d[q].sc}} BY DEF Plan
  <2> HIDE DEF S, b
  <2> QED BY <2>1, <2>2
<1>1. CASE x.kind = "party" /\ o.party /\ x \in PartyEdits(d2, g, b)
  <2>1. PICK i \in Records :
          LET f == NameField(d2[b], i)
          IN /\ NameChunks(i) \subseteq Present(d2[b])
             /\ f[1] # Zero /\ ZeroPadded(f) /\ Decodable(NameText(f))
             /\ Writable(g, NameText(f), NameLen)
             /\ PadTo(EncodeFullwidth(Lookup(g, NameText(f))), NameLen, Zero) # f
             /\ x = [block |-> b, kind |-> "party", record |-> i,
                     new |-> PadTo(EncodeFullwidth(Lookup(g, NameText(f))), NameLen, Zero)]
    BY <1>1 DEF PartyEdits
  <2>2. x.record = i /\ NameField(d2[b], i) = NameField(d[b], i) BY <1>1, <2>1
  <2>3. x \in PartyEdits(d, g, b) BY <2>1, <2>2 DEF PartyEdits
  <2> QED BY <1>0, <1>1, <2>3
<1>2. CASE x.kind = "place" /\ o.place /\ x \in PlaceEdits(d2, g, b)
  <2>1. x \in PlaceEdits(d, g, b) BY <1>2 DEF PlaceEdits
  <2> QED BY <1>0, <1>2, <2>1
<1> QED BY <1>1, <1>2, Planned

\* The fields of a card behind the edit of a name.
LEMMA NameFields ==
  ASSUME Types, EditInv, NEW e \in edits, ApplyEdit(e), e.kind # "place"
  PROVE  /\ NameField(data'[e.block], e.record) = e.new
         /\ \A b \in Blocks, m \in Records : b # e.block \/ m # e.record
              => NameField(data'[b], m) = NameField(data[b], m)
<1>1. e.block \in Blocks /\ e.record \in Records /\ e.new \in [1..NameLen -> Cells]
  BY FitTypes, NameMoves DEF EditInv
<1>2. NameField(data'[e.block], e.record) = e.new
  <2>1. \A k \in 1..NameLen :
          data'[e.block].payload[Site(e.record, k)[1]][Site(e.record, k)[2]] = e.new[k]
    BY NameMoves
  <2> QED BY <1>1, <2>1 DEF NameField
<1>3. ASSUME NEW b \in Blocks, NEW m \in Records, b # e.block \/ m # e.record
      PROVE  NameField(data'[b], m) = NameField(data[b], m)
  <2>1. CASE b # e.block BY <2>1, NameMoves
  <2>2. CASE b = e.block /\ m # e.record
    <3> SUFFICES ASSUME NEW l \in 1..NameLen
                 PROVE  data'[b].payload[Site(m, l)[1]][Site(m, l)[2]]
                          = data[b].payload[Site(m, l)[1]][Site(m, l)[2]]
      BY DEF NameField
    <3>1. Site(m, l)[1] \in Chunks /\ Site(m, l)[2] \in Offsets
          /\ Site(m, l) = <<Site(m, l)[1], Site(m, l)[2]>>
      BY SiteTypes
    <3>2. \A k \in 1..NameLen : Site(e.record, k) # Site(m, l) BY <1>1, <2>2, SitesApart
    <3> QED BY <2>2, <3>1, <3>2, NameMoves
  <2> QED BY <1>3, <2>1, <2>2
<1> QED BY <1>2, <1>3

\* An edit leaves nothing to do on its field, and the rest as it was planned.
LEMMA ApplyPlans == ASSUME CardInv, NEW e \in edits, ApplyEdit(e) PROVE PlanInv'
<1>1. /\ phase = "apply" /\ edits' = edits \ {e} /\ UNCHANGED <<gloss, opts>>
      /\ TheGlossary' = TheGlossary
  BY DEF ApplyEdit, TheGlossary
<1> SUFFICES ASSUME FilesOnly(gloss), NEW x \in Plan(data', TheGlossary, opts)
             PROVE  ~Conflict(gloss.rows) /\ x \in edits /\ x # e
  BY <1>1 DEF PlanInv, CardInv
<1>2. ~Conflict(gloss.rows) /\ Plan(data, TheGlossary, opts) \subseteq edits
  BY <1>1 DEF CardInv, PlanInv
<1>3. Types /\ EditInv BY DEF CardInv
<1>4. /\ x.block \in Blocks /\ data'[x.block].sc
      /\ \/ x.kind = "party" /\ x.record \in Records /\ x \in PartyEdits(data', TheGlossary, x.block)
         \/ x.kind = "place" /\ x \in PlaceEdits(data', TheGlossary, x.block)
  BY Planned
<1>5. CASE e.kind # "place"
  <2>1. /\ data[x.block].sc /\ Present(data'[x.block]) = Present(data[x.block])
        /\ data'[x.block].place = data[x.block].place /\ e.kind = "party"
    BY <1>3, <1>4, <1>5, NameMoves
  <2>2. CASE x.kind = "place"
    <3>1. x \in Plan(data, TheGlossary, opts) BY <2>1, <2>2, SamePlan
    <3> QED BY <3>1, <1>2, <2>1, <2>2
  <2>3. CASE x.kind = "party" /\ (x.block # e.block \/ x.record # e.record)
    <3>1. NameField(data'[x.block], x.record) = NameField(data[x.block], x.record)
      BY <1>3, <1>4, <1>5, <2>3, NameFields
    <3>2. x \in Plan(data, TheGlossary, opts) BY <2>1, <2>3, <3>1, SamePlan
    <3> QED BY <3>2, <1>2, <2>3
  <2>4. CASE x.kind = "party" /\ x.block = e.block /\ x.record = e.record
    <3> DEFINE f == NameField(data'[e.block], e.record)
    <3>1. f = e.new BY <1>3, <1>5, NameFields
    <3>2. PICK v \in Fit(TheGlossary, NameLen) : f = NewName(v)
      BY <1>3, <1>5, <3>1 DEF EditInv
    <3>3. /\ Writable(TheGlossary, NameText(f), NameLen)
          /\ NewName(Lookup(TheGlossary, NameText(f))) # f
      <4>1. x \in PartyEdits(data', TheGlossary, e.block) BY <1>4, <2>4
      <4>2. PICK i \in Records :
              LET h == NameField(data'[e.block], i)
              IN /\ Writable(TheGlossary, NameText(h), NameLen)
                 /\ PadTo(EncodeFullwidth(Lookup(TheGlossary, NameText(h))), NameLen, Zero) # h
                 /\ x = [block |-> e.block, kind |-> "party", record |-> i,
                         new |-> PadTo(EncodeFullwidth(Lookup(TheGlossary, NameText(h))), NameLen, Zero)]
        BY <4>1 DEF PartyEdits
      <4>3. i = e.record BY <4>2, <2>4
      <4> QED BY <4>2, <4>3 DEF NewName
    <3> HIDE DEF f
    <3> QED BY <3>2, <3>3, <1>2, <1>3, NotAgain
  <2> QED BY <1>4, <2>2, <2>3, <2>4
<1>6. CASE e.kind = "place"
  <2>1. /\ data[x.block].sc /\ data'[x.block].payload = data[x.block].payload
        /\ x.block # e.block => data'[x.block] = data[x.block]
        /\ data'[e.block].place = e.new
    BY <1>3, <1>4, <1>6, PlaceMoves
  <2>2. /\ Present(data'[x.block]) = Present(data[x.block])
        /\ \A m : NameField(data'[x.block], m) = NameField(data[x.block], m)
    BY <2>1 DEF Present, NameField
  <2>3. CASE x.kind = "party"
    <3>1. x \in Plan(data, TheGlossary, opts) BY <2>1, <2>2, <2>3, SamePlan
    <3> QED BY <3>1, <1>2, <1>6, <2>3
  <2>4. CASE x.kind = "place" /\ x.block # e.block
    <3>1. x \in Plan(data, TheGlossary, opts) BY <2>1, <2>2, <2>4, SamePlan
    <3> QED BY <3>1, <1>2, <2>4
  <2>5. CASE x.kind = "place" /\ x.block = e.block
    <3> DEFINE f == data'[e.block].place
    <3>1. PICK v \in Fit(TheGlossary, PlaceLen) : f = NewPlace(v)
      BY <1>3, <1>6, <2>1 DEF EditInv
    <3>2. /\ Writable(TheGlossary, PlaceText(f), PlaceLen)
          /\ NewPlace(Lookup(TheGlossary, PlaceText(f))) # f
      <4>1. x \in PlaceEdits(data', TheGlossary, e.block) BY <1>4, <2>5
      <4> QED BY <4>1 DEF PlaceEdits, NewPlace
    <3> HIDE DEF f
    <3> QED BY <3>1, <3>2, <1>2, <1>3, NotAgain
  <2> QED BY <1>4, <2>3, <2>4, <2>5
<1> QED BY <1>5, <1>6

\* A reseal plans nothing new: it changes no field.
LEMMA ResealPlans ==
  ASSUME CardInv, UNCHANGED <<gloss, opts, edits>>, phase = "apply",
         \A b \in Blocks : /\ data'[b].sc = data[b].sc /\ data'[b].place = data[b].place
                           /\ data'[b].payload = data[b].payload
  PROVE  PlanInv'
<1>1. TheGlossary' = TheGlossary BY DEF TheGlossary
<1>2. Plan(data', TheGlossary, opts) \subseteq Plan(data, TheGlossary, opts)
  <2> SUFFICES ASSUME NEW x \in Plan(data', TheGlossary, opts)
               PROVE  x \in Plan(data, TheGlossary, opts)
    OBVIOUS
  <2>1. x.block \in Blocks /\ data'[x.block].sc BY Planned
  <2>2. /\ Present(data'[x.block]) = Present(data[x.block])
        /\ NameField(data'[x.block], x.record) = NameField(data[x.block], x.record)
    BY <2>1 DEF Present, NameField
  <2> QED BY <2>1, <2>2, SamePlan
<1> QED BY <1>1, <1>2 DEF CardInv, PlanInv

\* A frame resealed holds the checksum of its data; the audit before says what it held.
LEMMA ResealFrameKeeps ==
  ASSUME CardInv, NEW b \in Blocks, NEW c \in Chunks, ResealFrame(b, c)
  PROVE  CardInv'
<1>1. /\ phase = "apply" /\ edits = {} /\ <<b, c>> \in frames /\ frames' = frames \ {<<b, c>>}
      /\ UNCHANGED <<phase, gloss, opts, edits, titles, runs, before>> /\ TheGlossary' = TheGlossary
      /\ data' = [data EXCEPT ![b].crc[c] = data[b].payload[c]]
  BY DEF ResealFrame, TheGlossary
<1>2. data \in [Blocks -> Block] /\ data[b] \in Block BY DEF CardInv, Types
<1>3. data[b].payload[c] \in [Offsets -> Cells] /\ data[b].crc \in [Chunks -> [Offsets -> Cells]]
  BY <1>2 DEF Block
<1> DEFINE new == [data[b].crc EXCEPT ![c] = data[b].payload[c]]
<1>4. /\ new \in [Chunks -> [Offsets -> Cells]] /\ new[c] = data[b].payload[c]
      /\ \A k \in Chunks : k # c => new[k] = data[b].crc[k]
  BY <1>3
<1>5. data' = [data EXCEPT ![b].crc = new] BY <1>1
<1> HIDE DEF new
<1>6. /\ data' \in [Blocks -> Block] /\ data'[b] = [data[b] EXCEPT !.crc = new]
      /\ \A m \in Blocks : m # b => data'[m] = data[m]
  <2>1. [data[b] EXCEPT !.crc = new] \in Block BY <1>2, <1>4 DEF Block
  <2> QED BY <2>1, <1>2, <1>5
<1>7. /\ data'[b].crc = new
      /\ data'[b].sc = data[b].sc /\ data'[b].payload = data[b].payload
      /\ data'[b].xor = data[b].xor /\ data'[b].place = data[b].place
  BY <1>2, <1>6 DEF Block
<1>8. \A m \in Blocks : /\ data'[m].sc = data[m].sc /\ data'[m].place = data[m].place
                        /\ data'[m].payload = data[m].payload /\ data'[m].xor = data[m].xor
                        /\ Present(data'[m]) = Present(data[m])
  BY <1>6, <1>7 DEF Present
<1>9. Types' BY <1>1, <1>6, <1>8 DEF CardInv, Types
<1>10. EditInv' BY <1>1 DEF EditInv
<1>11. SealInv'
  <2>1. ASSUME NEW m \in Blocks, data'[m].sc
        PROVE  /\ m \in titles \/ data'[m].xor = data'[m].place
               /\ \A k \in Present(data'[m]) :
                    <<m, k>> \in frames' \/ data'[m].crc[k] = data'[m].payload[k]
    <3>1. /\ m \in titles \/ data[m].xor = data[m].place
          /\ \A k \in Present(data[m]) : <<m, k>> \in frames \/ data[m].crc[k] = data[m].payload[k]
      BY <1>1, <1>8, <2>1 DEF CardInv, SealInv
    <3>2. Present(data[m]) \subseteq Chunks BY DEF CardInv, Types
    <3>3. ASSUME NEW k \in Present(data[m])
          PROVE  <<m, k>> \in frames' \/ data'[m].crc[k] = data'[m].payload[k]
      <4>1. CASE m = b /\ k = c BY <4>1, <1>4, <1>7
      <4>2. CASE m = b /\ k # c BY <4>2, <1>1, <1>4, <1>7, <3>1, <3>2
      <4>3. CASE m # b BY <4>3, <1>1, <1>6, <3>1
      <4> QED BY <4>1, <4>2, <4>3
    <3> QED BY <1>8, <3>1, <3>3
  <2> QED BY <1>1, <2>1 DEF CardInv, SealInv
<1>12. ChangeInv'
  <2> SUFFICES ASSUME NEW m \in Blocks PROVE Change(before[m], data[m])'
    BY <1>1 DEF ChangeInv
  <2>1. Change(before[m], data[m]) BY DEF CardInv, ChangeInv
  <2>2. CASE m # b BY <2>1, <2>2, <1>1, <1>6 DEF Change
  <2>3. CASE m = b
    <3>1. new[c] # before[b].crc[c] => data[b].payload[c] # before[b].payload[c]
      <4>1. before[b].crc[c] = before[b].payload[c]
        BY <1>1 DEF CardInv, SealInv, AuditClean, SealsHold
      <4> QED BY <4>1, <1>4
    <3>2. \A k \in Chunks : new[k] # before[b].crc[k] => data[b].payload[k] # before[b].payload[k]
      <4> SUFFICES ASSUME NEW k \in Chunks, new[k] # before[b].crc[k]
                   PROVE  data[b].payload[k] # before[b].payload[k]
        OBVIOUS
      <4>1. CASE k = c BY <4>1, <3>1
      <4>2. CASE k # c BY <4>2, <2>1, <2>3, <1>4 DEF Change
      <4> QED BY <4>1, <4>2
    <3> QED BY <2>1, <2>3, <3>2, <1>1, <1>7 DEF Change
  <2> QED BY <2>2, <2>3
<1>13. PlanInv' BY <1>1, <1>8, ResealPlans
<1> QED BY <1>9, <1>10, <1>11, <1>12, <1>13 DEF CardInv

\* The same of a title frame.
LEMMA ResealTitleKeeps ==
  ASSUME CardInv, NEW b \in Blocks, ResealTitle(b)
  PROVE  CardInv'
<1>1. /\ phase = "apply" /\ edits = {} /\ b \in titles /\ titles' = titles \ {b}
      /\ UNCHANGED <<phase, gloss, opts, edits, frames, runs, before>> /\ TheGlossary' = TheGlossary
      /\ data' = [data EXCEPT ![b].xor = data[b].place]
  BY DEF ResealTitle, TheGlossary
<1>2. data \in [Blocks -> Block] /\ data[b] \in Block BY DEF CardInv, Types
<1>3. data[b].place \in Seq(Cells)
  <2>1. data[b].place \in [1..PlaceLen -> Cells] BY <1>2 DEF Block
  <2> QED BY <2>1, GeometryAssumption
<1>4. /\ data' \in [Blocks -> Block] /\ data'[b] = [data[b] EXCEPT !.xor = data[b].place]
      /\ \A m \in Blocks : m # b => data'[m] = data[m]
  <2>1. [data[b] EXCEPT !.xor = data[b].place] \in Block BY <1>2, <1>3 DEF Block
  <2> QED BY <2>1, <1>1, <1>2
<1>5. /\ data'[b].xor = data[b].place
      /\ data'[b].sc = data[b].sc /\ data'[b].payload = data[b].payload
      /\ data'[b].crc = data[b].crc /\ data'[b].place = data[b].place
  BY <1>2, <1>4 DEF Block
<1>6. \A m \in Blocks : /\ data'[m].sc = data[m].sc /\ data'[m].place = data[m].place
                        /\ data'[m].payload = data[m].payload /\ data'[m].crc = data[m].crc
                        /\ Present(data'[m]) = Present(data[m])
  BY <1>4, <1>5 DEF Present
<1>7. Types' BY <1>1, <1>4, <1>6 DEF CardInv, Types
<1>8. EditInv' BY <1>1 DEF EditInv
<1>9. SealInv'
  <2>1. ASSUME NEW m \in Blocks, data'[m].sc
        PROVE  /\ m \in titles' \/ data'[m].xor = data'[m].place
               /\ \A k \in Present(data'[m]) :
                    <<m, k>> \in frames \/ data'[m].crc[k] = data'[m].payload[k]
    <3>1. /\ m \in titles \/ data[m].xor = data[m].place
          /\ \A k \in Present(data[m]) : <<m, k>> \in frames \/ data[m].crc[k] = data[m].payload[k]
      BY <1>1, <1>6, <2>1 DEF CardInv, SealInv
    <3>2. m \in titles' \/ data'[m].xor = data'[m].place
      <4>1. CASE m = b BY <4>1, <1>5
      <4>2. CASE m # b BY <4>2, <3>1, <1>1, <1>4
      <4> QED BY <4>1, <4>2
    <3> QED BY <1>6, <3>1, <3>2
  <2> QED BY <1>1, <2>1 DEF CardInv, SealInv
<1>10. ChangeInv'
  <2> SUFFICES ASSUME NEW m \in Blocks PROVE Change(before[m], data[m])'
    BY <1>1 DEF ChangeInv
  <2>1. Change(before[m], data[m]) BY DEF CardInv, ChangeInv
  <2>2. CASE m # b BY <2>1, <2>2, <1>1, <1>4 DEF Change
  <2>3. CASE m = b
    <3>1. before[b].xor = before[b].place
      BY <1>1 DEF CardInv, SealInv, AuditClean, SealsHold
    <3> QED BY <2>1, <2>3, <3>1, <1>1, <1>5 DEF Change
  <2> QED BY <2>2, <2>3
<1>11. PlanInv' BY <1>1, <1>6, ResealPlans
<1> QED BY <1>7, <1>8, <1>9, <1>10, <1>11 DEF CardInv

\* The invariant holds, over any number of runs.
LEMMA CardHolds == Spec => []CardInv
<1>1. Init => CardInv
  <2> SUFFICES ASSUME Init PROVE CardInv OBVIOUS
  <2>1. Types
    BY SavesAssumption, MaxRunsAssumption DEF Init, Types
  <2>2. edits = {} /\ frames = {} /\ titles = {} /\ phase = "start" /\ before = data BY DEF Init
  <2>3. EditInv /\ SealInv /\ ChangeInv /\ PlanInv
    BY <2>2 DEF EditInv, SealInv, ChangeInv, Change, PlanInv
  <2> QED BY <2>1, <2>3 DEF CardInv
<1>2. CardInv /\ [Next]_vars => CardInv'
  <2> SUFFICES ASSUME CardInv, [Next]_vars PROVE CardInv' OBVIOUS
  <2>1. CASE Begin BY <2>1, BeginKeeps
  <2>2. ASSUME NEW e \in edits, ApplyEdit(e) PROVE CardInv'
    <3>1. Types' /\ EditInv' /\ SealInv' /\ ChangeInv' BY <2>2, ApplyKeeps
    <3>2. PlanInv' BY <2>2, ApplyPlans
    <3> QED BY <3>1, <3>2 DEF CardInv
  <2>3. ASSUME NEW b \in Blocks, NEW c \in Chunks, ResealFrame(b, c) PROVE CardInv'
    BY <2>3, ResealFrameKeeps
  <2>4. ASSUME NEW b \in Blocks, ResealTitle(b) PROVE CardInv' BY <2>4, ResealTitleKeeps
  <2>5. CASE Finish
    <3>1. /\ phase = "apply" /\ phase' = "done" /\ edits = {} /\ frames = {} /\ titles = {}
          /\ UNCHANGED <<data, gloss, opts, edits, frames, titles, runs, before>>
          /\ TheGlossary' = TheGlossary
      BY <2>5 DEF Finish, TheGlossary
    <3>2. Types' /\ EditInv' BY <3>1 DEF CardInv, Types, EditInv
    <3>3. SealInv' BY <3>1 DEF CardInv, SealInv
    <3>4. ChangeInv' /\ PlanInv' BY <3>1 DEF CardInv, ChangeInv, Change, PlanInv
    <3> QED BY <3>2, <3>3, <3>4 DEF CardInv
  <2>6. ASSUME NEW rows \in GlossaryFiles, NEW rename \in Renames, RunAgain(rows, rename)
        PROVE  CardInv'
    <3>1. /\ phase = "done" /\ phase' = "start" /\ runs < MaxRuns
          /\ gloss' = [rows |-> rows, rename |-> rename]
          /\ UNCHANGED <<data, opts, edits, frames, titles, runs, before>>
      BY <2>6 DEF RunAgain
    <3>2. edits = {} BY <3>1 DEF CardInv, Types
    <3>3. Types' BY <3>1 DEF CardInv, Types
    <3>4. EditInv' /\ PlanInv' BY <3>1, <3>2 DEF EditInv, PlanInv
    <3>5. SealInv' BY <3>1 DEF CardInv, SealInv
    <3>6. ChangeInv' BY <3>1 DEF CardInv, ChangeInv, Change
    <3> QED BY <3>3, <3>4, <3>5, <3>6 DEF CardInv
  <2>7. CASE UNCHANGED vars
    <3>1. UNCHANGED <<data, phase, gloss, opts, edits, frames, titles, runs, before>>
      BY <2>7 DEF vars
    <3>2. TheGlossary' = TheGlossary BY <3>1 DEF TheGlossary
    <3>3. Types' /\ EditInv' BY <3>1, <3>2 DEF CardInv, Types, EditInv
    <3>4. SealInv' BY <3>1 DEF CardInv, SealInv
    <3>5. ChangeInv' BY <3>1 DEF CardInv, ChangeInv, Change
    <3>6. PlanInv' BY <3>1, <3>2 DEF CardInv, PlanInv
    <3> QED BY <3>3, <3>4, <3>5, <3>6 DEF CardInv
  <2> QED BY <2>1, <2>2, <2>3, <2>4, <2>5, <2>6, <2>7 DEF Next
<1> QED BY <1>1, <1>2, PTL DEF Spec

\* A reflowed card passes the audit: every seal that an edit has broken is taken again, behind the
\* last edit under it.
THEOREM ReflowedIsSealed == Spec => []Sealed
<1>1. CardInv => Sealed BY DEF CardInv, Types, SealInv, Sealed, AuditClean, SealsHold
<1> QED BY <1>1, CardHolds, PTL

\* A run changes names of the fields it was asked for, in chunks the save carries, and the seals
\* over them, and no other cell of any block.
THEOREM NothingElseChanges == Spec => []OnlyNamesChange
<1>1. CardInv => OnlyNamesChange
  <2> SUFFICES ASSUME CardInv PROVE OnlyNamesChange OBVIOUS
  <2>1. TypeOK
    <3>1. ASSUME NEW b \in Blocks
          PROVE  /\ DOMAIN data[b].payload = Chunks /\ DOMAIN data[b].crc = Chunks
                 /\ \A c \in Chunks : DOMAIN data[b].payload[c] = Offsets
                 /\ Present(data[b]) \subseteq Chunks
                 /\ Len(data[b].place) = PlaceLen
      <4>1. data[b] \in Block BY DEF CardInv, Types
      <4>2. /\ data[b].payload \in [Chunks -> [Offsets -> Cells]]
            /\ data[b].crc \in [Chunks -> [Offsets -> Cells]]
            /\ data[b].place \in [1..PlaceLen -> Cells]
        BY <4>1 DEF Block
      <4>3. Len(data[b].place) = PlaceLen BY <4>2, GeometryAssumption
      <4> QED BY <4>2, <4>3 DEF CardInv, Types
    <3>2. \A e \in edits : e.block \in Blocks /\ e.kind \in {"party", "place"}
      BY DEF CardInv, EditInv
    <3>3. frames \subseteq Blocks \X Chunks /\ titles \subseteq Blocks BY DEF CardInv, SealInv
    <3> QED BY <3>1, <3>2, <3>3 DEF CardInv, Types, TypeOK
  <2>2. ASSUME NEW b \in Blocks PROVE data[b].sc = before[b].sc /\ Change(before[b], data[b])
    BY DEF CardInv, Types, ChangeInv
  <2> QED BY <2>1, <2>2 DEF OnlyNamesChange, Change, Present
<1> QED BY <1>1, CardHolds, PTL

\* With glossary files alone, whose sources are not in fullwidth Latin, one run is enough.
THEOREM OneRunIsEnough == Spec => []Settled
<1>1. CardInv => Settled BY DEF CardInv, Types, PlanInv, Settled
<1> QED BY <1>1, CardHolds, PTL
=============================================================================
