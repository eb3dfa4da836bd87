------------------------------ MODULE ReflowRun ------------------------------
(***************************************************************************)
(* savereflow/reflow-dqiv-psx.py as a process: main() and do_restore(),    *)
(* run any number of times over the card file and its backup, by a player  *)
(* who may also be playing (the game writes the card), and killed between  *)
(* any two file operations.  What the plan does to the bytes of a card is  *)
(* module SaveCard; here it is the constant function Reflowed.             *)
(*                                                                         *)
(* A hash stands for the contents it is taken of: SHA-256 collisions are   *)
(* not modelled.                                                           *)
(***************************************************************************)
EXTENDS Naturals

CONSTANTS
  Cards,          \* file contents of CARD_SIZE bytes
  Valid,          \* the ones whose every checksum Card.audit reproduces
  Reflowed,       \* glossary -> valid card -> what build_plan and apply_plan make of it
  NoGlossary,     \* a command line whose glossaries conflict or are empty
  Torn,           \* contents of a file that a copy or a write has truncated and not finished
  Absent,         \* no file, no contents
  MaxInvocations,        \* bound: invocations of the tool
  MaxGameSaves    \* bound: saves by the game

Glossaries == DOMAIN Reflowed

ASSUME CardsAssumption ==
  /\ Valid \subseteq Cards
  /\ Torn \notin Cards /\ Absent \notin Cards /\ Torn # Absent
  /\ NoGlossary \notin Glossaries

\* Reflowing a card that validates gives a card that validates (SaveCard checks it).
ASSUME ReflowAssumption == Reflowed \in [Glossaries -> [Valid -> Valid]]

ASSUME BoundsAssumption == MaxInvocations \in Nat /\ MaxGameSaves \in Nat

VARIABLES
  card,      \* the card file
  backup,    \* the file at CARD.reflow-backup (or --backup PATH)
  pc,        \* where the running process is, "idle" when none runs
  args,      \* its command line
  mem,       \* the bytes Card.read took into memory
  src,       \* the hash taken before a copy
  outcome,   \* how the last process ended
  invocations, gameSaves,
  (* observations, read by no action *)
  owed,      \* the whole card the last process found, which it must not lose
  taken,     \* the card the backup was verified to be a copy of
  raced,     \* has the game saved since the process took the card, or the backup, to be owed?
  late       \* has the game saved since a whole copy of the card was last made?

process == <<args, mem, src>>
runVars == <<card, backup, pc, args, mem, src, outcome, invocations, gameSaves,
             owed, taken, raced, late>>

Modes == {"restore", "verify", "plan", "apply"}
Args  == [mode : Modes, force : BOOLEAN, glossary : Glossaries \cup {NoGlossary}]

PCs == {"idle", "read", "judge", "backup", "copy", "copying", "compare", "open",
        "write", "reread", "restore", "restoring", "restored"}

Outcomes == {"none", "crashed", "error", "no_backup", "restore_failed", "restored",
             "validates", "invalid", "refused", "dry_run", "nothing", "backup_exists",
             "backup_failed", "readback_failed", "ok"}

RunTypeOK ==
  /\ card \in Cards \cup {Torn}
  /\ backup \in Cards \cup {Torn, Absent}
  /\ pc \in PCs
  /\ args \in Args
  /\ mem \in Cards \cup {Absent}
  /\ src \in Cards \cup {Torn, Absent}
  /\ outcome \in Outcomes
  /\ invocations \in 0..MaxInvocations
  /\ gameSaves \in 0..MaxGameSaves
  /\ owed \in Cards \cup {Absent}
  /\ taken \in Cards \cup {Absent}
  /\ raced \in BOOLEAN /\ late \in BOOLEAN

RunInit ==
  /\ card \in Cards
  /\ backup = Absent
  /\ pc = "idle"
  /\ args = [mode |-> "verify", force |-> FALSE, glossary |-> NoGlossary]
  /\ mem = Absent /\ src = Absent
  /\ outcome = "none"
  /\ invocations = 0 /\ gameSaves = 0
  /\ owed = Absent /\ taken = Absent /\ raced = FALSE /\ late = FALSE

----------------------------------------------------------------------------
(* The process.  Its memory goes with it. *)

Goto(label) == pc' = label /\ UNCHANGED outcome

Exit(result) ==
  /\ pc' = "idle"
  /\ outcome' = result
  /\ mem' = Absent /\ src' = Absent
  /\ UNCHANGED args

\* parse_args, and the branch to do_restore that precedes everything else.
Start(a) ==
  /\ pc = "idle"
  /\ invocations < MaxInvocations
  /\ invocations' = invocations + 1
  /\ args' = a
  /\ pc' = IF a.mode = "restore" THEN "restore" ELSE "read"
  /\ outcome' = "none"
  /\ UNCHANGED <<card, backup, mem, src, gameSaves, owed, taken, raced, late>>

\* Mutant of ReadCard: any size will do.
ReadCardAnySize ==
  /\ pc = "read"
  /\ mem' = card
  /\ owed' = IF card \in Cards THEN card ELSE owed
  /\ raced' = FALSE
  /\ Goto("judge")
  /\ UNCHANGED <<card, backup, args, src, invocations, gameSaves, taken, late>>

\* Card.read: a file of the wrong size raises FieldError, which nothing catches.
ReadCard ==
  /\ pc = "read"
  /\ IF card \in Cards
       THEN /\ mem' = card
            /\ owed' = card
            /\ raced' = FALSE
            /\ Goto("judge")
            /\ UNCHANGED <<args, src>>
       ELSE Exit("error") /\ UNCHANGED <<owed, raced>>
  /\ UNCHANGED <<card, backup, invocations, gameSaves, taken, late>>

\* Everything main decides in memory, in its order.
Verdict ==
  CASE args.mode = "verify" -> IF mem \in Valid THEN "validates" ELSE "invalid"
    [] mem \notin Valid -> "refused"
    [] args.glossary = NoGlossary -> "refused"
    [] args.mode = "plan" -> "dry_run"
    [] Reflowed[args.glossary][mem] = mem -> "nothing"
    [] OTHER -> "write"

\* Mutant of Judge: straight to the write.
JudgeWithoutBackup ==
  /\ pc = "judge"
  /\ IF Verdict = "write" THEN Goto("open") /\ UNCHANGED process
                          ELSE Exit(Verdict)
  /\ UNCHANGED <<card, backup, invocations, gameSaves, owed, taken, raced, late>>

Judge ==
  /\ pc = "judge"
  /\ IF Verdict = "write" THEN Goto("backup") /\ UNCHANGED process
                          ELSE Exit(Verdict)
  /\ UNCHANGED <<card, backup, invocations, gameSaves, owed, taken, raced, late>>

\* Mutants of HashCard: an existing backup is good enough; an existing backup is no matter.
HashCardBackupWillDo ==
  /\ pc = "backup"
  /\ IF backup # Absent /\ ~args.force
       THEN Goto("open") /\ UNCHANGED process
       ELSE src' = card /\ Goto("copy") /\ UNCHANGED <<args, mem>>
  /\ UNCHANGED <<card, backup, invocations, gameSaves, owed, taken, raced, late>>

HashCardOverBackup ==
  /\ pc = "backup"
  /\ src' = card /\ Goto("copy") /\ UNCHANGED <<args, mem>>
  /\ UNCHANGED <<card, backup, invocations, gameSaves, owed, taken, raced, late>>

\* os.path.exists(backup), then the hash of the card.
HashCard ==
  /\ pc = "backup"
  /\ IF backup # Absent /\ ~args.force
       THEN Exit("backup_exists")
       ELSE src' = card /\ Goto("copy") /\ UNCHANGED <<args, mem>>
  /\ UNCHANGED <<card, backup, invocations, gameSaves, owed, taken, raced, late>>

\* copyfile truncates its destination first ...
BackupBegin ==
  /\ pc = "copy"
  /\ backup' = Torn
  /\ taken' = Absent
  /\ Goto("copying")
  /\ UNCHANGED <<card, args, mem, src, invocations, gameSaves, owed, raced, late>>

\* ... and a source that has changed under it may come out as neither version.
BackupEnd ==
  /\ pc = "copying"
  /\ backup' \in IF card = src THEN {card} ELSE {card, Torn}
  /\ late' = (late /\ backup' # card)
  /\ Goto("compare")
  /\ UNCHANGED <<card, args, mem, src, invocations, gameSaves, owed, taken, raced>>

\* Mutant of CompareBackup: the copy is trusted.
CompareNothing ==
  /\ pc = "compare"
  /\ taken' = src /\ Goto("open") /\ UNCHANGED process
  /\ UNCHANGED <<card, backup, invocations, gameSaves, owed, raced, late>>

CompareBackup ==
  /\ pc = "compare"
  /\ IF backup = src
       THEN taken' = src /\ Goto("open") /\ UNCHANGED process
       ELSE Exit("backup_failed") /\ UNCHANGED taken
  /\ UNCHANGED <<card, backup, invocations, gameSaves, owed, raced, late>>

\* open(card, "wb") truncates the card.
OpenCard ==
  /\ pc = "open"
  /\ card' = Torn
  /\ Goto("write")
  /\ UNCHANGED <<backup, args, mem, src, invocations, gameSaves, owed, taken, raced, late>>

WriteCard ==
  /\ pc = "write"
  /\ card' = Reflowed[args.glossary][mem]
  /\ Goto("reread")
  /\ UNCHANGED <<backup, args, mem, src, invocations, gameSaves, owed, taken, raced, late>>

\* The read-back and the audit after.
Reread ==
  /\ pc = "reread"
  /\ Exit(IF card = Reflowed[args.glossary][mem] THEN "ok" ELSE "readback_failed")
  /\ UNCHANGED <<card, backup, invocations, gameSaves, owed, taken, raced, late>>

\* do_restore: the backup's hash, then copyfile over the card.
RestoreBegin ==
  /\ pc = "restore"
  /\ IF backup = Absent
       THEN Exit("no_backup") /\ UNCHANGED <<card, owed, raced>>
       ELSE /\ src' = backup
            /\ card' = Torn
            /\ owed' = IF backup \in Cards THEN backup ELSE Absent
            /\ raced' = FALSE
            /\ Goto("restoring")
            /\ UNCHANGED <<args, mem>>
  /\ UNCHANGED <<backup, invocations, gameSaves, taken, late>>

RestoreEnd ==
  /\ pc = "restoring"
  /\ card' = backup
  /\ Goto("restored")
  /\ UNCHANGED <<backup, args, mem, src, invocations, gameSaves, owed, taken, raced, late>>

RestoreCompare ==
  /\ pc = "restored"
  /\ Exit(IF card = src THEN "restored" ELSE "restore_failed")
  /\ UNCHANGED <<card, backup, invocations, gameSaves, owed, taken, raced, late>>

\* Killed, or out of disk: whatever was truncated stays so.
Crash ==
  /\ pc # "idle"
  /\ Exit("crashed")
  /\ UNCHANGED <<card, backup, invocations, gameSaves, owed, taken, raced, late>>

----------------------------------------------------------------------------
(* The game, in an emulator or on a console, replaces the card with one it has sealed. *)
GameSave(c) ==
  /\ gameSaves < MaxGameSaves
  /\ card \in Cards /\ c # card
  /\ card' = c
  /\ gameSaves' = gameSaves + 1
  /\ owed' = IF pc = "idle" THEN c ELSE owed
  /\ raced' = (pc # "idle")
  /\ late' = TRUE
  /\ outcome' = IF pc = "idle" THEN "none" ELSE outcome
  /\ UNCHANGED <<backup, pc, args, mem, src, invocations, taken>>

Tool ==
  \/ \E a \in Args : Start(a)
  \/ ReadCard \/ Judge
  \/ HashCard \/ BackupBegin \/ BackupEnd \/ CompareBackup
  \/ OpenCard \/ WriteCard \/ Reread
  \/ RestoreBegin \/ RestoreEnd \/ RestoreCompare

RunNext == Tool \/ Crash \/ \E c \in Valid : GameSave(c)

RunSpec == RunInit /\ [][RunNext]_runVars

----------------------------------------------------------------------------
(* Properties. *)

\* README: "Round trip - back up, write, restore - returns a file byte-identical to the
\* original".  Once a backup has been verified, and until a forced run replaces it, every
\* restore that reports success puts back the card as it was when the backup was verified:
\* through later runs, saves of the game, and processes killed anywhere.
RoundTrip == outcome = "restored" /\ taken # Absent => card = taken

\* A verified backup is displaced only by a run that was given --force-backup and has
\* itself read a card that validates: a torn or damaged card never costs the good copy.
BackupKept == [][taken # Absent /\ taken' # taken => args.force /\ mem \in Valid]_runVars

\* The card a run found (or the backup a restore found, or the game's later save) is whole
\* in one of the two files at every moment, whatever file operation a crash interrupts -
\* unless the game saves into the run, over a card that has no copy yet.
Recoverable == owed \in Cards /\ ~raced => owed \in {card, backup}

\* When the tool prints OK, the card is the reflow of exactly what the backup holds, so that
\* restoring undoes this reflow and nothing else - again unless the game saved into the run.
OkMeansReflowed ==
  outcome = "ok" /\ ~raced => backup \in Valid /\ card = Reflowed[args.glossary][backup]

\* "restore verified: card is byte-identical to the backup" is only worth printing when the
\* backup is a card.
RestoredIsWhole == outcome = "restored" => card \in Cards

\* The two files implement the vault: a torn card stands for the backup it can be restored
\* from, a backup that is not whole for none, and a process for the command line it serves.
Nothing == Absent
NoRequest == [mode |-> "none", force |-> FALSE, glossary |-> NoGlossary]
Whole(file) == IF file \in Cards THEN file ELSE Nothing
Vault == INSTANCE CardVault WITH
  Requests <- Args,
  current  <- IF card \in Cards THEN card ELSE Whole(backup),
  saved    <- Whole(backup),
  request  <- IF pc = "idle" THEN NoRequest ELSE args,
  seen     <- mem,
  stale    <- raced,
  saves    <- gameSaves

\* Every step of the files is a step of the vault or changes nothing in it: a card goes only
\* when the backup is that card, and becomes the reflow of the card the plan was made from; a
\* backup goes only for a forced run with something to write; and a save of the game, which a
\* run may overwrite, is lost only if it came after the copy.
ImplementsVault == Vault!Spec
=============================================================================
