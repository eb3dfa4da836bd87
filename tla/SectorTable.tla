----------------------------- MODULE SectorTable -----------------------------
(***************************************************************************)
(* dq4/sectortable.py: the level sector table of the executable, the       *)
(* archive whose blocks it names, and the gate a build must pass.          *)
(*                                                                         *)
(* A build is anything that moves, copies and grows blocks and rewrites    *)
(* words of the table, with repack or by hand.  check_table is the gate,   *)
(* as preflight.preflight and gate 46 of verify.py call it.  A word is the *)
(* integer it is on the disc: flag, length and lba, in that order.         *)
(***************************************************************************)
EXTENDS Integers, FiniteSets

CONSTANTS
  N,               \* ENTRY_COUNT
  LbaSpan,         \* LBA_MASK + 1
  LenSpan,         \* LEN_MASK + 1
  FlagBit,         \* FLAG_BIT
  ArchiveBase,     \* ARCHIVE_LBA_BASE
  NSectors,        \* sectors of the archive
  FlaggedIndexes,  \* the entries the shipped game has the flag on
  Bases,           \* [table, archive] a build may start from
  NewLengths,      \* lengths a build may ask of an entry or a block
  NewLbas,
  MaxEdits         \* bound: steps of a build

Entries == 0 .. N - 1
Slots   == -1 .. N            \* the table, and the word on each side of it
Words   == 0 .. 2 * FlagBit - 1
Sectors == 0 .. NSectors - 1
Blocks  == [id : Nat, nsec : Nat \ {0}, text : BOOLEAN]

ASSUME WordAssumption ==
  /\ LbaSpan \in Nat \ {0} /\ LenSpan \in Nat \ {0}
  /\ FlagBit = LenSpan * LbaSpan

----------------------------------------------------------------------------
(* A word. *)

Length(w) == (w \div LbaSpan) % LenSpan
Lba(w)    == w % LbaSpan
Flag(w)   == (w \div FlagBit) % 2

\* pack raises ValueError on a field that does not fit.
Fits(len, lba)       == len \in 0 .. LenSpan - 1 /\ lba \in 0 .. LbaSpan - 1
Pack(len, lba, flag) == flag * FlagBit + len * LbaSpan + lba
\* Mutant of Repack: the flag is not carried across.
RepackWithoutFlag(w, len, lba) == Pack(len, lba, 0)

Repack(w, len, lba)  == Pack(len, lba, Flag(w))

\* A word assembled as length << 20 | lba, which the field layout warns against.
ByHand(len, lba) == len * LbaSpan + lba

----------------------------------------------------------------------------
(* The table over an archive: scan_blocks gives the sectors that begin a block. *)

\* lba_to_sector
SectorOf(t, i) == Lba(t[i]) - ArchiveBase

\* live_entries
Live(t, archive) == {i \in Entries : Flag(t[i]) = 0 /\ SectorOf(t, i) \in DOMAIN archive}

Flagged(t) == {i \in Entries : Flag(t[i]) = 1}

\* A build starts from the shipped game or from a build of it: whole blocks, and the flags
\* that FLAGGED_INDEXES was measured from.
ASSUME TableAssumption ==
  /\ N \in Nat /\ NSectors \in Nat /\ ArchiveBase \in Nat /\ MaxEdits \in Nat
  /\ FlaggedIndexes \subseteq Entries
  /\ NewLengths \subseteq Int /\ NewLbas \subseteq Int
  /\ \A b \in Bases :
       /\ b.table \in [Slots -> Words] /\ Flagged(b.table) = FlaggedIndexes
       /\ DOMAIN b.archive \subseteq Sectors
       /\ \A s \in DOMAIN b.archive : b.archive[s] \in Blocks /\ s + b.archive[s].nsec <= NSectors

\* Check 1: the fields tile the word, and every word re-encodes to itself.
RoundTrip(t) ==
  /\ LenSpan * LbaSpan = FlagBit
  /\ \A i \in Entries : Pack(Length(t[i]), Lba(t[i]), Flag(t[i])) = t[i]

\* Check 2
FlagsKept(flagged, t) == Flagged(t) = flagged

\* Check 3 sorts the spans by sector, length and offset, and compares neighbours only.
Before(t, i, j) ==
  LET si == SectorOf(t, i)  sj == SectorOf(t, j)
      ni == Length(t[i])    nj == Length(t[j])
  IN \/ si < sj
     \/ si = sj /\ ni < nj
     \/ si = sj /\ ni = nj /\ i < j

Neighbours(t, live, i, j) ==
  Before(t, i, j) /\ ~ \E k \in live : Before(t, i, k) /\ Before(t, k, j)

\* Mutant of Clash: a last sector in common is let pass.
ClashByOne(t, i, j) ==
  IF SectorOf(t, i) = SectorOf(t, j)
    THEN Length(t[i]) # Length(t[j])
    ELSE SectorOf(t, i) + Length(t[i]) > SectorOf(t, j) + 1

Clash(t, i, j) ==
  IF SectorOf(t, i) = SectorOf(t, j)
    THEN Length(t[i]) # Length(t[j])
    ELSE SectorOf(t, i) + Length(t[i]) > SectorOf(t, j)

NoOverlap(t, live) == \A i, j \in live : Neighbours(t, live, i, j) => ~Clash(t, i, j)

\* Mutant of TextReach: the two lengths are not compared.
TextReachNamed(t, archive, live) ==
  \A s \in {s \in DOMAIN archive : archive[s].text} : \E i \in live : SectorOf(t, i) = s

\* Check 4.  parse_block keeps a block's sub-blocks inside its stored sector count, so a
\* sub-block is inside the entry's extent when the two lengths agree.
TextReach(t, archive, live) ==
  \A s \in {s \in DOMAIN archive : archive[s].text} :
    /\ \E i \in live : SectorOf(t, i) = s
    /\ \A i \in live : SectorOf(t, i) = s => Length(t[i]) = archive[s].nsec

\* Check 5.  `sameLength`: the two executables are of one length.
LiveKept(baseTable, baseArchive, t, live, sameLength) ==
  /\ sameLength
  /\ Live(baseTable, baseArchive) \subseteq live
  /\ \A k \in {-1, N} : t[k] = baseTable[k]

\* check_table.  `resolve` is base_blocks, or the built archive when that is not given.
CheckTable(baseTable, flagged, resolve, t, archive, sameLength) ==
  LET live == Live(t, archive) IN
    /\ RoundTrip(t)
    /\ FlagsKept(flagged, t)
    /\ NoOverlap(t, live)
    /\ TextReach(t, archive, live)
    /\ LiveKept(baseTable, resolve, t, live, sameLength)

\* Gate 46 of verify.py: one image as base and build, and the shipped game's flags.
Gate46(t, archive) == CheckTable(t, FlaggedIndexes, archive, t, archive, TRUE)

----------------------------------------------------------------------------
VARIABLES
  base,      \* what the build started from
  table, archive,
  resized,   \* has the executable another length than the base's?
  phase,     \* "building", "raised" (ValueError), "refused" or "accepted"
  edits,
  (* observations, read by no action *)
  byHand,    \* the words assembled by hand
  reused,    \* the sectors a block was written into that did not begin there before
  resolved   \* did the gate that accepted have the base's blocks?

tableVars == <<base, table, archive, resized, phase, edits, byHand, reused, resolved>>

TableInit ==
  /\ base \in Bases
  /\ table = base.table /\ archive = base.archive /\ resized = FALSE
  /\ phase = "building"
  /\ edits = 0
  /\ byHand = {} /\ reused = {} /\ resolved = FALSE

Edit ==
  /\ phase = "building" /\ edits < MaxEdits
  /\ edits' = edits + 1
  /\ UNCHANGED <<base, resolved>>

\* A block written at sector s takes its sectors from whatever began there.
Written(a, s, block) ==
  LET taken == s .. s + block.nsec - 1
  IN [x \in (DOMAIN a \ taken) \cup {s} |-> IF x = s THEN block ELSE a[x]]

Without(a, s) == [x \in DOMAIN a \ {s} |-> a[x]]

\* A block is relocated, its old place zeroed, or left as a duplicate.
MoveBlock(s, to, zeroed) ==
  /\ Edit
  /\ s \in DOMAIN archive /\ to # s
  /\ to + archive[s].nsec <= NSectors
  /\ archive' = Written(IF zeroed THEN Without(archive, s) ELSE archive, to, archive[s])
  /\ reused' = reused \cup (to .. to + archive[s].nsec - 1)
  /\ UNCHANGED <<table, resized, phase, byHand>>

\* A block's text outgrows its slack.
GrowBlock(s, nsec) ==
  /\ Edit
  /\ s \in DOMAIN archive /\ nsec > archive[s].nsec /\ s + nsec <= NSectors
  /\ archive' = Written(archive, s, [archive[s] EXCEPT !.nsec = nsec])
  /\ reused' = reused \cup (s + 1 .. s + nsec - 1)
  /\ UNCHANGED <<table, resized, phase, byHand>>

\* repack: the flag is carried across, and a field that does not fit stops the build.
Repoint(k, len, lba) ==
  /\ Edit
  /\ IF Fits(len, lba)
       THEN table' = [table EXCEPT ![k] = Repack(@, len, lba)] /\ UNCHANGED phase
       ELSE phase' = "raised" /\ UNCHANGED table
  /\ UNCHANGED <<archive, resized, byHand, reused>>

AssembleByHand(k, len, lba) ==
  /\ Edit
  /\ Fits(len, lba)
  /\ table' = [table EXCEPT ![k] = ByHand(len, lba)]
  /\ byHand' = byHand \cup {k}
  /\ UNCHANGED <<archive, resized, phase, reused>>

\* Code is added to the executable, or cut from it.
ResizeExe ==
  /\ Edit
  /\ resized' = TRUE
  /\ UNCHANGED <<table, archive, phase, byHand, reused>>

\* Mutants of Preflight: the built executable stands for the base's flags too; the base's
\* blocks are not passed on to check_table.
PreflightSelfCompared(baseBlocks) ==
  /\ phase = "building"
  /\ resolved' = baseBlocks
  /\ phase' = IF CheckTable(base.table, Flagged(table),
                            IF baseBlocks THEN base.archive ELSE archive, table, archive, ~resized)
                THEN "accepted" ELSE "refused"
  /\ UNCHANGED <<base, table, archive, resized, edits, byHand, reused>>

PreflightUnresolved(baseBlocks) ==
  /\ phase = "building"
  /\ resolved' = baseBlocks
  /\ phase' = IF CheckTable(base.table, Flagged(base.table), archive, table, archive, ~resized)
                THEN "accepted" ELSE "refused"
  /\ UNCHANGED <<base, table, archive, resized, edits, byHand, reused>>

\* preflight.preflight.  Without base_blocks and without a disc to read them from, check 5
\* resolves the base's entries against the built archive.
Preflight(baseBlocks) ==
  /\ phase = "building"
  /\ resolved' = baseBlocks
  /\ phase' = IF CheckTable(base.table, Flagged(base.table),
                            IF baseBlocks THEN base.archive ELSE archive, table, archive, ~resized)
                THEN "accepted" ELSE "refused"
  /\ UNCHANGED <<base, table, archive, resized, edits, byHand, reused>>

TableNext ==
  \/ \E s, to \in Sectors, zeroed \in BOOLEAN : MoveBlock(s, to, zeroed)
  \/ \E s \in Sectors, nsec \in NewLengths : GrowBlock(s, nsec)
  \/ \E k \in Slots, len \in NewLengths, lba \in NewLbas : Repoint(k, len, lba)
  \/ \E k \in Slots, len \in NewLengths, lba \in NewLbas : AssembleByHand(k, len, lba)
  \/ ResizeExe
  \/ \E baseBlocks \in BOOLEAN : Preflight(baseBlocks)

TableSpec == TableInit /\ [][TableNext]_tableVars

----------------------------------------------------------------------------
(* Properties. *)

\* Types, a part of RepackCarriesFlag below.
TableTypeOK ==
  /\ base \in Bases
  /\ table \in [Slots -> Words]
  /\ DOMAIN archive \subseteq Sectors
  /\ \A s \in DOMAIN archive : archive[s] \in Blocks /\ s + archive[s].nsec <= NSectors
  /\ phase \in {"building", "raised", "refused", "accepted"}
  /\ edits \in 0..MaxEdits
  /\ byHand \subseteq Slots /\ reused \subseteq Sectors
  /\ resized \in BOOLEAN
  /\ resolved \in BOOLEAN

\* However many words a build repacks, and whatever it asks of them, bit 31 of every word
\* not assembled by hand is the base's, and it is a word of 32 bits: repack is all a relocation needs to pass
\* check 2.
RepackCarriesFlag == TableTypeOK /\ \A k \in Slots \ byHand : Flag(table[k]) = Flag(base.table[k])

\* Check 3 looks at neighbours in one sorted order only, and that is enough: in a table it
\* accepts no two levels load a common sector, unless they load the same extent.
LoadsDisjoint ==
  phase = "accepted" =>
    \A i, j \in Live(table, archive) :
      SectorOf(table, i) # SectorOf(table, j) =>
        {SectorOf(table, i) + d : d \in 0 .. Length(table[i]) - 1} \cap
        {SectorOf(table, j) + d : d \in 0 .. Length(table[j]) - 1} = {}

\* "The exact failure the invariant exists to catch" is a relocation whose entry was never
\* rewritten.  With the base's blocks at hand, an accepted level that still points where its
\* base did loads the very block it loaded there, and all of it if it holds text - provided
\* the build has written no other block over that sector: the gate asks that a block begins
\* there, not which, so a level left behind in a reused place is let through.
NoRelocationMissed ==
  phase = "accepted" /\ resolved =>
    \A i \in Live(base.table, base.archive) :
      LET s == SectorOf(table, i) IN
      s = SectorOf(base.table, i) /\ s \notin reused =>
        /\ s \in DOMAIN archive
        /\ archive[s].id = base.archive[s].id
        /\ archive[s].text => Length(table[i]) = archive[s].nsec

\* What preflight lets through, gate 46 passes on the finished disc, which it has to judge
\* without the disc the build started from.
GatesAgree == phase = "accepted" => Gate46(table, archive)
=============================================================================
