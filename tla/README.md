# A TLA+ verification project for DQIV_PSX_TOOLS

This directory holds TLA+ models of the parts of DQIV_PSX_TOOLS where something
can go wrong that a unit test hardly reaches, TLC configurations that check
them on small instances, and TLAPS proofs of the results that matter most for
every value of the constants.  Line numbers refer to the files of the
repository; `RF` is `savereflow/reflow-dqiv-psx.py`.

## 1. The system

The repository is a set of Python tools around one PlayStation disc.

| Part | State it keeps | Operations | Talks to |
|---|---|---|---|
| `savereflow` (RF) | a memory-card file, a backup beside it, the card in memory | `main` (plan, verify, apply), `do_restore`, `Card.audit`, `build_plan`, `apply_plan` | the player, who may be running the game; the file system |
| `dq4/sectortable.py`, `dq4/preflight.py` | the level sector table of the executable; the archive it points into | `pack`, `repack`, `entries`, `live_entries`, `check_table`, `preflight` | builds, `verify.py` gate 46 |
| `dq4/discbuild.py`, `dq4/iso.py`, `dq4/edcecc.py` | disc images on disk | `inject`, `find`, `extract`, `fix`; `preflight.main` reads while a build may write | builds |
| `dq4/splitimm.py` | one pass over a code image: pending `lui`s, last writers | `find`, `find_word_refs`, `compose`, `halves`, `rewrite` | `verify.py` gate 45 |
| `dq4/textblock.py`, `dq4/huffman.py`, `dq4/treebuild.py` | a tree array, a code stream, a read position | `build`, `build_from_lengths`, `decode`, `encode`, `string_offsets` | `referrers`, `corpus`, builds |
| `dq4/referrers.py`, `dq4/dictionary.py`, `verify.py` gate 44 | an index of text blocks, the words that name strings, a verdict | `block_index`, `build`, the suffix rule of `corpus.py`, `_carriers_of` and the gate | builds |
| `dq4/lzs.py`, `dq4/lzs_comp.py` | two ring buffers, hash chains | `compress`, `decompress`, `decompress_exact`, `overrun` | everything that reads the archive |
| the locators: `dq4/hbd.py`, `dq4/overlay.py`, `exe_blocks` and `exe_refs` of `dq4/referrers.py` | blocks by sector, images and blocks by contents, a scan position, a list of references | `parse_block`, `scan_blocks`, `sub_blocks`, `overlay_images`, `scan_image`, `blocks`, `exe_blocks`, `exe_refs` | everything |
| `dq4/corpus.py` | an output directory, which people also work in | `build`, `write`, `manifest` | the locators, the codec, people |
| `dq4/mips.py`, `fonts`, `glyph`, `codes` | none: tables | lookups | `splitimm`, `corpus` |
| `verify.py` | none | 47 gates over one disc | all of the above |

What is hard in it:

* *Crashes between file operations* (`savereflow`, `discbuild`, `corpus`).
  Nothing is written atomically; `shutil.copyfile` and `open(..., "wb")`
  truncate first.
* *Two processes at one file*: the game saves while the tool runs; a check
  starts while a build is writing the image.
* *Positions that go stale*: a `lui` pending over whatever follows it, a table
  entry whose block has moved, a chain of ring positions that were overwritten,
  a reference into text that was re-encoded.
* *Directories that are not emptied*: a corpus run hashes whatever lies in the
  directory it wrote into, its own files and others.
* *Scans that guess*: a block is found by what its header looks like, at a
  position that depends on what was found before it.
* *Gates that share a blind spot with what they judge*: one image given as base
  and build, a reader and a writer with the same list, a count over the copies
  that could still be read.
* *Boundaries*: sign extension and carry, names that straddle two frames, short
  last sectors, zero fill that completes a code, streams cut anywhere.

What makes each part correct is stated with its module in section 3; the list
of hazards, each at its line and with the properties that would notice it, is
`hazards` in `PROJECT.json`.

## 2. The plan

In order of importance:

| | Modules | State |
|---|---|---|
| 1 | `CardVault` (abstract), `ReflowRun`, `SavereflowProofs` | checked and proved |
| 2 | `SaveCard`, `SavereflowProofs` | checked and proved |
| 3 | `SectorTable`, `DiscProofs` | checked and proved |
| 4 | `DiscBuild`, `DiscProofs` | checked, liveness included; safety proved |
| 5 | `SplitImm`, `SplitImmProofs` | checked and proved |
| 6 | `TextCodec`, `TextCodecProofs` | checked and proved |
| 7 | `Lzs`, `LzsProofs` | checked and proved |
| 8 | `Referrers`, `ReferrersProofs` | checked and proved |
| 9 | `Locate`, `CorpusProofs` | checked and proved |
| 10 | `Corpus`, `CorpusTree`, `CorpusProofs` | checked and proved |

`NaturalLemmas` holds what the proofs need of `\div` and `%`, which the SMT backend
knows little of unless the divisor is a numeral, the induction they need, and what
they need of running sums (the offsets of sub-blocks, strings and codes).

`ReflowRun` and `SaveCard` divide one program between them: `SaveCard` says what
a run makes of the bytes of a card (and shows that a card which validates is
made into one that validates), `ReflowRun` takes that as the constant function
`Reflowed` and says what happens to the two files.  `DiscBuild` likewise leaves
the verdict on what was extracted to `SectorTable`.  `Locate` finds the blocks whose
strings `Referrers` surveys and whose trees `TextCodec` walks; `CorpusTree` takes
what was found as a constant, names the files it goes to, and gives them as the
constant `Writes` to `Corpus`, which runs the process that writes them.

Every module that is to be proved about keeps its parameters as constants with
named assumptions, has one action per operation, and declares no recursive
operator: the weights and the chains of `Lzs` and the loops of `CorpusTree` are
recursive functions, and so are the running sums of `Referrers` and `Locate` and, in
`TextCodec`, the walk of a tree, the code stream and the numbers of a canonical code.

## 3. The modules

Each module `M` has a module `MCM` that gives its constants small values and one
or two `.cfg` files.  Definitions called `...<Something>` whose comment begins
"Mutant of" are what a plausible bug would make of the definition that follows;
nothing uses them, and putting one in the place of its original must violate
the property that `PROJECT.json` lists it under.  Variables named as
*observations* are read by no action.

### CardVault, ReflowRun, SavereflowProofs

`ReflowRun` is RF as a process (its specification is `RunSpec`; `MaxInvocations` bounds
the runs).  Every file operation of `main` (575-698) and
`do_restore` (545-560) is an action; between any two of them the process can be
killed (`Crash`) and the game can write the card (`GameSave`).  A copy is two actions, one that truncates and one that finishes.
`card` and `backup` are the two files, `mem` is what `Card.read` took into
memory, `src` the hash taken before a copy, `pc` and `args` the running process,
`outcome` how it ended.  A hash is the contents it is taken of.  The observations
are `owed`, the card a run must not lose, `taken`, the one the backup was verified
to be, `raced`, whether the game has saved since `owed` was set, and `late`, whether it
has saved since a whole copy was last made.

`CardVault` is what the tool promises, with no files: a card that can be got
back (`current`), a copy put aside (`saved`), the command line being served (`request`)
and the card its plan was made from (`seen`).  Only the game turns a card into any
other (`Play`), and its steps are counted (`saves`), so that a step of the tool cannot
pass for one of them.  The tool turns a card into the reflow of the card it has seen, while
the copy is the card it replaces (`Replace`); it brings the copy back only when asked
to (`Restore`); it gives a copy up only for a plan that has something to write,
only when forced, and while the card is whole (`Discard`); and it loses what the game saved
(`Lose`) only if that was saved after the copy was made.  `Replace` may be given a card
that is not the one the plan was made from, but only if the game has saved since (`stale`):
the plan is made at RF:608 and the card is hashed at RF:673.  The
refinement `ImplementsVault` maps `current` to the card, or to the backup while the card
is torn, `saved` to the backup while it is whole, and `saves` to `gameSaves`.

* `ImplementsVault`: each step of the files is one of the vault or changes nothing in
  it.  Of a run the game saves into, it says that what was saved before the copy is in
  the copy.

* `RoundTrip`: once a backup has been verified, and until a forced run displaces
  it, a restore that reports success puts back that very card.
* `BackupKept`: only a run with `--force-backup` that has read a card which
  validates displaces a verified backup.
* `Recoverable`: the card a run found is whole in one of the two files at every
  moment, unless the game saved into the run.
* `OkMeansReflowed`: OK means the card is the reflow of what the backup holds,
  unless the game saved into the run.
* `RestoredIsWhole`, which the code violates: see section 6.

### SaveCard, SavereflowProofs

The bytes: `data` maps a block to its title frame and its chunks, each with its
seal; a cell is one character of a field.  `Begin` is the audit, the glossary and
the plan; `ApplyEdit`, `ResealFrame` and `ResealTitle` are the loops of
`apply_plan` (503-528), one element a step in any order the sets allow, and
`RunAgain` starts the tool on the card it wrote.  `Site` is `ram_span_to_card`:
record 1's name begins in one chunk and ends in the next, as record 15's does.

* `Sealed`: what is written passes the audit.
* `OnlyNamesChange` (with the types of the card): nothing else changes - not a
  stale frame outside the present map, not the state between the names, not a
  block that is no save.
* `Settled`: a second run with the same files finds nothing to do.  This excludes
  renames (a chain of them is applied one link a run) and glossaries whose source
  column is fullwidth Latin (`_lookup`, RF:389-393, folds to ASCII only when the
  exact text is no key, so such a row can disagree with an ASCII one).

### SectorTable, DiscProofs, NaturalLemmas

`table` and `archive` under a build: `Repoint` is `repack`; moving, growing and
zeroing blocks and assembling a word by hand are what builds do (external).
`Preflight` is the gate, called with or without the base's blocks, and
`CheckTable` its five checks.  A word is an integer: flag, length, LBA.

* `RepackCarriesFlag` (with the types of the words): bit 31 survives every `repack`.
* `LoadsDisjoint`: comparing neighbours of one sorted order is enough for check 3.
* `NoRelocationMissed`: given the base's blocks, an accepted level that still points
  where its base did loads the block it loaded there, and all of it if it holds text -
  unless the build wrote another block over that sector (`reused`).
* `GatesAgree`: what preflight accepts, gate 46 passes without the base.

Check 5 reports entries that were live and are not; an entry that pointed at
nothing and now names a block passes.  `sectortable.py:245-246` speaks of an
unchanged *set* of live entries.  It also asks only that *some* block begins where an
entry points.  If two entries name the block at 0, that block is moved to 3, the one at 2
is moved to 0, and one of the two entries follows, the other now loads a block it was
not made for and the gate passes; `NoRelocationMissed` is violated without its condition
on `reused`.  An executable of another length is refused (`ResizeExe`,
`sectortable.py:378`).

### DiscBuild, DiscProofs

A builder runs the two injections of a build sector by sector, each into a fresh
copy; a checker runs `preflight.main`: hash, `find`, `extract` sector by sector,
hash.  Either may stand still while the other runs; a build may die anywhere and
be started again.  A sector is its user cells and a seal, which stands for the
EDC/ECC over the cells it was computed from.

* `BuildIsExact` (with the types of images and processes): the source, with the
  payloads over it, and nothing else.
* `VerdictIsOfTheHash`: when the two hashes agree, the files judged are those of
  the image whose hash was printed - unless a build truncated the image in the
  meantime: one that rewrites the same bytes in time cannot be told from none.
* `WaitedCheckIsOfTheBuild`: a check begun after a build ended judges that build.
* `CheckEnds`: a check of an image that stays whole ends.  Without that condition
  it need not: `extract` of an extent past the end of a truncated image reads
  nothing and never gets nearer to its length (`iso.py:127`).

Fairness: weak fairness of `Checker` and of `Builder`, each a process the
operating system keeps running; nothing is assumed about builds or checks being
started, nor about crashes.  No other module claims liveness.

### SplitImm, SplitImmProofs

`Scan` reads one word of the code: the machine executes it and `find` looks at
it.  `regs` and `held` are the machine (external: the R3000), `pending`,
`lastOp` and `sites` the scan.  `Rewrite` patches a set of sites to a new value,
and `Rescan` is the second pass of gate 45.

* `SplitIsReal`: a reported pair is what the machine composes, if no jump or call
  lies between its halves.
* `Complete`: no pair within the window is missed.
* `OrphanIsLoaded`: what is reported alone had its register loaded.
* `OneSitePerHalf`, `ReadWriteAgreement`: rewriting one site never changes
  another, and the second pass finds what was written.
* `NoPairAcrossJump`, which the code violates: see section 6.

An expired `lui` stays in the table of pending ones; `Live` is what tells it
from a current one, and only `IsOrphan` still looks past it.

### TextCodec, TextCodecProofs

`Merge` is one merge of `treebuild.build`, `Lay` its layout; `Load` takes a
stream that was written or found, `ReadBit` is one bit of `decode` and of
`string_offsets`; `Recode` re-encodes with `build_from_lengths`.  A tree is the
dual-base array of words the engine reads.

* `AsTheEngineWalks` (with the types of codes and arrays): the shape every walk
  of the array relies on.
* `Optimal`: stopping at four items is optimal among the trees whose codes have
  at least two bits (checked against every full tree of that many leaves).
* `TextComesBack`, `RoundTrip`: both directions; zero fill adds only the symbol of
  the all-zero code.
* `StartsAreStrings`, `StartsKept`: a start is a string, and a re-encoding with the
  same lengths keeps every start.

### Lzs, LzsProofs

`Token` is one turn of `compress`, `Slide` one byte of its inner loop, `Finish`
the last flags; `ReadBack` hands the stream, or any beginning of it, to
`decompress`, whose `Turn` and `Copy` move one byte each.  `Weight[b]` is `1 << b`; the
flags of a group carry their guard bits above them, as in the code, and
`flags & 0x100` is the bit at `Byte`.

* `RoundTrip`: the data comes back, with no overrun; of a stream cut short comes a
  beginning of the data.
* `RingIsWindow` (with the types of rings and positions): either ring is the
  last `N` bytes behind it, so that an offset means the same byte to both sides.

An entry of `head` can come to link to itself (the same key exactly `N` bytes
later), so `max_chain` is also what ends such a walk (`lzs_comp.py:39`).

### Referrers, ReferrersProofs

An archive is the sequence of its sub-blocks, a sub-block a sequence of cells: a
word, the dialogue command, a text block.  `Survey` is `block_index` and `build`
of `referrers.py` (lookup tails, type 26 records, type 44 rosters, type 39
scripts; one sub-block of each content, decompressed first); `Editable` is the
suffix rule of `corpus.py` (304-346).  The build that edits one string, rewrites
every copy of its block and every word of the survey is external; it may miss
one copy, leave one that does not decompress, or one whose block has lost its
structure.  `Check` is gate 44.  The executable is not in the archive; it has the
place of a sub-block of type 0, which is never compressed, and the gate looks into it with
`exe_blocks`.  That call has no handler: a block there that has lost its structure
may end the verifier without a verdict (`Raise`, `verify.py:105`) or, if it no longer looks
like one, be passed over.  A second build starts from the first, or from
the base if the first went wrong.

* `StoredKept` (with the types of archive and survey): after a build that
  reached everything, each word the game follows in the four systems, in every
  copy, names the string it named at first.
* `HiddenKept`: so does a word no survey finds, if it names a string with symbols
  that nothing else is known to name.  This is what the suffix rule is for, and
  both conditions are needed: a string without symbols is no barrier
  (`corpus.py:313-319`), so a hidden word that names one *is* left behind, and a
  string with one known reference counts as resolved whatever else names it.
* `CarriersAgree`: gate 44 passes only if all places that held the block hold one
  payload, in the archive and in the executable, and all can be read - unless one has
  lost its structure.  Such a copy in the archive
  raises nothing, so it is not counted as unexaminable, and N/N is N-1/N-1; an id
  found nowhere gives `n == m` with 0/0 and passes too (`verify.py:1125`, 1143).
  Nor does the gate look behind the self pointer, where the tail records are.

What a build starts from is a disc as it is found (`DiscAssumption`): sub-blocks are
what their headers say, the blocks of an id are byte-identical (`corpus.py:731` counts
those that are not, and there are none), their trees hold, and the words that name
their strings can hold every offset into them.  A word has 20 bits for that, and no code
checks that an edit does not grow a block beyond them: `Edit` takes only edits that
stay `Addressable`, and of a build that goes past it the properties say nothing.  What a
string is edited to is text that shows (`EditAssumption`).

### Locate, CorpusProofs

What `corpus.py` calls, in its order.  The archive is the headers that stand at
its sectors; an image (an overlay, the executable) is the header-shaped words in
it, each with the fields the locators test.  `ScanBlocks` is `scan_blocks` with its
prefilter and the conditions of `parse_block`; `ExeBlocks` is `exe_blocks`, after which
the run may have died (`"raised"`), because `TextBlock` is called unguarded there;
`TableRow` is one row of a table of `exe_refs` and `Sweep` the loop behind the tables;
`OverlayImages` deduplicates the type 46 images; `ScanImage` is one turn of
`scan_image` and the `setdefault` of `overlay.blocks` behind it, `NextImage` the next
image.

* `OverlayTextFound`: every text block of every overlay is found at every place
  it occurs, each once, under its contents - and nothing else is.  What is a
  text block, and what of a damaged archive is a block at all, is stated again
  from `FORMAT.md` sections 2 and 3 (`Genuine`, `IsText`), not from the code.
  If a block's length is no multiple of a word, `o += a` (`overlay.py:79`)
  leaves the word boundary and the rest of that image is lost; the antecedent
  says so.
* `ExeRefsOnce`: a word that names a string of the executable is listed once, by a
  table or by the sweep, wherever the tables end.

`CompressedAssumption` says that a compressed sub-block is not cut off by the end
of the archive (what `decompress` makes of a stream cut short is `Lzs`, and such a
beginning need hold no text); `FieldsAssumption` says that no word belongs to two
rows of the tables and that their words are aligned, which their addresses give;
`NestedAssumption` that a text block inside another ends inside it, without which the scan
would land in its middle; `DiscAssumption` that headers have the fields of a header and
that no two of them stand at one place.

### Corpus, CorpusTree, CorpusProofs

`Corpus` is the run of `corpus.py` as a process over its output directory: `Start`,
`WriteFile` (one call of `write`), `Manifest` (the walk and `MANIFEST.sha256`), `Finish`
(`MANIFEST.md`).  A run dies before a file or within it (`Crash`), and the next one
starts in what it left; nothing is ever removed.  `Edit` is somebody putting work
under `editorial/`.  `CorpusTree` says which files a decode has and in which order:
variants of an id numbered in the order of their digests, the executable by
address, the overlays by id and first site.  Two copies of a text are found in two
sectors: of two in one, `sorted` would compare what cannot be compared
(`corpus.py:248`) and the run would end there, as at any `Crash`.

* `RollupsAreOfTheRun`: whatever died in the directory before, a run that
  reaches its end has hashed exactly what its decode says of every path it
  writes; any further row is a file of *another* decode that this one has no
  file for.
* `RollupsSeparate`: each of the three roll-ups moves for its own population.
* `EveryTextHasItsFile`: each distinct text of an id has a file to itself at the
  end, whatever variants an earlier run left.  Files of the executable and of the
  overlays are named by the id alone: of the blocks that share one, the block found last
  (the highest address, the last first site) is left with the file, and no other has
  one.  The dictionary beside it may be the earlier block's, if the later has none
  (`corpus.py:677-682`).

## 4. The runs

| Run | Question | Bounds | Distinct states | Depth |
|---|---|---|---|---|
| `reflow_run` | Can the tool lose a card or its backup, whatever the game does? | 6 cards (one damaged), 2 glossaries, 4 runs, 2 saves at any moment | 188,110 | 22 |
| `reflow_torn_restore` | Is what a restore calls verified whole? (no) | as above | - | - |
| `save_card` | Is a written card sealed, minimal and settled? | 2 blocks, 4 chunks of 4 cells, 8 glossaries, 3 renames, 3 options, 2 runs | 90,875 | 28 |
| `sector_table` | What does the gate let through? | 4 words, 6 sectors, 3-bit LBAs, 2-bit lengths, 3 edits | 266,710 | 5 |
| `disc_build` | What does a verdict mean while a build may run? | 5 sectors of 2 cells, 2 builds | 237,292 | 64 |
| `split_imm` | Does the scan see what the machine computes? | 4 words over 25 instructions, 2-bit immediates, window 2 | 458,307 | 10 |
| `split_imm_jump` | Is a pair ever taken across a jump? (yes) | as above, window 3 | - | - |
| `text_codec` | Do tree, stream and starts fit together? | trees of 5 symbols under all weights of {1,3}, 6 in rising order; 3 bytes of 2 bits | 226,654 | 24 |
| `referrers` | Does every reference survive what the suffix rule allows? | 8 sub-blocks, 3 texts of 3 strings, every way to refer to them, 2 builds, 1 failure each | 310,150 | 10 |
| `lzs` | Do the two sides agree on the ring? | ring of 8, matches of 3 and 4, data of up to 10 bytes, all streams of 5 bytes | 247,245 | 34 |
| `locate` | Is all text found, where it is and once? | 259 overlays of two or three blocks of 9 shapes in 2 archives each, 8 archives that do not add up; 16,384 executables, 2 tables of 2 rows | 133,187 | 30 |
| `corpus` | What does a roll-up say, after runs that died? | 4 decodes of up to 4 blocks, 3 runs, a crash at or within any write | 729,092 | 48 |

Why these bounds are enough to make the interesting cases happen:

* `ReflowRun`: a backup, a crash, a forced backup and a restore fit in four runs,
  and a card has a reflow under each glossary that differs from both; the game can save
  once before the copy and once after it in the same run.
* `Locate`: pages of four, so that a header of four sub-blocks meets the
  prefilter; a block at the first word or behind four bytes, behind another
  block, in the data of another, or cut off by the end of its image or of the
  archive.
* `Corpus`: the decodes are a disc, a build that reached one of two copies, a disc
  with other texts and no dictionaries, and one with an edited overlay beside the
  unedited and two blocks of one id in the executable; a run can die, be repeated and be
  followed by another decode.
* `SaveCard`: (`Cells`, every character a field can hold, is a constant of it and of
  `DiscBuild`) a name in one chunk and a name across two, a chunk outside the map
  with stale contents, a damaged seal in each place, full, empty, unreadable and
  unterminated fields; glossaries that conflict, do not fit, cannot be encoded,
  and whose English is another's Japanese.
* `SectorTable`: two entries that name one block, one that names none, one with
  the flag; three edits are move, copy and rewrite in any order, which is enough to move
  a block away, another into its place, and correct one of two entries.
* `DiscBuild`: the archive spans a sector with slack and one the mastering did not
  seal; two builds let a check begin in one and end in the next.
* `SplitImm`: two bits make half of all low halves negative to `addiu`, and the
  last reference wraps; four words hold a pair with two words in between, one
  more than the window.
* `TextCodec`: two words to a page put nodes above the first page, as 256 does on
  the disc.
* `Lzs`: ten bytes run over a ring of eight, so positions are overwritten while
  chains still lead to them.
* `Referrers`: an empty string, a control-only string, phrases, commands at odd and
  even places, a script in two copies of which one is compressed, a block in four
  places, one of them the executable, a word that points at the residue.

`CHECK_DEADLOCK FALSE` is set throughout: a tool run ends, and bounded runs of it
end for good.

Properties that fail are looked for as well: each property of a passing run has
a mutant of the code that violates it (`mutants` in `PROJECT.json`).

## 5. The proofs

Eight modules hold proofs: `SavereflowProofs` (of `ReflowRun` and `SaveCard`),
`DiscProofs` (of `SectorTable` and `DiscBuild`), `SplitImmProofs`, `TextCodecProofs`, `LzsProofs`,
`ReferrersProofs`, `CorpusProofs` (of `Corpus`, `CorpusTree` and `Locate`) and
`NaturalLemmas`.  What they prove holds for every value of the constants that the named
assumptions of the modelled components allow.

**ReflowRun.**  `TypeCorrect` first.  `RestoreRoundTrips` and `BackupIsKept` rest on
`ProcessInv` (what `mem`, `src` and the two files are at each `pc`) and
`BackupInv` (while a backup is verified, only the steps of a forced run that has
read a valid card touch it).  `CardIsRecoverable` and `OkIsReflowed`
rest on `QuietInv`: until the game saves into the run, the card
is the `mem` that was judged from the hash to the write, and whenever one of the
files is torn the other one holds what is owed.  `Recoverable` is not inductive by
itself, because the step that truncates a file needs to know that the other one
*is* the card and not merely some whole card.  `FilesImplementVault` maps each
action to one of `CardVault` or to a stutter, and needs both `QuietInv`, for a run the game
left alone, and for the others `CopyInv`: from the copy to the opening of the card the
backup is the card, unless the game has saved since the copy was finished (`late`).
Opening the card for writing is then a `Lose` or nothing to the vault, and the
write a `Replace`.  In all of them the game may write at any moment.

**SaveCard.**  The three properties rest on one invariant, `CardInv`, of five parts.
`Types`.  `EditInv`: what is planned is a field of a save and text of the glossary
that fits it.  `SealInv`: a seal that is not over the cells beside it is on one of
the two lists of seals still to be taken; `Sealed` alone is not inductive, since
between the edits and the reseals it is false.  `ChangeInv` says what may differ
from the card the run began with, and that no seal is taken before the last edit.
`PlanInv`: planning again the card as it is now finds nothing that is not still to
be done.  For that a field that was written must read back as what was meant
(`ReadsBack`: padding is stripped again, and the English of the glossary is known
to it), and a field written must not change what another reads (`SitesApart`: the
sites of a name are injective, also where names straddle two chunks).  Assumed of
the inputs is what the code makes of them: `parse_glossary` strips its columns and
passes over rows with an empty one (RF:214-217), and the present map has a bit for
each chunk (RF:310-316).

**SectorTable.**  `PackInvertsUnpack` is the arithmetic of a word: three fields of
any widths, packed and read back.  `FlagIsCarried` follows with no strengthening.
`NeighboursDecide` says that check 3 is complete: if any two loads of a table share
a sector, then two neighbours of its sorted order do, the same start counted
once.  `LoadsDisjoint`, `NoRelocationMissed` and `GatesAgree` rest on `GateHeld`, which
speaks of the state *after* the gate and not of its step: what it accepted, it would
accept again.  `MovedBlocksAreMissed` needs besides what the build did before it:
`BlocksOfTheBase`, that a block which begins where the build wrote none is the one the
base has there.  `RepackPassesTheFlagChecks` is
why builds that use `repack` alone need no luck with checks 1 and 2.
`TableAssumption` says that a build starts from the shipped table or from a build of
it: its flagged indexes are those the constant was measured from
(`sectortable.py:56-63`) and its blocks lie in the archive.

**DiscBuild.**  `BuildInv` says what the builder holds between two sectors: the copy so
far is its source, the sectors injected so far are the payload's (`IsImage`, with the
number of injections and sectors as parameters), and what an injection takes is
what the one before it left.  `CheckInv` is the checker's side of the race.
While the image is not truncated a sector of it changes once at most, and `Pending`
says which may still change; so what was hashed first is what is there now or was
changed for good (`BeforeInv`), and what was extracted is what was hashed first, or
what will still be there at the second hash (`Faithful`).  If the second hash agrees
with the first, both are the same, and that is `VerdictIsOfTheHash`.  The builder's
steps preserve the checker's invariant by one lemma about what they do to the
image (`BuildMoves`), not action by action.  Assumed is a layout of files that share
no sector and lie in the image, and that each injection takes what the one before
it left, which is how a build script calls `inject`.

**SplitImm.**  `HalvesCompose` is the arithmetic: the two immediates `halves`
stores compose to the value again, for every width and both opcodes, carry and
wrap included.  Four safety properties rest on one inductive invariant,
`PassInv`: a pending `lui` is a `lui` of that register (`PendingIsLui`), no word
after it writes the register (`PendingIsLast`), and conversely the last writer is
pending or of another kind (`LastIsPending`, `LastOpIsLast`); every reported site
lies before the read position (`SitesAreRead`); and the register of the machine
holds what the pending `lui` loaded (`PendingIsHeld`).  It is proved once for
`Read`, the step common to `Scan` and `Rescan`, and once for the steps that start
a pass.  `ReaderAndWriterAgree` compares two passes over two images and needs to
know exactly what a pass reports: `DeclaredInv` says the sites found so far are
those a definition without a scan (`IsSite`) finds in what was read.  That
definition looks at opcodes and registers, and at immediates only for the value
it reports; `rewrite` changes nothing but immediates, so the patched image has the
sites it had (`PatchDeclares`), and `HalvesCompose` gives the values.  An image may
have any length and the window any width.

**TextCodec.**  The six properties are proved for any set of symbols and frequencies, any
texts and any streams.  Five rest on `IInv`.  Its first two parts are about trees.  `BuilderInv`:
while a tree is built its nodes so far and the heap cover what they were made of once
(`Heaped`, `Loose`): each merge takes two loose items and gives one (`MergedIs`), the last
ones lie under the root (`LooseLast`), and `LaidIs` makes of that a dual-base array.
`TreeInv`: whatever array is loaded is a `Tree` - every node below the root hangs under exactly
one node that comes later in the array.  That shape alone gives every walk its end and every
leaf its code: `Addresses` names the way to each node, `CodesAre` says that the codes
are the ways to the leaves, and `CodesLead` that no way goes on behind a leaf.

`AsTheEngineWalks` and the two round trips speak of a finished text; `ReaderInv` says what holds at
every bit.  `Reads`: the bits read are the codes of the symbols read, and behind them the way
to the node the reader is at.  Then two readings of one stream are one (`ReadsText`,
`ReadsStream`), whoever wrote it.  `TextInv` keeps what the stream was written from: it begins
with the bits of the text and goes on with zeros only (`Fits`), and what was read
is a beginning of the text, or all of it and symbols of the all-zero code (`Follows`).  `Started`
names the starts by the symbols before them, not by a position, and so survives a
re-encoding, in which every code keeps its length (`StartedAlike`).

`Recode` needs that the code of those lengths exists and is a tree again.  Canonical codes are
taken as spans of numbers of the longest length: each code the numbers that begin with it.
The spans of the lengths of one tree lie end to end (`SpansExist`, `SpansAre`) and fill all
the numbers, because those of the tree did (`CanonicalIsFull`); so every
beginning of a code that is no code has both its children (`InnerLeads`), and numbering the
beginnings children first gives the array (`NumberedIs`, `RebuiltIs`).

`Optimal` compares the tree that was built with every other full tree, and needs Huffman's
argument.  Two leaves of a full tree may change places, and that costs nothing if it is the
lighter one that goes deeper (`Exchanged`); so the lightest two may go to the last level, where
no leaf is alone (`Another`, `Siblings`), and merging them makes a full tree of one leaf
fewer that costs their weight less (`CheaperMerged`).  The invariant is `Cheapest`: what
merging has cost so far and the cheapest full tree of the items left in the heap cost no
more than any full tree of the symbols.  Stopping at four items for a least length of two is
right because with more than four some item must be below level two (`Below`), and four are
laid out at level two exactly (`Hung`, `LaidDeep`), where no full tree has them
cheaper (`Best`, `BestInv`).  `FullTrees` is a function of pairs and not of two
arguments, which the provers cannot apply.

**Lzs.**  `RingsAreWindows` first: `Windows` says where both positions are and that
either ring, read backwards from its position, is the last `N` bytes that went
through it, zeros before the first.  `RoundTrip` speaks only of the end and says nothing
about the many steps before it; `LzsInv` ties the two sides together by a *trace*,
which neither of them knows: a sequence of cursors, each telling how far the stream
is, how far the data is, which flag is next and where the flags of the group are,
such that between two of them lies one token of the stream that *reads as* the data
in between (`Reads`).  A match reads as data if every byte of it is the one `w`
places behind, for one `w` from 1 to `N`: a statement about the data that mentions
no ring, and holds also for a match that overlaps what it writes (`MatchRepeats`, from
`verify`).  `Writing`: what `compress` has written has such a trace.  `Decoding`: what
`decompress` has read is a beginning of that trace, what came out is a beginning of the data,
and the flags it holds are what is left of the byte at the cursor, with the guard
bits above it (`FlagsAt`, `Left`).  A stream that was cut stops the reader in the middle
of the trace.  Nothing is assumed of `head` and `prev` but that they hold places of
the ring: that a candidate is any good is decided by `verify` and not by the chain,
which is why stale links do no harm.

**Corpus.**  `TypeCorrect` and `RollupsStand`, for any decodes whose files are files
(`CorpusAssumption`, which also says that no decode writes a manifest or under
`editorial/`) and any number of runs.  The property speaks of the end of a run and
is not inductive; the invariant `IInv` speaks of every moment.  `Written`: of the
writes done so far, the last one at each path is what stands there.  `Accounted`:
whatever else is there, but for manifests and hand-made work, is a file that some
run so far wrote, or was writing when it died.  `Listed`: from the walk on, the rows
are the directory.  At the walk every write is done, so `Written` gives the first
half of `RollupsAreOfTheRun` and `Accounted` the second: a row at a path that is not
of this decode can only be of another.  `PutFile` is the one lemma about the
directory, `PutSpecial` its use for files that no decode writes.

The other two theorems go on from there and look into the decode.  `WritesAssumption`
says that what a run writes is the tree of its decode, `DecodeAssumption` what a decode is:
finitely many blocks; ids in the executable and the overlays that are not 0 (both
scans want 1 to 0x600: `referrers.py:176`, `overlay.py:67`), so that no block has
the name of a list of blocks; and no two blocks at one place, because either scan looks at
each place once.  What a run writes is sequences joined by loops.
`RisingIsAll` says that sorting a finite set of numbers loses none: as many are below the
k-th as should be, by counting.  `JoinedIsAll` says that a loop writes what its turns
write.  With them `ArchiveHas`, `ExeHas` and `OverlayHas` say of each part of the tree
which files it has.  Which of them is left at a path is decided by the last write,
and `PartDecides` says that a part decides where no other part writes, `LaterDecides` that of
two parts the later one does.  The parts have directories
of their own (`TreeParts`), so two decodes with the same executable leave the same
under `exe/`, and so on: `RollupsApart`.  `TextsHaveFiles` needs besides that no two texts of
an id get one number (`VariantsDiffer`), whatever the order of their digests; and, for blocks
that share an id, that a loop in rising order leaves what its last turn wrote there
(`JoinedLeaves`, `ExeFileStays`, `OverlayFileStays`).

**Referrers.**  The three properties compare an archive after any number of builds with the
one before the first.  What is carried from build to build is that the archive is *sound*
(`Sound`): it has the shape of the first (`Alike`: the same sub-blocks, blocks and ids at
the same places, as many strings in each), every word the game follows names what it
named, and nothing before a protected string has changed.  `FollowedWordsKeepTheirStrings`
needs first that the survey sees all of them, though it reads one sub-block of each content
and the first block of each id only (`SurveyedIs`, `StoredIsRead`).  Then the build:
`WordWritten` says what its loop makes of a word, `EditSpares` what the suffix rule spares,
and `WrittenIsSound` that a build which reaches everything leaves a sound archive.  That a
hidden word keeps its string comes of the two halves of `Protected`: no code before the
string changed, so its offset stands, and it has bits of its own (`BitsArePositive`), so no
other string begins there (`HiddenStays`).  For the gate a weaker fact is carried, which
survives a build that went wrong (`Seen`): whatever is not counted as unexaminable still
has its blocks where they were.  `DamagedIsSeen` shows it of every kind of damage but a lost
structure, which is the case the property excepts.

**Locate.**  Two invariants.  `ScanInv`: while the images are scanned, those that are
done are gone from the table of images and all their text is in the result, and of the one
being scanned exactly the text that begins before the read position; the position is on a word
boundary and in no text block, as long as no block has a length that is no multiple of a
word.  The scan jumps over a block it accepts, so that text inside text is
not found (`TextOf` leaves it out), and that a jump ends where the outermost
block ends is what `NestedAssumption` is needed for.  `RefsInv`: what has been
listed is references of rows already passed, none twice; the sweep adds those that are
left.  Nothing is said of where a table ends: the row that ends it may be the first.

*Induction.*  No prover here instantiates the library's induction theorems, whose
hypotheses are operators.  Where a proof needs induction it is stated over sets
(`NaturalLemmas`): a set of naturals that is not empty has a least element
(`LeastNatural`), so one that holds 0 and the successor of each of its elements holds
them all (`Inductive`), and a recursive definition over `Nat` has the function it
describes (`Iteration`).  That gives the powers of two in `LzsProofs` and `TextCodecProofs`,
the walk of a tree there, and the loops in `CorpusProofs`.

*Only model-checked*: `CheckEnds`, which is liveness under fairness, and the two properties the
code violates.

## 6. Where code and text disagree

* `reflow_torn_restore`: a run killed inside the copy to the backup (RF:674)
  leaves a truncated backup.  `do_restore` copies whatever the backup holds over
  an intact card and prints that it is verified (RF:552-558).
* `split_imm_jump`: `writes` gives `None` for `j` and `jr`, and `find` ends no pair
  there, so a `lui` before an unconditional jump is paired with a low half behind
  it (`splitimm.py:99-110`); `splitimm.py:23-30` blames that on an earlier scanner.

Four more disagreements were met while modelling and have no run of their own:

* `parse_glossary` (RF:221) makes keys of the English of the glossary it reads, so
  another spelling that an earlier build wrote is not recognised, which
  `savereflow/README.md:100-102` and RF:204-206 say it is.
* `README.md:184` has `corpus.py` regenerate the whole corpus from scratch, but
  the output directory is never emptied, and `os.walk` (`corpus.py:869`) hashes
  what an earlier run of another disc left.  `RollupsAreOfTheRun` says exactly
  how much that is.
* A moved archive roll-up is to mean "the archive decode changed" "and nothing
  else" (`corpus.py:886-889`).  `meta/sectortable.txt` is in it and is made of
  the executable (line 487); `dq4-side-by-side.txt` is too, as the comment there
  grants.  These two are `Mixed` in `CorpusTree`.
* The first site of an overlay block is to be "a stable identity for the corpus
  filename" (`overlay.py:89`); the name is the id alone (`corpus.py:639`), so of two
  blocks with one id the later overwrites the earlier.

If the game saves into a run, `OkMeansReflowed` and `Recoverable` promise nothing:
the plan is made of bytes read at RF:608, and a save made after that is
overwritten (RF:682).  If it was made before the copy it is in the backup, and the card
the run read is in neither file; if after, it is lost itself.  `ImplementsVault` says so
much and no more.  Two programs writing one file is nothing the tool promises to
survive, so this is a limit and not a finding.

## 7. What is not modelled

* Of `hbd.py`, the video sectors and the census of types, which only count.
* The header of the executable (`exe_mapping`): its text is one range of offsets.
* The layout of the phrase table; a build that moves `c`, and so every string of a
  block, when it empties the dictionary.  Ids that only overlays hold are not in
  the survey's index, and neither are they here.
* An edit that empties a string: from then on it is no barrier, and a later build
  may move it.
* The ISO 9660 directory walk and the polynomials of EDC/ECC; `diff_sectors` and
  `write_cue`.
* What a file of the corpus says of each string (rendering, statuses, counts): its
  lines are an id, a text and a place.  Of files that always come together one is
  kept.
* Fonts, glyphs, character tables, the disassembler: no state and no order of
  events.
* The 44 gates of `verify.py` that count or hash fixed contents of one disc.
* Hash collisions (SHA-256, CRC-32, XOR): a checksum tells any two contents apart.
