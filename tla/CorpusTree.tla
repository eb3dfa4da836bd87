------------------------------ MODULE CorpusTree ------------------------------
(***************************************************************************)
(* dq4/corpus.py, build: which file each text of a disc is written to, and *)
(* in which order.  A decode is what was found on the disc:                *)
(*                                                                         *)
(*   archive   copies of text blocks: id, text, sector and whether the     *)
(*             block has a phrase dictionary                               *)
(*   exe       blocks of the executable: id, text and va                   *)
(*   overlay   distinct blocks of the overlays: id, text, first site, dict *)
(*   table     the sector table of the executable                          *)
(*                                                                         *)
(* A text is the bytes of a block, a number that orders texts as their     *)
(* SHA-256 orders them in the code.  Of files that one block always has    *)
(* together (raw, expanded, trees) one is kept, of those it may have       *)
(* (dictionaries, records) the dictionary, and of those every run writes   *)
(* from the archive alone (block index, census, placeholders, glossary,    *)
(* voice sheet) the index.                                                 *)
(***************************************************************************)
EXTENDS Corpus, FiniteSets

\* What is found: finitely many blocks.  No two of the executable, nor of the overlays, begin at
\* one place, and ids below 1 are no text there (exe_blocks, scan_image).
ASSUME DecodeAssumption ==
  \A g \in Gens :
    /\ \A blocks \in {g.archive, g.exe, g.overlay} :
         IsFiniteSet(blocks) /\ \A b \in blocks : b.id \in Nat /\ b.text \in Int
    /\ \A m \in g.archive : m.sector \in Int
    /\ \A b \in g.exe : b.id # 0 /\ b.va \in Int
    /\ \A b \in g.overlay : b.id # 0 /\ b.site \in Int
    /\ \A b, c \in g.exe : b.va = c.va => b = c
    /\ \A b, c \in g.overlay : b.site = c.site => b = c
    /\ g.table \in Int

File(path, content) == [path |-> path, content |-> content]

\* What a file shows of a block: its id, its text and where it was found.
Line(b, where) == <<b.id, b.text, where>>

Ids(blocks) == {b.id : b \in blocks}
OfId(blocks, id) == {b \in blocks : b.id = id}

\* sorted: each number at the place that those below it leave it.
Rising(S) == [k \in 1 .. Cardinality(S) |-> CHOOSE x \in S : Cardinality({y \in S : y < x}) = k - 1]

\* What a loop writes: the files of its first turn, of the second, and so on.
Joined(turns) ==
  LET Upto[k \in 0 .. Len(turns)] == IF k = 0 THEN <<>> ELSE Upto[k - 1] \o turns[k]
  IN Upto[Len(turns)]

----------------------------------------------------------------------------
(* The archive. *)

Copies(archive, id, text) == {m \in OfId(archive, id) : m.text = text}

\* members[0]: the copy at the lowest sector speaks for the others.
Spokesman(archive, id, text) ==
  CHOOSE m \in Copies(archive, id, text) :
    \A n \in Copies(archive, id, text) : m.sector <= n.sector

Texts(archive, id) == {m.text : m \in OfId(archive, id)}

\* Mutant of Variant: one name for all the texts of an id.
VariantNone(archive, id, text) == 0

\* The suffix _v0, _v1, ... (here 1, 2, ...) is there only where the copies of an id differ.
Variant(archive, id, text) ==
  IF Cardinality(Texts(archive, id)) = 1 THEN 0
  ELSE 1 + Cardinality({t \in Texts(archive, id) : t < text})

BlockFiles(archive, id, text) ==
  LET m == Spokesman(archive, id, text)
      name(dir) == <<dir, id, Variant(archive, id, text)>>
      show == {Line(m, m.sector)}
  IN <<File(name("raw"), show)>> \o
     (IF m.dict THEN <<File(name("dictionaries"), show)>> ELSE <<>>)

Stored(archive) == {Spokesman(archive, m.id, m.text) : m \in archive}

IdFiles(archive, id) ==
  LET texts == Rising(Texts(archive, id))
  IN Joined([k \in DOMAIN texts |-> BlockFiles(archive, id, texts[k])])

ArchiveFiles(archive) ==
  LET ids == Rising(Ids(archive))
  IN Joined([k \in DOMAIN ids |-> IdFiles(archive, ids[k])])

\* The block index lists the sectors of all copies; the sector table is that of the
\* executable, with the blocks of the archive each entry resolves to.
Sectors(archive)           == {Line(m, m.sector) : m \in archive}
IndexFile(archive)         == File(Single("index"), Sectors(archive))
SectorTable(archive, table) == File(Single("sectortable"), Sectors(archive) \cup {<<0, 0, table>>})

----------------------------------------------------------------------------
(* The executable and the overlays: a file has the name of its id. *)

ExeFile(b) == File(<<"exe", b.id, 0>>, {Line(b, b.va)})

ExeFiles(exe) ==
  LET vas == Rising({b.va : b \in exe})
  IN [k \in DOMAIN vas |-> ExeFile(CHOOSE b \in exe : b.va = vas[k])] \o
     <<File(Single("exe"), {Line(b, b.va) : b \in exe})>>

OverlayBlockFiles(b) ==
  <<File(<<"overlay", b.id, 0>>, {Line(b, b.site)})>> \o
  (IF b.dict THEN <<File(<<"overlay/dictionaries", b.id, 0>>, {Line(b, b.site)})>> ELSE <<>>)

\* By id, then by first site.
OverlayIdFiles(overlay, id) ==
  LET sites == Rising({b.site : b \in OfId(overlay, id)})
  IN Joined([k \in DOMAIN sites |->
               OverlayBlockFiles(CHOOSE b \in OfId(overlay, id) : b.site = sites[k])])

OverlayFiles(overlay) ==
  LET ids == Rising(Ids(overlay))
  IN Joined([k \in DOMAIN ids |-> OverlayIdFiles(overlay, ids[k])]) \o
     <<File(Single("overlay"), {Line(b, b.site) : b \in overlay})>>

\* Every string of the three populations, each block once.
SideBySide(g) ==
  File(Single("side-by-side"),
       {Line(m, m.sector) : m \in Stored(g.archive)} \cup {Line(b, b.va) : b \in g.exe}
         \cup {Line(b, b.site) : b \in g.overlay})

TreeOf(g) ==
  ArchiveFiles(g.archive) \o <<IndexFile(g.archive), SectorTable(g.archive, g.table)>>
    \o ExeFiles(g.exe) \o OverlayFiles(g.overlay) \o <<SideBySide(g)>>

ASSUME WritesAssumption == \A g \in Gens : Writes[g] = TreeOf(g)

----------------------------------------------------------------------------
(* The three roll-ups of manifest. *)

ExeDirs     == {"exe"}
OverlayDirs == {"overlay", "overlay/dictionaries"}

\* Mutant of Population: the overlays as part of the archive.
PopulationTwo(p) == IF p[1] \in ExeDirs THEN "exe" ELSE "archive"

Population(p) ==
  IF p[1] \in ExeDirs THEN "exe" ELSE IF p[1] \in OverlayDirs THEN "overlay" ELSE "archive"

Roll(pop) == [p \in {q \in DOMAIN rows : Population(q) = pop} |-> rows[p]]

----------------------------------------------------------------------------
(* Properties. *)

\* What a run leaves at each of its paths: the last file it writes there.
Tree ==
  [g \in Gens |-> [p \in Paths(g) |->
     LET last == CHOOSE i \in DOMAIN Writes[g] : IsLast(g, i) /\ Writes[g][i].path = p
     IN Writes[g][last].content]]

\* The files of the archive that show more than the archive.
Mixed == {Single("side-by-side"), Single("sectortable")}

\* A roll-up moves only for its own population: in a directory of its own, the exe/ rows of a
\* decode are those of every decode with the same blocks in the executable, the overlay/ rows
\* likewise, and the archive's but for the two files that list more than the archive.
RollupsSeparate ==
  phase \in {"manifest", "done"} /\ ran = {gen} =>
    \A h \in Gens :
      LET under(dirs) == [p \in {q \in Paths(h) : q[1] \in dirs} |-> Tree[h][p]] IN
      /\ h.exe = gen.exe => Roll("exe") = under({"exe"})
      /\ h.overlay = gen.overlay => Roll("overlay") = under({"overlay", "overlay/dictionaries"})
      /\ h.archive = gen.archive =>
           /\ \A p \in DOMAIN Roll("archive") : p \in Mixed \/ rows[p] = Tree[h][p]
           /\ DOMAIN Roll("archive") =
                {q \in Paths(h) : q[1] \notin {"exe", "overlay", "overlay/dictionaries"}}

\* No block of the id is found behind this one.
LastInExe(exe, b)         == \A c \in OfId(exe, b.id) : c.va <= b.va
LastInOverlays(overlay, b) == \A c \in OfId(overlay, b.id) : c.site <= b.site

\* Every text that differs from the other copies of its id has a file to itself when the run
\* ends, whatever order their digests have and whatever names earlier runs have used.  Files of
\* the executable and of the overlays are named by id alone: of two blocks with one id the one
\* that is found last has the file, and of the other no file of its own is left.
EveryTextHasItsFile ==
  phase = "done" =>
    LET shows(b, where, dir) == {p \in Paths(gen) : p[1] = dir /\ files[p] = {Line(b, where)}} IN
    /\ \A m \in Stored(gen.archive) : Cardinality(shows(m, m.sector, "raw")) = 1
    /\ \A b \in gen.exe : shows(b, b.va, "exe") # {} <=> LastInExe(gen.exe, b)
    /\ \A b \in gen.overlay : shows(b, b.site, "overlay") # {} <=> LastInOverlays(gen.overlay, b)
=============================================================================
