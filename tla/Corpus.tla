-------------------------------- MODULE Corpus --------------------------------
(***************************************************************************)
(* The output directory of dq4/corpus.py: runs that write the files of a   *)
(* decode one by one into whatever the directory holds, may die between    *)
(* two writes or within one, and end with the manifest, which walks the    *)
(* directory and not the list of what was written.  Nothing is ever        *)
(* removed.  In between people edit what lies under editorial/.            *)
(*                                                                         *)
(* A path is a directory, an id and a variant; a content is the lines of a *)
(* file, each an id, a text and a place.  CorpusTree has the files of a    *)
(* decode.                                                                 *)
(***************************************************************************)
EXTENDS Integers, Sequences

CONSTANTS
  Gens,      \* the decodes: of one disc by two versions of the library, or of two discs
  Writes,    \* the files a run writes of each, in its order
  MaxRuns,   \* bound: runs in one directory
  NoGen      \* no decode has been written yet

\* Directories, and the names of the files that are there once.
Dirs == {"raw", "dictionaries", "index", "sectortable", "exe", "overlay", "overlay/dictionaries",
         "side-by-side", "MANIFEST.sha256", "MANIFEST.md", "editorial"}

Path    == Dirs \X Nat \X Nat
Content == SUBSET (Int \X Int \X Int)

\* A file that is there once.
Single(dir) == <<dir, 0, 0>>

Manifests == {Single("MANIFEST.sha256"), Single("MANIFEST.md")}
Editorial == Single("editorial")

ASSUME CorpusAssumption ==
  /\ MaxRuns \in Nat /\ NoGen \notin Gens
  /\ \A g \in Gens :
       /\ Writes[g] \in Seq([path : Path, content : Content])
       /\ \A i \in DOMAIN Writes[g] : Writes[g][i].path \notin Manifests \cup {Editorial}

Paths(g) == {Writes[g][i].path : i \in DOMAIN Writes[g]}

VARIABLES
  phase,   \* "idle", "writing", "manifest" or "done"
  gen,     \* the decode of the current or of the last run
  next,    \* where in its loops it is: the next of its writes
  files,   \* the directory: path -> content
  rows,    \* the rows of the last manifest
  ran,     \* history: the decodes of all runs so far
  runs     \* runs so far

vars == <<phase, gen, next, files, rows, ran, runs>>

\* A file whose writer was killed: it is open and not all of it is there.
Torn == {<<-1, -1, -1>>}

Put(path, content) ==
  files' = [p \in DOMAIN files \cup {path} |-> IF p = path THEN content ELSE files[p]]

\* A process begins with the first of its loops.
Start(g) ==
  /\ phase \in {"idle", "done"} /\ runs < MaxRuns
  /\ phase' = "writing" /\ gen' = g /\ next' = 1
  /\ ran' = ran \cup {g} /\ runs' = runs + 1
  /\ UNCHANGED <<files, rows>>

WriteFile ==
  /\ phase = "writing" /\ next <= Len(Writes[gen])
  /\ Put(Writes[gen][next].path, Writes[gen][next].content)
  /\ next' = next + 1
  /\ UNCHANGED <<phase, gen, rows, ran, runs>>

\* Mutant of Walked: the directory of hand-made work enters the roll-up (as before Phase 33).
WalkedAll == DOMAIN files \ Manifests

\* os.walk of the directory, without editorial/ and the manifests.
Walked == DOMAIN files \ (Manifests \cup {Editorial})

\* manifest, up to MANIFEST.sha256.
Manifest ==
  /\ phase = "writing" /\ next > Len(Writes[gen])
  /\ rows' = [p \in Walked |-> files[p]]
  /\ Put(Single("MANIFEST.sha256"), UNION {files[p] : p \in Walked})
  /\ phase' = "manifest"
  /\ UNCHANGED <<gen, next, ran, runs>>

\* manifest, from there: MANIFEST.md with the three roll-ups of the rows.
Finish ==
  /\ phase = "manifest"
  /\ Put(Single("MANIFEST.md"), files[Single("MANIFEST.sha256")])
  /\ phase' = "done"
  /\ UNCHANGED <<gen, next, rows, ran, runs>>

\* The file a run has open.
Open ==
  IF phase = "manifest" THEN Single("MANIFEST.md")
  ELSE IF next <= Len(Writes[gen]) THEN Writes[gen][next].path ELSE Single("MANIFEST.sha256")

\* The run is killed, or raises: before it opens the next file or while it writes it.
Crash ==
  /\ phase \in {"writing", "manifest"}
  /\ phase' = "idle"
  /\ Put(Open, Torn) \/ UNCHANGED files
  /\ UNCHANGED <<gen, next, rows, ran, runs>>

Edit ==
  /\ Editorial \notin DOMAIN files
  /\ Put(Editorial, {<<1, 1, 1>>})
  /\ UNCHANGED <<phase, gen, next, rows, ran, runs>>

Init ==
  /\ phase = "idle" /\ gen = NoGen /\ next = 1 /\ runs = 0 /\ ran = {}
  /\ files = <<>> /\ rows = <<>>

Next == (\E g \in Gens : Start(g)) \/ WriteFile \/ Manifest \/ Finish \/ Crash \/ Edit

Spec == Init /\ [][Next]_vars

----------------------------------------------------------------------------
(* Properties. *)

\* Types, which the proofs need.
TypeOK ==
  /\ phase \in {"idle", "writing", "manifest", "done"}
  /\ gen \in Gens \cup {NoGen} /\ (phase # "idle" => gen \in ran)
  /\ next \in Nat \ {0} /\ (phase # "idle" => next <= Len(Writes[gen]) + 1)
  /\ DOMAIN files \subseteq Path /\ files \in [DOMAIN files -> Content]
  /\ DOMAIN rows \subseteq Path /\ rows \in [DOMAIN rows -> Content]
  /\ ran \subseteq Gens /\ runs \in 0 .. MaxRuns

\* No later write of the decode goes to the same path.
IsLast(g, i) ==
  i \in DOMAIN Writes[g] /\ \A j \in DOMAIN Writes[g] : Writes[g][j].path = Writes[g][i].path => j <= i

\* The roll-ups of a run that came to its end are over exactly what its decode says of every
\* path it writes: no torn file of a run that died, no older text, and nothing of editorial/.
\* Any further row is a file of another decode that was once written here, whole or torn, and
\* that this one has no file to write over.  So runs of one decode, however many died, have
\* one roll-up.
RollupsAreOfTheRun ==
  phase \in {"manifest", "done"} =>
    /\ \A i \in DOMAIN Writes[gen] :
         IsLast(gen, i) => /\ Writes[gen][i].path \in DOMAIN rows
                           /\ rows[Writes[gen][i].path] = Writes[gen][i].content
    /\ \A p \in DOMAIN rows \ Paths(gen) :
         \E h \in ran \ {gen} : \E i \in DOMAIN Writes[h] :
           Writes[h][i].path = p /\ rows[p] \in {Writes[h][i].content, Torn}
=============================================================================
