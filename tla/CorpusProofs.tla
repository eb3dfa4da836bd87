----------------------------- MODULE CorpusProofs -----------------------------
(***************************************************************************)
(* For any decodes and any number of runs and crashes in one directory:    *)
(* the roll-ups of a finished run are those of its decode, each moves for  *)
(* its own population only, and every text has a file of its own.          *)
(*                                                                         *)
(* First an invariant of the directory and its runs; then what the loops   *)
(* of a run write, and what is left of it.                                 *)
(*                                                                         *)
(* Last, what a run decodes, for any disc: the locators find every text    *)
(* block of every overlay, and list every reference of the executable once.*)
(***************************************************************************)
EXTENDS CorpusTree, Locate, NaturalLemmas, FiniteSetTheorems

Special == Manifests \cup {Editorial}

\* What a run has written so far is there, a later write of a path before an earlier one.
Written ==
  phase # "idle" =>
    \A i \in DOMAIN Writes[gen] :
      (i < next /\ \A j \in DOMAIN Writes[gen] :
                     j < next /\ Writes[gen][j].path = Writes[gen][i].path => j <= i)
        => /\ Writes[gen][i].path \in DOMAIN files
           /\ files[Writes[gen][i].path] = Writes[gen][i].content

\* Whatever else is there, a run wrote it or died writing it.
Accounted ==
  \A p \in DOMAIN files \ Special :
    \E h \in ran : \E i \in DOMAIN Writes[h] :
      Writes[h][i].path = p /\ files[p] \in {Writes[h][i].content, Torn}

\* The manifest is of the directory as it is.
Listed ==
  phase \in {"manifest", "done"} =>
    /\ next > Len(Writes[gen])
    /\ DOMAIN rows = Walked
    /\ \A p \in Walked : rows[p] = files[p]

\* A manifest of which MANIFEST.md can be made.
Stands == phase = "manifest" => Single("MANIFEST.sha256") \in DOMAIN files

IInv == TypeOK /\ Written /\ Accounted /\ Listed /\ Stands

----------------------------------------------------------------------------

\* An element of a sequence is of the sequence's type.
LEMMA ElementOfSeq ==
  ASSUME NEW S, NEW s \in Seq(S)
  PROVE  Len(s) \in Nat /\ DOMAIN s = 1 .. Len(s) /\ \A i \in DOMAIN s : s[i] \in S
OBVIOUS

\* The files of a decode are files, and none of them is a manifest or hand-made work.
LEMMA WritesAreFiles ==
  ASSUME NEW g \in Gens
  PROVE  /\ Writes[g] \in Seq([path : Path, content : Content])
         /\ Len(Writes[g]) \in Nat /\ DOMAIN Writes[g] = 1 .. Len(Writes[g])
         /\ \A i \in DOMAIN Writes[g] : /\ Writes[g][i].path \in Path \ Special
                                        /\ Writes[g][i].content \in Content
<1>1. Writes[g] \in Seq([path : Path, content : Content])
  BY CorpusAssumption
<1>2. Len(Writes[g]) \in Nat /\ DOMAIN Writes[g] = 1 .. Len(Writes[g])
  BY <1>1, ElementOfSeq
<1>3. ASSUME NEW i \in DOMAIN Writes[g]
      PROVE  Writes[g][i] \in [path : Path, content : Content]
  BY <1>1, ElementOfSeq
<1> QED BY <1>1, <1>2, <1>3, CorpusAssumption DEF Special

\* The paths that are there once, and what is written when a writer dies or a hand edits.
LEMMA FixedFiles ==
  /\ \A dir \in Dirs : Single(dir) \in Path
  /\ Torn \in Content /\ {<<1, 1, 1>>} \in Content
  /\ Special \subseteq Path /\ Manifests \subseteq Special /\ Editorial \in Special
  /\ Single("MANIFEST.sha256") \in Manifests /\ Single("MANIFEST.md") \in Manifests
  /\ Editorial \notin Manifests
<1>1. ASSUME NEW dir \in Dirs PROVE Single(dir) \in Path
  BY DEF Single, Path
<1>2. Torn \in Content /\ {<<1, 1, 1>>} \in Content
  <2>1. <<-1, -1, -1>> \in Int \X Int \X Int /\ <<1, 1, 1>> \in Int \X Int \X Int
    OBVIOUS
  <2> QED BY <2>1 DEF Torn, Content
<1>3. Manifests \subseteq Special /\ Editorial \in Special
  BY DEF Special
<1>4. Single("MANIFEST.sha256") \in Manifests /\ Single("MANIFEST.md") \in Manifests
  BY DEF Manifests
<1>5. Special \subseteq Path
  <2>1. /\ Single("MANIFEST.sha256") \in Path /\ Single("MANIFEST.md") \in Path
        /\ Single("editorial") \in Path
    BY <1>1 DEF Dirs
  <2> QED BY <2>1 DEF Special, Manifests, Editorial
<1>6. Editorial \notin Manifests
  BY DEF Single, Editorial, Manifests
<1> QED BY <1>1, <1>2, <1>3, <1>4, <1>5, <1>6

\* Writing a file adds its path, replaces its content and touches nothing else.
LEMMA PutFile ==
  ASSUME NEW path, NEW content, Put(path, content)
  PROVE  /\ DOMAIN files' = DOMAIN files \cup {path}
         /\ files'[path] = content
         /\ \A p \in DOMAIN files : p # path => files'[p] = files[p]
BY DEF Put

\* A typed file keeps the directory typed.
LEMMA PutTyped ==
  ASSUME NEW path \in Path, NEW content \in Content, Put(path, content), TypeOK
  PROVE  DOMAIN files' \subseteq Path /\ files' \in [DOMAIN files' -> Content]
BY DEF Put, TypeOK

\* Writing a file of the tool's own or of a hand leaves the files of runs as they were.
LEMMA PutSpecial ==
  ASSUME NEW path \in Special, NEW content, Put(path, content), TypeOK, Written, Accounted,
         UNCHANGED <<gen, next, ran>>, phase' # "idle" => phase # "idle", gen \in Gens \/ phase = "idle"
  PROVE  /\ Written' /\ Accounted' /\ Walked' = Walked
         /\ \A p \in Walked : files'[p] = files[p]
<1>1. /\ DOMAIN files' = DOMAIN files \cup {path}
      /\ \A p \in DOMAIN files : p # path => files'[p] = files[p]
  BY PutFile
<1>2. Walked = DOMAIN files \ Special /\ Walked' = DOMAIN files' \ Special
  BY DEF Walked, Special
<1>3. Walked' = Walked /\ \A p \in Walked : files'[p] = files[p]
  BY <1>1, <1>2
<1>4. Written'
  <2>1. SUFFICES ASSUME phase # "idle", gen \in Gens, NEW i \in DOMAIN Writes[gen], i < next,
                        \A j \in DOMAIN Writes[gen] :
                          j < next /\ Writes[gen][j].path = Writes[gen][i].path => j <= i
                 PROVE  /\ Writes[gen][i].path \in DOMAIN files'
                        /\ files'[Writes[gen][i].path] = Writes[gen][i].content
    BY DEF Written
  <2>2. Writes[gen][i].path # path
    BY <2>1, WritesAreFiles
  <2> QED BY <1>1, <2>1, <2>2 DEF Written
<1>5. Accounted'
  BY <1>1 DEF Accounted
<1> QED BY <1>3, <1>4, <1>5

----------------------------------------------------------------------------

\* An empty directory before the first run satisfies the invariant.
THEOREM InitIInv == Init => IInv
<1> SUFFICES ASSUME Init PROVE IInv
  OBVIOUS
<1>1. DOMAIN files = {} /\ DOMAIN rows = {}
  BY DEF Init
<1>2. TypeOK
  BY <1>1, CorpusAssumption DEF Init, TypeOK
<1> QED BY <1>1, <1>2 DEF Init, IInv, Written, Accounted, Listed, Stands

\* A run starts: nothing of it is written yet.
LEMMA StartIInv ==
  ASSUME IInv, NEW g \in Gens, Start(g)
  PROVE  IInv'
<1>1. TypeOK'
  BY WritesAreFiles, CorpusAssumption DEF IInv, TypeOK, Start
<1>2. Written'
  BY WritesAreFiles DEF Start, Written
<1>3. Accounted'
  BY DEF IInv, Start, Accounted
<1>4. Listed' /\ Stands'
  BY DEF Start, Listed, Stands
<1> QED BY <1>1, <1>2, <1>3, <1>4 DEF IInv

\* The next file is written, over whatever stood there.
LEMMA WriteFileIInv ==
  ASSUME IInv, WriteFile
  PROVE  IInv'
<1> DEFINE file == Writes[gen][next]
<1>1. /\ TypeOK /\ gen \in Gens /\ gen \in ran /\ next \in Nat \ {0} /\ next \in DOMAIN Writes[gen]
      /\ file.path \in Path /\ file.path \notin Special /\ file.content \in Content
  BY WritesAreFiles DEF IInv, TypeOK, WriteFile
<1>2. /\ DOMAIN files' = DOMAIN files \cup {file.path} /\ files'[file.path] = file.content
      /\ \A p \in DOMAIN files : p # file.path => files'[p] = files[p]
  <2>1. Put(file.path, file.content) BY DEF WriteFile
  <2> HIDE DEF file
  <2> QED BY <2>1, PutFile
<1>3. TypeOK'
  <2>1. DOMAIN files' \subseteq Path /\ files' \in [DOMAIN files' -> Content]
    BY <1>1, PutTyped DEF WriteFile
  <2> QED BY <1>1, <2>1, WritesAreFiles DEF WriteFile, TypeOK
<1>4. Written'
  <2>1. SUFFICES ASSUME NEW i \in DOMAIN Writes[gen], i < next + 1,
                        \A j \in DOMAIN Writes[gen] :
                          j < next + 1 /\ Writes[gen][j].path = Writes[gen][i].path => j <= i
                 PROVE  /\ Writes[gen][i].path \in DOMAIN files'
                        /\ files'[Writes[gen][i].path] = Writes[gen][i].content
    BY DEF Written, WriteFile
  <2>2. i \in Nat /\ \A j \in DOMAIN Writes[gen] : j \in Nat
    BY <1>1, WritesAreFiles
  <2>3. CASE i = next
    BY <1>2, <2>3
  <2>4. CASE i # next
    <3>1. i < next /\ Writes[gen][i].path # file.path
      BY <1>1, <2>1, <2>2, <2>4
    <3>2. Writes[gen][i].path \in DOMAIN files /\ files[Writes[gen][i].path] = Writes[gen][i].content
      BY <1>1, <2>1, <2>2, <3>1 DEF IInv, Written, WriteFile
    <3> QED BY <1>2, <3>1, <3>2
  <2> QED BY <2>3, <2>4
<1>5. Accounted'
  <2>1. SUFFICES ASSUME NEW p \in DOMAIN files', p \notin Special
                 PROVE  \E h \in ran : \E i \in DOMAIN Writes[h] :
                          Writes[h][i].path = p /\ files'[p] \in {Writes[h][i].content, Torn}
    BY DEF Accounted, WriteFile
  <2>2. CASE p = file.path
    BY <1>1, <1>2, <2>2
  <2>3. CASE p # file.path
    BY <1>2, <2>1, <2>3 DEF IInv, Accounted
  <2> QED BY <2>2, <2>3
<1>6. Listed' /\ Stands'
  BY DEF WriteFile, Listed, Stands
<1> QED BY <1>3, <1>4, <1>5, <1>6 DEF IInv

\* The directory is walked and MANIFEST.sha256 written.
LEMMA ManifestIInv ==
  ASSUME IInv, Manifest
  PROVE  IInv'
<1> DEFINE path == Single("MANIFEST.sha256")
           content == UNION {files[p] : p \in Walked}
<1>1. TypeOK /\ gen \in Gens /\ path \in Special /\ path \in Path
  BY FixedFiles DEF IInv, TypeOK, Manifest
<1>2. content \in Content
  BY <1>1 DEF TypeOK, Walked, Content
<1>3. Put(path, content)
  BY DEF Manifest
<1>4. /\ Written' /\ Accounted' /\ Walked' = Walked /\ \A p \in Walked : files'[p] = files[p]
  <2> HIDE DEF path, content
  <2>1. UNCHANGED <<gen, next, ran>> /\ phase # "idle"
    BY DEF Manifest
  <2> QED BY <1>1, <1>3, <2>1, PutSpecial DEF IInv
<1>5. TypeOK'
  <2>1. DOMAIN files' \subseteq Path /\ files' \in [DOMAIN files' -> Content]
    <3> HIDE DEF path, content
    <3> QED BY <1>1, <1>2, <1>3, PutTyped
  <2>2. DOMAIN rows' \subseteq Path /\ rows' \in [DOMAIN rows' -> Content]
    BY <1>1 DEF Manifest, TypeOK, Walked
  <2> QED BY <1>1, <2>1, <2>2 DEF Manifest, TypeOK
<1>6. Listed'
  <2>1. rows' = [p \in Walked |-> files[p]] /\ next' = next /\ gen' = gen
        /\ next > Len(Writes[gen])
    BY DEF Manifest
  <2> QED BY <1>4, <2>1 DEF Listed
<1>7. Stands'
  BY <1>3, PutFile DEF Stands
<1> QED BY <1>4, <1>5, <1>6, <1>7 DEF IInv

\* MANIFEST.md is written.
LEMMA FinishIInv ==
  ASSUME IInv, Finish
  PROVE  IInv'
<1> DEFINE path == Single("MANIFEST.md")
           content == files[Single("MANIFEST.sha256")]
<1>1. TypeOK /\ gen \in Gens /\ path \in Special /\ path \in Path
  BY FixedFiles DEF IInv, TypeOK, Finish
<1>2. content \in Content /\ Put(path, content)
  BY <1>1 DEF IInv, TypeOK, Stands, Finish
<1>3. /\ Written' /\ Accounted' /\ Walked' = Walked /\ \A p \in Walked : files'[p] = files[p]
  <2> HIDE DEF path, content
  <2>1. UNCHANGED <<gen, next, ran>> /\ phase # "idle"
    BY DEF Finish
  <2> QED BY <1>1, <1>2, <2>1, PutSpecial DEF IInv
<1>4. TypeOK'
  <2>1. DOMAIN files' \subseteq Path /\ files' \in [DOMAIN files' -> Content]
    <3> HIDE DEF path, content
    <3> QED BY <1>1, <1>2, PutTyped
  <2> QED BY <1>1, <2>1 DEF Finish, TypeOK
<1>5. Listed' /\ Stands'
  BY <1>3 DEF Finish, IInv, Listed, Stands
<1> QED BY <1>3, <1>4, <1>5 DEF IInv

\* A run dies: what it had open is one of its own files, or a manifest.
LEMMA CrashIInv ==
  ASSUME IInv, Crash
  PROVE  IInv'
<1>1. TypeOK /\ gen \in Gens /\ gen \in ran /\ phase' = "idle" /\ UNCHANGED <<gen, next, rows, ran, runs>>
  BY DEF IInv, TypeOK, Crash
<1>2. Written' /\ Listed' /\ Stands'
  BY <1>1 DEF Written, Listed, Stands
<1>3. CASE UNCHANGED files
  BY <1>1, <1>2, <1>3 DEF IInv, TypeOK, Accounted
<1>4. CASE Put(Open, Torn)
  <2>1. Open \in Path /\ (Open \in Special \/ \E i \in DOMAIN Writes[gen] : Writes[gen][i].path = Open)
    <3>1. CASE phase = "writing" /\ next <= Len(Writes[gen])
      <4>1. next \in DOMAIN Writes[gen] /\ Open = Writes[gen][next].path
        BY <1>1, <3>1, WritesAreFiles DEF Open, TypeOK
      <4> QED BY <1>1, <4>1, WritesAreFiles
    <3>2. CASE ~(phase = "writing" /\ next <= Len(Writes[gen]))
      <4>1. Open \in Manifests
        BY <3>2, FixedFiles DEF Open, Crash
      <4> QED BY <4>1, FixedFiles
    <3> QED BY <3>1, <3>2
  <2>2. DOMAIN files' \subseteq Path /\ files' \in [DOMAIN files' -> Content]
    BY <1>1, <1>4, <2>1, PutTyped, FixedFiles
  <2>3. TypeOK'
    BY <1>1, <2>2 DEF TypeOK
  <2>4. /\ DOMAIN files' = DOMAIN files \cup {Open} /\ files'[Open] = Torn
        /\ \A p \in DOMAIN files : p # Open => files'[p] = files[p]
    BY <1>4, PutFile
  <2>5. Accounted'
    <3>1. SUFFICES ASSUME NEW p \in DOMAIN files', p \notin Special
                   PROVE  \E h \in ran : \E i \in DOMAIN Writes[h] :
                            Writes[h][i].path = p /\ files'[p] \in {Writes[h][i].content, Torn}
      BY <1>1 DEF Accounted
    <3>2. CASE p = Open
      BY <1>1, <2>1, <2>4, <3>1, <3>2
    <3>3. CASE p # Open
      BY <2>4, <3>1, <3>3 DEF IInv, Accounted
    <3> QED BY <3>2, <3>3
  <2> QED BY <1>2, <2>3, <2>5 DEF IInv
<1> QED BY <1>3, <1>4 DEF Crash

\* Hand-made work appears under editorial/.
LEMMA EditIInv ==
  ASSUME IInv, Edit
  PROVE  IInv'
<1>1. TypeOK /\ Editorial \in Special /\ Editorial \in Path /\ {<<1, 1, 1>>} \in Content
      /\ (gen \in Gens \/ phase = "idle")
  BY FixedFiles DEF IInv, TypeOK
<1>2. Put(Editorial, {<<1, 1, 1>>}) /\ UNCHANGED <<phase, gen, next, rows, ran, runs>>
  BY DEF Edit
<1>3. /\ Written' /\ Accounted' /\ Walked' = Walked /\ \A p \in Walked : files'[p] = files[p]
  BY <1>1, <1>2, PutSpecial DEF IInv
<1>4. TypeOK'
  <2>1. DOMAIN files' \subseteq Path /\ files' \in [DOMAIN files' -> Content]
    BY <1>1, <1>2, PutTyped
  <2> QED BY <1>1, <1>2, <2>1 DEF TypeOK
<1>5. Listed' /\ Stands'
  BY <1>2, <1>3, PutFile DEF IInv, Listed, Stands
<1> QED BY <1>3, <1>4, <1>5 DEF IInv

\* No run, however it ends, and no hand under editorial/ leaves the invariant.
THEOREM NextIInv == IInv /\ [Next]_vars => IInv'
<1> SUFFICES ASSUME IInv, [Next]_vars PROVE IInv'
  OBVIOUS
<1>1. ASSUME NEW g \in Gens, Start(g) PROVE IInv'
  BY <1>1, StartIInv
<1>2. CASE WriteFile
  BY <1>2, WriteFileIInv
<1>3. CASE Manifest
  BY <1>3, ManifestIInv
<1>4. CASE Finish
  BY <1>4, FinishIInv
<1>5. CASE Crash
  BY <1>5, CrashIInv
<1>6. CASE Edit
  BY <1>6, EditIInv
<1>7. CASE UNCHANGED vars
  BY <1>7 DEF vars, IInv, TypeOK, Written, Accounted, Listed, Stands, Walked
<1> QED BY <1>1, <1>2, <1>3, <1>4, <1>5, <1>6, <1>7 DEF Next

\* The invariant holds of every directory that runs, crashes and hands make.
THEOREM SpecIInv == Spec => []IInv
BY InitIInv, NextIInv, PTL DEF Spec

\* Every reachable state of the directory and its runs is of its type.
THEOREM TypeCorrect == Spec => []TypeOK
<1>1. IInv => TypeOK
  BY DEF IInv
<1> QED BY <1>1, SpecIInv, PTL

\* The manifest of a finished run is that of its decode, and of files of other decodes it has
\* no file to write over.
THEOREM RollupsStand == Spec => []RollupsAreOfTheRun
<1>1. ASSUME IInv PROVE RollupsAreOfTheRun
  <2>1. SUFFICES ASSUME phase \in {"manifest", "done"}
                 PROVE  /\ \A i \in DOMAIN Writes[gen] : IsLast(gen, i) =>
                             /\ Writes[gen][i].path \in DOMAIN rows
                             /\ rows[Writes[gen][i].path] = Writes[gen][i].content
                        /\ \A p \in DOMAIN rows \ Paths(gen) :
                             \E h \in ran \ {gen} : \E i \in DOMAIN Writes[h] :
                               Writes[h][i].path = p /\ rows[p] \in {Writes[h][i].content, Torn}
    BY DEF RollupsAreOfTheRun
  <2>2. /\ gen \in Gens /\ phase # "idle" /\ next \in Nat /\ next > Len(Writes[gen])
        /\ DOMAIN rows = Walked /\ Walked = DOMAIN files \ Special
        /\ \A p \in Walked : rows[p] = files[p]
    BY <1>1, <2>1 DEF IInv, TypeOK, Listed, Walked, Special
  <2>3. \A i \in DOMAIN Writes[gen] : i \in Nat /\ i < next /\ Writes[gen][i].path \notin Special
    BY <2>2, WritesAreFiles
  <2>4. ASSUME NEW i \in DOMAIN Writes[gen], IsLast(gen, i)
        PROVE  Writes[gen][i].path \in DOMAIN rows /\ rows[Writes[gen][i].path] = Writes[gen][i].content
    <3>1. Writes[gen][i].path \in DOMAIN files /\ files[Writes[gen][i].path] = Writes[gen][i].content
      BY <1>1, <2>2, <2>3, <2>4 DEF IInv, Written, IsLast
    <3> QED BY <2>2, <2>3, <3>1
  <2>5. ASSUME NEW p \in DOMAIN rows \ Paths(gen)
        PROVE  \E h \in ran \ {gen} : \E i \in DOMAIN Writes[h] :
                 Writes[h][i].path = p /\ rows[p] \in {Writes[h][i].content, Torn}
    <3>1. PICK h \in ran : \E i \in DOMAIN Writes[h] :
                 Writes[h][i].path = p /\ files[p] \in {Writes[h][i].content, Torn}
      BY <1>1, <2>2, <2>5 DEF IInv, Accounted
    <3>2. h # gen
      BY <2>5, <3>1 DEF Paths
    <3> QED BY <2>2, <2>5, <3>1, <3>2
  <2> QED BY <2>4, <2>5
<1> QED BY <1>1, SpecIInv, PTL

(***************************************************************************)
(* Which files a decode has.  First what sorting and the loops do.         *)
(***************************************************************************)

\* How many numbers of a set are below one.
Below(S, x) == Cardinality({y \in S : y < x})

\* Of two numbers of a set more are below the greater.
LEMMA MoreBelow ==
  ASSUME NEW S, IsFiniteSet(S), S \subseteq Int, NEW x \in S, NEW y \in S, x < y
  PROVE  Below(S, x) \in Nat /\ Below(S, y) \in Nat /\ Below(S, x) < Below(S, y)
<1> DEFINE X == {z \in S : z < x}
           Y == {z \in S : z < y}
<1>1. X \subseteq Y /\ X # Y
  <2>1. x \in Int /\ y \in Int /\ \A z \in S : z \in Int OBVIOUS
  <2>2. x \in Y /\ x \notin X BY <2>1
  <2>3. ASSUME NEW z \in X PROVE z \in Y
    <3>1. z \in S /\ z < x /\ z \in Int BY <2>1
    <3>2. z < y BY <3>1, <2>1
    <3> QED BY <3>1, <3>2
  <2> QED BY <2>2, <2>3
<1>2. IsFiniteSet(X) /\ IsFiniteSet(Y)
  <2>1. X \in SUBSET S /\ Y \in SUBSET S OBVIOUS
  <2> HIDE DEF X, Y
  <2> QED BY <2>1, FS_Subset
<1>3. Below(S, x) = Cardinality(X) /\ Below(S, y) = Cardinality(Y) BY DEF Below
<1> HIDE DEF X, Y
<1>4. X \in SUBSET Y BY <1>1
<1>5. Cardinality(X) <= Cardinality(Y) /\ Cardinality(X) # Cardinality(Y)
  BY <1>1, <1>2, <1>4, FS_Subset
<1>6. Cardinality(X) \in Nat /\ Cardinality(Y) \in Nat BY <1>2, FS_CardinalityType
<1> QED BY <1>3, <1>5, <1>6

\* Rising has the numbers of the set, all of them, one above the other, and so each once; the first
\* has none below it.
LEMMA RisingIsAll ==
  ASSUME NEW S, IsFiniteSet(S), S \subseteq Int
  PROVE  /\ Cardinality(S) \in Nat
         /\ Rising(S) \in [1 .. Cardinality(S) -> S]
         /\ \A x \in S : \E k \in 1 .. Cardinality(S) : Rising(S)[k] = x
         /\ \A j, k \in 1 .. Cardinality(S) : Rising(S)[j] = Rising(S)[k] => j = k
         /\ \A j, k \in 1 .. Cardinality(S) : j < k => Rising(S)[j] < Rising(S)[k]
         /\ S # {} => \E x \in S : \A y \in S : x <= y
<1> DEFINE n == Cardinality(S)
           rank == [x \in S |-> Below(S, x)]
<1>1. n \in Nat BY FS_CardinalityType
<1>2. ASSUME NEW x \in S PROVE rank[x] \in 0 .. n - 1
  <2> DEFINE X == {z \in S : z < x}
  <2>1. X \in SUBSET S /\ x \notin X OBVIOUS
  <2>2. rank[x] = Cardinality(X) BY DEF Below
  <2> HIDE DEF X, rank
  <2>3. IsFiniteSet(X) /\ Cardinality(X) <= n /\ Cardinality(X) # n BY <2>1, FS_Subset
  <2>4. Cardinality(X) \in Nat BY <2>3, FS_CardinalityType
  <2> HIDE DEF n
  <2> QED BY <2>2, <2>3, <2>4, <1>1
<1>3. ASSUME NEW x \in S, NEW y \in S, x # y PROVE rank[x] # rank[y]
  <2>1. x \in Int /\ y \in Int /\ rank[x] = Below(S, x) /\ rank[y] = Below(S, y) OBVIOUS
  <2> HIDE DEF rank
  <2>2. CASE x < y
    <3>1. Below(S, x) \in Nat /\ Below(S, y) \in Nat /\ Below(S, x) < Below(S, y)
      BY <2>2, MoreBelow
    <3> QED BY <3>1, <2>1
  <2>3. CASE y < x
    <3>1. Below(S, x) \in Nat /\ Below(S, y) \in Nat /\ Below(S, y) < Below(S, x)
      BY <2>3, MoreBelow
    <3> QED BY <3>1, <2>1
  <2> QED BY <2>1, <2>2, <2>3, <1>3
<1>4. rank \in Surjection(S, 0 .. n - 1)
  <2> DEFINE T == 0 .. n - 1
  <2>1. rank \in [S -> T] BY <1>2
  <2>2. rank \in Injection(S, T)
    <3> HIDE DEF rank, T
    <3> QED BY <2>1, <1>3 DEF Injection, IsInjective
  <2>3. IsFiniteSet(T) /\ Cardinality(T) = Cardinality(S)
    <3>1. 0 \in Int /\ n - 1 \in Int BY <1>1
    <3>2. IsFiniteSet(T) /\ Cardinality(T) = IF 0 > n - 1 THEN 0 ELSE (n - 1) - 0 + 1
      <4> HIDE DEF n
      <4> QED BY <3>1, FS_Interval
    <3> HIDE DEF T
    <3>3. Cardinality(T) = n
      <4> HIDE DEF n
      <4> QED BY <3>2, <1>1
    <3> QED BY <3>2, <3>3
  <2> HIDE DEF T, rank
  <2>4. rank \in Surjection(S, T) BY <2>2, <2>3, FS_Injection
  <2> QED BY <2>4 DEF T
<1>5. ASSUME NEW k \in 1 .. n PROVE \E x \in S : Below(S, x) = k - 1
  <2>1. k - 1 \in 0 .. n - 1 BY <1>1
  <2>2. \E x \in S : rank[x] = k - 1
    <3> HIDE DEF rank
    <3> QED BY <2>1, <1>4 DEF Surjection
  <2> QED BY <2>2
<1>6. ASSUME NEW k \in 1 .. n
      PROVE  Rising(S)[k] \in S /\ Below(S, Rising(S)[k]) = k - 1
  <2>1. Rising(S)[k] = CHOOSE x \in S : Below(S, x) = k - 1 BY DEF Rising, Below
  <2> HIDE DEF n, rank
  <2> QED BY <2>1, <1>5
<1>7. Rising(S) \in [1 .. n -> S]
  <2> DEFINE E(k) == CHOOSE x \in S : Below(S, x) = k - 1
  <2>1. Rising(S) = [k \in 1 .. n |-> E(k)] BY DEF Rising, Below
  <2> HIDE DEF E, n
  <2>2. \A k \in 1 .. n : E(k) \in S BY <2>1, <1>6
  <2> QED BY <2>1, <2>2
<1>8. ASSUME NEW x \in S PROVE \E k \in 1 .. n : Rising(S)[k] = x
  <2> DEFINE k == Below(S, x) + 1
  <2>1. Below(S, x) \in 0 .. n - 1 BY <1>2
  <2>2. k \in 1 .. n /\ k - 1 = Below(S, x)
    <3> HIDE DEF n
    <3> QED BY <2>1, <1>1
  <2>3. Rising(S)[k] \in S /\ Below(S, Rising(S)[k]) = Below(S, x) BY <2>2, <1>6
  <2>4. Rising(S)[k] = x BY <2>3, <1>3
  <2> QED BY <2>2, <2>4
<1>9. ASSUME S # {} PROVE \E x \in S : \A y \in S : x <= y
  <2>1. n # 0 BY <1>9, FS_EmptySet
  <2>2. 1 \in 1 .. n
    <3> HIDE DEF n
    <3> QED BY <2>1, <1>1
  <2>3. PICK x \in S : Below(S, x) = 0 BY <2>2, <1>5
  <2>4. ASSUME NEW y \in S, y < x PROVE FALSE
    <3>1. Below(S, y) \in Nat /\ Below(S, y) < Below(S, x) BY <2>4, MoreBelow
    <3> QED BY <3>1, <2>3
  <2>5. \A y \in S : y \in Int /\ x \in Int OBVIOUS
  <2> QED BY <2>4, <2>5
<1>10. ASSUME NEW j \in 1 .. n, NEW k \in 1 .. n, Rising(S)[j] = Rising(S)[k] PROVE j = k
  <2>1. j - 1 = k - 1 BY <1>10, <1>6
  <2> HIDE DEF n
  <2> QED BY <2>1, <1>1
<1>11. ASSUME NEW j \in 1 .. n, NEW k \in 1 .. n, j < k PROVE Rising(S)[j] < Rising(S)[k]
  <2> DEFINE x == Rising(S)[j]
             y == Rising(S)[k]
  <2>1. x \in S /\ y \in S /\ Below(S, x) = j - 1 /\ Below(S, y) = k - 1 BY <1>6
  <2>2. x # y BY <1>11, <1>10
  <2> HIDE DEF n, x, y
  <2>3. j \in Int /\ k \in Int BY <1>1
  <2>4. ~(y < x)
    <3>1. SUFFICES ASSUME y < x PROVE FALSE OBVIOUS
    <3>2. Below(S, y) < Below(S, x) BY <2>1, <3>1, MoreBelow
    <3> QED BY <3>2, <2>1, <2>3, <1>11
  <2>5. x \in Int /\ y \in Int BY <2>1
  <2>6. x < y BY <2>2, <2>4, <2>5
  <2> QED BY <2>6 DEF x, y
<1> QED BY <1>1, <1>7, <1>8, <1>9, <1>10, <1>11

\* A finite set of numbers has a greatest one.
LEMMA Greatest ==
  ASSUME NEW S, IsFiniteSet(S), S \subseteq Int, S # {}
  PROVE  \E x \in S : \A y \in S : y <= x
<1> DEFINE n == Cardinality(S)
<1>1. /\ n \in Nat /\ Rising(S) \in [1 .. n -> S]
      /\ \A x \in S : \E k \in 1 .. n : Rising(S)[k] = x
      /\ \A j, k \in 1 .. n : j < k => Rising(S)[j] < Rising(S)[k]
  BY RisingIsAll
<1> HIDE DEF n
<1>2. n \in 1 .. n
  <2>1. PICK x \in S : TRUE OBVIOUS
  <2>2. PICK k \in 1 .. n : Rising(S)[k] = x BY <1>1
  <2> QED BY <2>2, <1>1
<1>3. ASSUME NEW y \in S PROVE y <= Rising(S)[n]
  <2>1. PICK k \in 1 .. n : Rising(S)[k] = y BY <1>1
  <2>2. k = n \/ k < n BY <1>1
  <2>3. Rising(S)[n] \in Int /\ y \in Int BY <1>1, <1>2
  <2> QED BY <2>1, <2>2, <2>3, <1>1, <1>2
<1> QED BY <1>1, <1>2, <1>3

\* U has what n turns have written, after each of them.
Unfolds(U, turns, n, S) ==
  /\ Joined(turns) = U[n] /\ U[0] = <<>>
  /\ \A k \in 0 .. n - 1 : U[k + 1] = U[k] \o turns[k + 1]
  /\ \A k \in 0 .. n : U[k] \in Seq(S)

\* A loop writes what it has written before a turn and, behind it, what the turn writes.
LEMMA JoinedUnfolds ==
  ASSUME NEW S, NEW n \in Nat, NEW turns, DOMAIN turns = 1 .. n, turns = [k \in 1 .. n |-> turns[k]],
         \A k \in 1 .. n : turns[k] \in Seq(S)
  PROVE  \E U : Unfolds(U, turns, n, S)
<1> DEFINE Q == Seq(S)
           step == [p \in Nat \X Q |-> IF p[1] < n THEN p[2] \o turns[p[1] + 1] ELSE p[2]]
           E(f) == [k \in 0 .. n |-> IF k = 0 THEN <<>> ELSE f[k - 1] \o turns[k]]
<1>1. Len(turns) = n /\ turns \in [1 .. n -> Seq(S)] OBVIOUS
<1>2. step \in [Nat \X Q -> Q]
  <2>1. ASSUME NEW k \in Nat, NEW s \in Q
        PROVE  (IF k < n THEN s \o turns[k + 1] ELSE s) \in Q
    <3>1. CASE k < n
      <4>1. k + 1 \in 1 .. n BY <3>1
      <4>2. turns[k + 1] \in Seq(S) BY <4>1, <1>1
      <4> QED BY <4>2, <3>1
    <3> QED BY <3>1
  <2> HIDE DEF Q
  <2> QED BY <2>1
<1>3. \A k \in Nat, s \in Q : step[<<k, s>>] = IF k < n THEN s \o turns[k + 1] ELSE s
  <2> HIDE DEF Q
  <2> QED OBVIOUS
<1>4. <<>> \in Q OBVIOUS
<1>5. PICK f : Iterates(f, Q, <<>>, step)
  <2> HIDE DEF Q, step
  <2> QED BY <1>2, <1>4, Iteration
<1> HIDE DEF step
<1>6. /\ f \in [Nat -> Q] /\ f[0] = <<>>
      /\ \A k \in Nat : k < n => f[k + 1] = f[k] \o turns[k + 1]
  <2> HIDE DEF Q
  <2> QED BY <1>3, <1>5 DEF Iterates
<1> DEFINE g == [k \in 0 .. n |-> f[k]]
<1>7. g = E(g)
  <2>1. ASSUME NEW k \in 0 .. n PROVE g[k] = E(g)[k]
    <3>1. CASE k = 0 BY <3>1, <1>6
    <3>2. CASE k # 0
      <4>1. k - 1 \in 0 .. n /\ k - 1 \in Nat /\ (k - 1) + 1 = k /\ k - 1 < n BY <3>2
      <4>2. f[(k - 1) + 1] = f[k - 1] \o turns[(k - 1) + 1] BY <4>1, <1>6
      <4>3. g[k] = f[k] /\ g[k - 1] = f[k - 1] BY <4>1
      <4>4. E(g)[k] = g[k - 1] \o turns[k] BY <3>2
      <4> HIDE DEF g, E
      <4> QED BY <4>1, <4>2, <4>3, <4>4
    <3> QED BY <3>1, <3>2
  <2> QED BY <2>1
<1> HIDE DEF g
<1> DEFINE U == CHOOSE h : h = E(h)
<1>8. U = E(U)
  <2> HIDE DEF E
  <2> QED BY <1>7
<1>9. Joined(turns) = U[n] BY <1>1 DEF Joined
<1> HIDE DEF U
<1>10. U[0] = <<>> /\ \A k \in 0 .. n - 1 : U[k + 1] = U[k] \o turns[k + 1]
  <2>1. U[0] = <<>> BY <1>8
  <2>2. ASSUME NEW k \in 0 .. n - 1 PROVE U[k + 1] = U[k] \o turns[k + 1]
    <3>1. k + 1 \in 0 .. n /\ k + 1 # 0 /\ (k + 1) - 1 = k OBVIOUS
    <3>2. E(U)[k + 1] = U[(k + 1) - 1] \o turns[k + 1] BY <3>1
    <3> HIDE DEF E
    <3> QED BY <3>1, <3>2, <1>8
  <2> QED BY <2>1, <2>2
<1>11. \A k \in 0 .. n : U[k] \in Q
  <2> DEFINE T == {m \in Nat : m <= n => U[m] \in Q}
  <2>1. 0 \in T BY <1>4, <1>10
  <2>2. ASSUME NEW m \in Nat, m \in T PROVE m + 1 \in T
    <3>1. SUFFICES ASSUME m + 1 <= n PROVE U[m + 1] \in Q OBVIOUS
    <3>2. m \in 0 .. n - 1 /\ m + 1 \in 1 .. n BY <3>1
    <3>3. U[m] \in Q BY <2>2, <3>2
    <3>4. U[m + 1] = U[m] \o turns[m + 1] BY <3>2, <1>10
    <3> QED BY <1>1, <3>2, <3>3, <3>4
  <2> HIDE DEF T
  <2>3. Nat \subseteq T BY <2>1, <2>2, Inductive
  <2> QED BY <2>3 DEF T
<1>12. Unfolds(U, turns, n, S) BY <1>9, <1>10, <1>11 DEF Unfolds
<1> QED BY <1>12

\* s has what n turns write, and nothing else.
IsJoined(s, turns, n, S) ==
  /\ s \in Seq(S)
  /\ \A i \in DOMAIN s : \E k \in 1 .. n : \E j \in DOMAIN turns[k] : s[i] = turns[k][j]
  /\ \A k \in 1 .. n : \A j \in DOMAIN turns[k] : \E i \in DOMAIN s : s[i] = turns[k][j]

\* What a loop writes is files of its turns, and every one of them.
LEMMA JoinedIsAll ==
  ASSUME NEW S, NEW n \in Nat, NEW turns, DOMAIN turns = 1 .. n, turns = [k \in 1 .. n |-> turns[k]],
         \A k \in 1 .. n : turns[k] \in Seq(S)
  PROVE  IsJoined(Joined(turns), turns, n, S)
<1>1. Len(turns) = n /\ turns \in [1 .. n -> Seq(S)] OBVIOUS
<1>2. PICK U : /\ Joined(turns) = U[n] /\ U[0] = <<>>
               /\ \A k \in 0 .. n - 1 : U[k + 1] = U[k] \o turns[k + 1]
  <2>1. PICK U : Unfolds(U, turns, n, S) BY JoinedUnfolds
  <2> QED BY <2>1 DEF Unfolds
<1> DEFINE Has(s, m) ==
             /\ s \in Seq(S)
             /\ \A i \in DOMAIN s : \E k \in 1 .. m : \E j \in DOMAIN turns[k] : s[i] = turns[k][j]
             /\ \A k \in 1 .. m : \A j \in DOMAIN turns[k] : \E i \in DOMAIN s : s[i] = turns[k][j]
           T == {m \in Nat : m <= n => Has(U[m], m)}
<1>3. 0 \in T
  <2>1. Has(<<>>, 0) OBVIOUS
  <2> HIDE DEF Has
  <2> QED BY <2>1, <1>2
<1>4. ASSUME NEW m \in Nat, m \in T PROVE m + 1 \in T
  <2> SUFFICES ASSUME m + 1 <= n PROVE Has(U[m + 1], m + 1)
    <3> HIDE DEF Has
    <3> QED OBVIOUS
  <2>1. m \in 0 .. n - 1 /\ m + 1 \in 1 .. n OBVIOUS
  <2> DEFINE s == U[m]
             t == turns[m + 1]
             u == s \o t
  <2>2. U[m + 1] = u BY <2>1, <1>2
  <2>3. Has(s, m)
    <3> HIDE DEF Has
    <3> QED BY <1>4, <2>1
  <2>4. s \in Seq(S) /\ t \in Seq(S) BY <2>1, <2>3, <1>1
  <2> HIDE DEF s, t
  <2>5. /\ u \in Seq(S) /\ Len(u) = Len(s) + Len(t)
        /\ DOMAIN s = 1 .. Len(s) /\ DOMAIN t = 1 .. Len(t) /\ DOMAIN u = 1 .. Len(u)
        /\ Len(s) \in Nat /\ Len(t) \in Nat
    BY <2>4
  <2>6. ASSUME NEW i \in 1 .. Len(u)
        PROVE  IF i <= Len(s) THEN u[i] = s[i] ELSE u[i] = t[i - Len(s)]
    BY <2>4, <2>5
  <2> HIDE DEF u
  <2>7. ASSUME NEW i \in DOMAIN u
        PROVE  \E k \in 1 .. m + 1 : \E j \in DOMAIN turns[k] : u[i] = turns[k][j]
    <3>1. CASE i <= Len(s)
      <4>1. i \in DOMAIN s /\ u[i] = s[i] BY <3>1, <2>5, <2>6
      <4>2. PICK k \in 1 .. m : \E j \in DOMAIN turns[k] : s[i] = turns[k][j] BY <4>1, <2>3
      <4>3. k \in 1 .. m + 1 OBVIOUS
      <4> QED BY <4>1, <4>2, <4>3
    <3>2. CASE i > Len(s)
      <4>1. i - Len(s) \in DOMAIN t /\ u[i] = t[i - Len(s)] BY <3>2, <2>5, <2>6
      <4>2. m + 1 \in 1 .. m + 1 OBVIOUS
      <4> QED BY <4>1, <4>2 DEF t
    <3> QED BY <3>1, <3>2, <2>5
  <2>8. ASSUME NEW k \in 1 .. m + 1, NEW j \in DOMAIN turns[k]
        PROVE  \E i \in DOMAIN u : u[i] = turns[k][j]
    <3>1. CASE k <= m
      <4>1. k \in 1 .. m BY <3>1
      <4>2. PICK i \in DOMAIN s : s[i] = turns[k][j] BY <4>1, <2>3
      <4>3. i \in DOMAIN u /\ u[i] = s[i] BY <2>5, <2>6
      <4> QED BY <4>2, <4>3
    <3>2. CASE k = m + 1
      <4>1. j \in DOMAIN t /\ t[j] = turns[k][j] BY <3>2 DEF t
      <4>2. Len(s) + j \in DOMAIN u /\ u[Len(s) + j] = t[j]
        <5>1. j \in 1 .. Len(t) BY <4>1, <2>5
        <5>2. Len(s) + j \in 1 .. Len(u) /\ ~(Len(s) + j <= Len(s)) /\ (Len(s) + j) - Len(s) = j
          BY <5>1, <2>5
        <5> QED BY <5>2, <2>5, <2>6
      <4> QED BY <4>1, <4>2
    <3> QED BY <3>1, <3>2
  <2>9. Has(u, m + 1) BY <2>5, <2>7, <2>8
  <2> HIDE DEF Has
  <2> QED BY <2>2, <2>9
<1> HIDE DEF T
<1>5. Nat \subseteq T BY <1>3, <1>4, Inductive
<1>6. Has(U[n], n)
  <2> HIDE DEF Has
  <2> QED BY <1>5 DEF T
<1>7. IsJoined(U[n], turns, n, S) BY <1>6 DEF IsJoined
<1> QED BY <1>2, <1>7

----------------------------------------------------------------------------

\* The image of a finite set is finite.
LEMMA FiniteImage ==
  ASSUME NEW S, IsFiniteSet(S), NEW f, DOMAIN f = S
  PROVE  IsFiniteSet({f[x] : x \in S})
<1> DEFINE T == {f[x] : x \in S}
           h == [x \in S |-> f[x]]
<1>1. h \in Surjection(S, T)
  <2>1. h \in [S -> T] OBVIOUS
  <2>2. \A y \in T : \E x \in S : h[x] = y OBVIOUS
  <2> HIDE DEF h, T
  <2> QED BY <2>1, <2>2 DEF Surjection
<1> HIDE DEF h, T
<1>2. IsFiniteSet(T) BY <1>1, FS_Surjection
<1> QED BY <1>2 DEF T

\* What a decode says of a population: finitely many ids, and of each finitely many blocks, and
\* texts; and a smallest place among any of them.
LEMMA Found ==
  ASSUME NEW g \in Gens, NEW all \in {g.archive, g.exe, g.overlay}
  PROVE  /\ IsFiniteSet(all) /\ \A b \in all : b.id \in Nat /\ b.text \in Int
         /\ IsFiniteSet(Ids(all)) /\ Ids(all) \subseteq Nat
         /\ \A id : IsFiniteSet(OfId(all, id)) /\ OfId(all, id) \subseteq all
<1>1. IsFiniteSet(all) /\ \A b \in all : b.id \in Nat /\ b.text \in Int
  BY DecodeAssumption
<1>2. IsFiniteSet(Ids(all))
  <2> DEFINE f == [b \in all |-> b.id]
  <2>1. DOMAIN f = all /\ {f[b] : b \in all} = Ids(all) BY DEF Ids
  <2> HIDE DEF f
  <2>2. IsFiniteSet({f[b] : b \in all}) BY <1>1, <2>1, FiniteImage
  <2> QED BY <2>1, <2>2
<1>3. Ids(all) \subseteq Nat BY <1>1 DEF Ids
<1>4. ASSUME NEW id PROVE IsFiniteSet(OfId(all, id)) /\ OfId(all, id) \subseteq all
  <2>1. OfId(all, id) \in SUBSET all BY DEF OfId
  <2> QED BY <1>1, <2>1, FS_Subset
<1> QED BY <1>1, <1>2, <1>3, <1>4

\* The texts of an id, and how many of them come first.
LEMMA TextsOf ==
  ASSUME NEW g \in Gens, NEW id
  PROVE  /\ IsFiniteSet(Texts(g.archive, id)) /\ Texts(g.archive, id) \subseteq Int
         /\ \A text \in Texts(g.archive, id) : Variant(g.archive, id, text) \in Nat
<1> DEFINE archive == g.archive
           S == OfId(archive, id)
           f == [m \in S |-> m.text]
           T == Texts(archive, id)
<1>1. IsFiniteSet(S) /\ S \subseteq archive /\ \A m \in archive : m.text \in Int BY Found
<1>2. DOMAIN f = S /\ {f[m] : m \in S} = T BY DEF Texts
<1>3. T \subseteq Int BY <1>1 DEF Texts
<1> HIDE DEF f, S
<1>4. IsFiniteSet({f[m] : m \in S}) BY <1>1, <1>2, FiniteImage
<1>5. IsFiniteSet(T) BY <1>2, <1>4
<1> HIDE DEF T
<1>6. ASSUME NEW text \in T PROVE Variant(archive, id, text) \in Nat
  <2> DEFINE U == {t \in T : t < text}
  <2>1. U \in SUBSET T OBVIOUS
  <2>2. Variant(archive, id, text) = IF Cardinality(T) = 1 THEN 0 ELSE 1 + Cardinality(U)
    BY DEF Variant, T
  <2> HIDE DEF U
  <2>3. Cardinality(U) \in Nat BY <2>1, <1>5, FS_Subset, FS_CardinalityType
  <2> QED BY <2>2, <2>3
<1> QED BY <1>3, <1>5, <1>6 DEF T

\* The variants of an id are told apart by their number.
LEMMA VariantsDiffer ==
  ASSUME NEW g \in Gens, NEW id, NEW s \in Texts(g.archive, id), NEW t \in Texts(g.archive, id),
         Variant(g.archive, id, s) = Variant(g.archive, id, t)
  PROVE  s = t
<1> DEFINE T == Texts(g.archive, id)
<1>1. IsFiniteSet(T) /\ T \subseteq Int BY TextsOf
<1>2. /\ Variant(g.archive, id, s) = IF Cardinality(T) = 1 THEN 0 ELSE 1 + Below(T, s)
      /\ Variant(g.archive, id, t) = IF Cardinality(T) = 1 THEN 0 ELSE 1 + Below(T, t)
  BY DEF Variant, Below
<1>3. s \in T /\ t \in T OBVIOUS
<1> HIDE DEF T
<1>4. CASE Cardinality(T) = 1
  <2>1. \E x : T = {x} BY <1>1, <1>4, FS_Singleton
  <2> QED BY <2>1, <1>3
<1>5. CASE Cardinality(T) # 1
  <2>1. ASSUME NEW x \in T, NEW y \in T, x < y
        PROVE  Below(T, x) \in Nat /\ Below(T, y) \in Nat /\ Below(T, x) < Below(T, y)
    BY <1>1, <2>1, MoreBelow
  <2>2. s \in Int /\ t \in Int /\ 1 + Below(T, s) = 1 + Below(T, t)
    <3>1. Variant(g.archive, id, s) = Variant(g.archive, id, t) OBVIOUS
    <3> QED BY <3>1, <1>1, <1>2, <1>3, <1>5
  <2>3. ~(s < t)
    <3> SUFFICES ASSUME s < t PROVE FALSE OBVIOUS
    <3>1. Below(T, s) \in Nat /\ Below(T, t) \in Nat /\ Below(T, s) < Below(T, t) BY <2>1, <1>3
    <3> QED BY <3>1, <2>2
  <2>4. ~(t < s)
    <3> SUFFICES ASSUME t < s PROVE FALSE OBVIOUS
    <3>1. Below(T, s) \in Nat /\ Below(T, t) \in Nat /\ Below(T, t) < Below(T, s) BY <2>1, <1>3
    <3> QED BY <3>1, <2>2
  <2> QED BY <2>2, <2>3, <2>4
<1> QED BY <1>4, <1>5

\* The copy that speaks for the others is one of them.
LEMMA SpokesmanIsCopy ==
  ASSUME NEW g \in Gens, NEW id \in Ids(g.archive), NEW text \in Texts(g.archive, id)
  PROVE  LET m == Spokesman(g.archive, id, text)
         IN  m \in g.archive /\ m.id = id /\ m.text = text /\ m.sector \in Int
<1> DEFINE archive == g.archive
           S == Copies(archive, id, text)
           f == [m \in S |-> m.sector]
           X == {f[m] : m \in S}
<1>1. /\ IsFiniteSet(OfId(archive, id)) /\ OfId(archive, id) \subseteq archive
      /\ \A m \in archive : m.sector \in Int
  BY Found, DecodeAssumption
<1>2. S \in SUBSET OfId(archive, id) /\ \A m \in S : m.id = id /\ m.text = text
  BY DEF Copies, OfId
<1>3. S # {} BY DEF Copies, Texts
<1>4. \A m \in S : m \in archive /\ m.sector \in Int BY <1>1, <1>2
<1>5. Spokesman(archive, id, text) = CHOOSE m \in S : \A n \in S : m.sector <= n.sector
  BY DEF Spokesman
<1>6. DOMAIN f = S /\ \A m \in S : f[m] = m.sector OBVIOUS
<1> HIDE DEF S, f
<1>7. IsFiniteSet(S) BY <1>1, <1>2, FS_Subset
<1>8. IsFiniteSet(X) BY <1>6, <1>7, FiniteImage
<1>9. X \subseteq Int /\ X # {} BY <1>3, <1>4, <1>6
<1>10. \E x \in X : \A y \in X : x <= y
  <2> HIDE DEF X
  <2> QED BY <1>8, <1>9, RisingIsAll
<1>11. \E m \in S : \A n \in S : m.sector <= n.sector BY <1>6, <1>10
<1>12. Spokesman(archive, id, text) \in S BY <1>5, <1>11
<1> QED BY <1>2, <1>4, <1>12

----------------------------------------------------------------------------

FileType == [path : Path, content : Content]

\* Files of a block have a path and a content.
LEMMA FileTyped ==
  ASSUME NEW dir \in Dirs, NEW id \in Nat, NEW v \in Nat, NEW text \in Int, NEW where \in Int
  PROVE  /\ File(<<dir, id, v>>, {<<id, text, where>>}) \in FileType
         /\ File(<<dir, id, v>>, {<<id, text, where>>}).path = <<dir, id, v>>
         /\ File(<<dir, id, v>>, {<<id, text, where>>}).content = {<<id, text, where>>}
<1>1. <<dir, id, v>> \in Path BY DEF Path
<1>2. {<<id, text, where>>} \in Content BY DEF Content
<1> QED BY <1>1, <1>2 DEF File, FileType

\* A sequence of one file, and of one or two.
LEMMA OneOrTwo ==
  ASSUME NEW S, NEW a \in S, NEW b \in S, NEW two \in BOOLEAN,
         NEW s, s = <<a>> \o (IF two THEN <<b>> ELSE <<>>)
  PROVE  s \in Seq(S) /\ 1 \in DOMAIN s /\ s[1] = a /\ \A i \in DOMAIN s : s[i] \in {a, b}
<1>1. CASE two
  <2>1. s = <<a>> \o <<b>> BY <1>1
  <2>2. <<a>> \in Seq(S) /\ <<b>> \in Seq(S) /\ Len(<<a>>) = 1 /\ Len(<<b>>) = 1 OBVIOUS
  <2>3. s \in Seq(S) /\ Len(s) = 2 /\ s[1] = a /\ s[2] = b BY <2>1, <2>2
  <2> QED BY <2>3
<1>2. CASE ~two
  <2>1. s = <<a>> BY <1>2
  <2> QED BY <2>1
<1> QED BY <1>1, <1>2

\* The file of a text in one of the two directories that have one for each.
TextFile(archive, dir, id, text) ==
  File(<<dir, id, Variant(archive, id, text)>>,
       {Line(Spokesman(archive, id, text), Spokesman(archive, id, text).sector)})

\* The files of the archive are those of its texts, and each text has its file under raw/.
LEMMA ArchiveHas ==
  ASSUME NEW g \in Gens
  PROVE  /\ ArchiveFiles(g.archive) \in Seq(FileType)
         /\ \A i \in DOMAIN ArchiveFiles(g.archive) :
              \E dir \in {"raw", "dictionaries"}, id \in Ids(g.archive) :
                \E text \in Texts(g.archive, id) :
                  ArchiveFiles(g.archive)[i] = TextFile(g.archive, dir, id, text)
         /\ \A id \in Ids(g.archive) : \A text \in Texts(g.archive, id) :
              \E i \in DOMAIN ArchiveFiles(g.archive) :
                ArchiveFiles(g.archive)[i] = TextFile(g.archive, "raw", id, text)
<1> DEFINE archive == g.archive
           n == Cardinality(Ids(archive))
           ids == Rising(Ids(archive))
           turns == [k \in 1 .. n |-> IdFiles(archive, ids[k])]
           IsFile(f, id) == \E dir \in {"raw", "dictionaries"} : \E text \in Texts(archive, id) :
                              f = TextFile(archive, dir, id, text)
<1>1. /\ n \in Nat /\ ids \in [1 .. n -> Ids(archive)] /\ Ids(archive) \subseteq Nat
      /\ \A id \in Ids(archive) : \E k \in 1 .. n : ids[k] = id
  <2>1. IsFiniteSet(Ids(archive)) /\ Ids(archive) \subseteq Nat BY Found
  <2>2. Ids(archive) \subseteq Int BY <2>1
  <2> QED BY <2>1, <2>2, RisingIsAll
<1>2. ASSUME NEW id \in Ids(archive), NEW text \in Texts(archive, id),
             NEW s, s = BlockFiles(archive, id, text)
      PROVE  /\ s \in Seq(FileType)
             /\ \A i \in DOMAIN s : IsFile(s[i], id)
             /\ \E i \in DOMAIN s : s[i] = TextFile(archive, "raw", id, text)
  <2> DEFINE m == Spokesman(archive, id, text)
             v == Variant(archive, id, text)
             a == TextFile(archive, "raw", id, text)
             b == TextFile(archive, "dictionaries", id, text)
             two == m.dict = TRUE
  <2>1. m.id = id /\ m.text = text /\ m.sector \in Int /\ v \in Nat /\ id \in Nat /\ text \in Int
    <3>1. m.id = id /\ m.text = text /\ m.sector \in Int BY SpokesmanIsCopy
    <3>2. v \in Nat /\ text \in Int BY TextsOf
    <3>3. id \in Nat BY <1>1
    <3> QED BY <3>1, <3>2, <3>3
  <2>2. a \in FileType /\ b \in FileType
    <3>1. "raw" \in Dirs /\ "dictionaries" \in Dirs BY DEF Dirs
    <3>2. Line(m, m.sector) = <<id, text, m.sector>> BY <2>1 DEF Line
    <3> HIDE DEF m, v
    <3>3. /\ a = File(<<"raw", id, v>>, {<<id, text, m.sector>>})
          /\ b = File(<<"dictionaries", id, v>>, {<<id, text, m.sector>>})
      BY <3>2 DEF TextFile, m, v
    <3> HIDE DEF a, b
    <3> QED BY <2>1, <3>1, <3>3, FileTyped
  <2>3. s = <<a>> \o (IF m.dict THEN <<b>> ELSE <<>>) BY <1>2 DEF BlockFiles, TextFile
  <2>4. \E t \in BOOLEAN : s = <<a>> \o (IF t THEN <<b>> ELSE <<>>)
    <3> HIDE DEF a, b, m
    <3>1. CASE m.dict BY <2>3, <3>1
    <3>2. CASE ~m.dict BY <2>3, <3>2
    <3> QED BY <3>1, <3>2
  <2>5. s \in Seq(FileType) /\ 1 \in DOMAIN s /\ s[1] = a /\ \A i \in DOMAIN s : s[i] \in {a, b}
    <3> HIDE DEF a, b
    <3> QED BY <2>2, <2>4, OneOrTwo
  <2>6. IsFile(a, id) /\ IsFile(b, id) OBVIOUS
  <2> HIDE DEF IsFile
  <2> QED BY <2>5, <2>6
<1>3. ASSUME NEW id \in Ids(archive)
      PROVE  /\ IdFiles(archive, id) \in Seq(FileType)
             /\ \A i \in DOMAIN IdFiles(archive, id) : IsFile(IdFiles(archive, id)[i], id)
             /\ \A text \in Texts(archive, id) :
                  \E i \in DOMAIN IdFiles(archive, id) :
                    IdFiles(archive, id)[i] = TextFile(archive, "raw", id, text)
  <2> DEFINE T == Texts(archive, id)
             p == Cardinality(T)
             texts == Rising(T)
             parts == [k \in 1 .. p |-> BlockFiles(archive, id, texts[k])]
             s == IdFiles(archive, id)
  <2>1. IsFiniteSet(T) /\ T \subseteq Int BY TextsOf
  <2>2. p \in Nat /\ texts \in [1 .. p -> T] /\ \A text \in T : \E k \in 1 .. p : texts[k] = text
    <3> HIDE DEF T
    <3> QED BY <2>1, RisingIsAll
  <2>3. s = Joined(parts)
    <3>1. DOMAIN texts = 1 .. p BY <2>2
    <3> QED BY <3>1 DEF IdFiles
  <2> HIDE DEF IsFile, T, texts, p, s
  <2>4. \A k \in 1 .. p : parts[k] = BlockFiles(archive, id, texts[k]) /\ texts[k] \in T BY <2>2
  <2>5. \A k \in 1 .. p : /\ parts[k] \in Seq(FileType)
                          /\ \A i \in DOMAIN parts[k] : IsFile(parts[k][i], id)
                          /\ \E i \in DOMAIN parts[k] :
                               parts[k][i] = TextFile(archive, "raw", id, texts[k])
    BY <2>4, <1>2 DEF T
  <2>6. DOMAIN parts = 1 .. p /\ parts = [k \in 1 .. p |-> parts[k]] OBVIOUS
  <2> HIDE DEF parts
  <2>7. /\ s \in Seq(FileType)
        /\ \A i \in DOMAIN s : \E k \in 1 .. p : \E j \in DOMAIN parts[k] : s[i] = parts[k][j]
        /\ \A k \in 1 .. p : \A j \in DOMAIN parts[k] : \E i \in DOMAIN s : s[i] = parts[k][j]
    <3>1. IsJoined(Joined(parts), parts, p, FileType) BY <2>2, <2>5, <2>6, JoinedIsAll
    <3> QED BY <3>1, <2>3 DEF IsJoined
  <2>8. \A i \in DOMAIN s : IsFile(s[i], id) BY <2>5, <2>7
  <2>9. ASSUME NEW text \in T
        PROVE  \E i \in DOMAIN s : s[i] = TextFile(archive, "raw", id, text)
    <3>1. PICK k \in 1 .. p : texts[k] = text BY <2>2
    <3>2. PICK j \in DOMAIN parts[k] : parts[k][j] = TextFile(archive, "raw", id, text)
      BY <3>1, <2>5
    <3> QED BY <3>2, <2>7
  <2> QED BY <2>7, <2>8, <2>9 DEF T, s
<1> DEFINE s == ArchiveFiles(archive)
<1>4. s = Joined(turns)
  <2>1. DOMAIN ids = 1 .. n BY <1>1
  <2> QED BY <2>1 DEF ArchiveFiles
<1>5. \A k \in 1 .. n : turns[k] = IdFiles(archive, ids[k]) /\ ids[k] \in Ids(archive) BY <1>1
<1>6. /\ DOMAIN turns = 1 .. n /\ turns = [k \in 1 .. n |-> turns[k]]
      /\ \A k \in 1 .. n : turns[k] \in Seq(FileType)
  <2>1. \A k \in 1 .. n : turns[k] \in Seq(FileType)
    <3> HIDE DEF ids, n, turns
    <3> QED BY <1>3, <1>5
  <2>2. DOMAIN turns = 1 .. n /\ turns = [k \in 1 .. n |-> turns[k]] OBVIOUS
  <2> QED BY <2>1, <2>2
<1> HIDE DEF ids, turns, n, s
<1>7. /\ s \in Seq(FileType)
      /\ \A i \in DOMAIN s : \E k \in 1 .. n : \E j \in DOMAIN turns[k] : s[i] = turns[k][j]
      /\ \A k \in 1 .. n : \A j \in DOMAIN turns[k] : \E i \in DOMAIN s : s[i] = turns[k][j]
  <2>1. IsJoined(Joined(turns), turns, n, FileType) BY <1>1, <1>6, JoinedIsAll
  <2> QED BY <2>1, <1>4 DEF IsJoined
<1>8. ASSUME NEW i \in DOMAIN s PROVE \E id \in Ids(archive) : IsFile(s[i], id)
  <2>1. PICK k \in 1 .. n : \E j \in DOMAIN turns[k] : s[i] = turns[k][j] BY <1>7
  <2> HIDE DEF IsFile
  <2> QED BY <2>1, <1>3, <1>5
<1>9. ASSUME NEW id \in Ids(archive), NEW text \in Texts(archive, id)
      PROVE  \E i \in DOMAIN s : s[i] = TextFile(archive, "raw", id, text)
  <2>1. PICK k \in 1 .. n : ids[k] = id BY <1>1
  <2>2. PICK j \in DOMAIN turns[k] : turns[k][j] = TextFile(archive, "raw", id, text)
    BY <2>1, <1>3, <1>5
  <2> QED BY <2>2, <1>7
<1> QED BY <1>7, <1>8, <1>9 DEF s

----------------------------------------------------------------------------

\* What is listed of a population in one file.
LEMMA ListTyped ==
  ASSUME NEW g \in Gens
  PROVE  /\ File(Single("exe"), {Line(b, b.va) : b \in g.exe}) \in FileType
         /\ File(Single("overlay"), {Line(b, b.site) : b \in g.overlay}) \in FileType
<1>1. Single("exe") \in Path /\ Single("overlay") \in Path
  BY FixedFiles DEF Dirs
<1>2. \A b \in g.exe : Line(b, b.va) \in Int \X Int \X Int
  BY DecodeAssumption DEF Line
<1>3. \A b \in g.overlay : Line(b, b.site) \in Int \X Int \X Int
  BY DecodeAssumption DEF Line
<1>4. {Line(b, b.va) : b \in g.exe} \in Content /\ {Line(b, b.site) : b \in g.overlay} \in Content
  BY <1>2, <1>3 DEF Content
<1> QED BY <1>1, <1>4 DEF File, FileType

\* u is s and, behind it, t.
IsAppended(u, s, t, S) ==
  /\ u \in Seq(S) /\ Len(u) = Len(s) + Len(t)
  /\ DOMAIN s = 1 .. Len(s) /\ DOMAIN t = 1 .. Len(t) /\ DOMAIN u = 1 .. Len(u)
  /\ Len(s) \in Nat /\ Len(t) \in Nat
  /\ \A i \in DOMAIN u : IF i <= Len(s) THEN i \in DOMAIN s /\ u[i] = s[i]
                         ELSE i - Len(s) \in DOMAIN t /\ u[i] = t[i - Len(s)]
  /\ \A i \in DOMAIN s : i \in DOMAIN u /\ u[i] = s[i]
  /\ \A j \in DOMAIN t : /\ Len(s) + j \in DOMAIN u /\ u[Len(s) + j] = t[j]
                         /\ Len(s) + j > Len(s)

\* One sequence behind another has the elements of both.
LEMMA Appended ==
  ASSUME NEW S, NEW s \in Seq(S), NEW t \in Seq(S)
  PROVE  IsAppended(s \o t, s, t, S)
<1> DEFINE u == s \o t
<1>1. /\ u \in Seq(S) /\ Len(u) = Len(s) + Len(t)
      /\ DOMAIN s = 1 .. Len(s) /\ DOMAIN t = 1 .. Len(t) /\ DOMAIN u = 1 .. Len(u)
      /\ Len(s) \in Nat /\ Len(t) \in Nat
  OBVIOUS
<1>2. \A i \in 1 .. Len(u) : IF i <= Len(s) THEN u[i] = s[i] ELSE u[i] = t[i - Len(s)]
  BY <1>1
<1> HIDE DEF u
<1>3. ASSUME NEW i \in DOMAIN u
      PROVE  IF i <= Len(s) THEN i \in DOMAIN s /\ u[i] = s[i]
             ELSE i - Len(s) \in DOMAIN t /\ u[i] = t[i - Len(s)]
  BY <1>1, <1>2
<1>4. ASSUME NEW i \in DOMAIN s PROVE i \in DOMAIN u /\ u[i] = s[i] BY <1>1, <1>2
<1>5. ASSUME NEW j \in DOMAIN t
      PROVE  Len(s) + j \in DOMAIN u /\ u[Len(s) + j] = t[j] /\ Len(s) + j > Len(s)
  <2>1. j \in 1 .. Len(t) BY <1>1
  <2>2. Len(s) + j \in 1 .. Len(u) /\ ~(Len(s) + j <= Len(s)) /\ (Len(s) + j) - Len(s) = j
    BY <2>1, <1>1
  <2> QED BY <2>2, <1>1, <1>2
<1>6. IsAppended(u, s, t, S) BY <1>1, <1>3, <1>4, <1>5 DEF IsAppended
<1> QED BY <1>6 DEF u

----------------------------------------------------------------------------
(* What a sequence of writes leaves. *)

PathsOf(s) == {s[i].path : i \in DOMAIN s}

\* c is what the writes s leave at p: the content of the last of them that goes there.
IsLeft(s, p, c) ==
  \E i \in DOMAIN s : /\ s[i].path = p /\ s[i].content = c
                      /\ \A j \in DOMAIN s : s[j].path = p => j <= i

\* At p the writes u leave what their part s leaves.
Decides(s, u, p) ==
  /\ p \in PathsOf(u) <=> p \in PathsOf(s)
  /\ \A c : IsLeft(u, p, c) <=> IsLeft(s, p, c)

\* Some write to a path is the last one, and so one content is left there.
LEMMA OneIsLeft ==
  ASSUME NEW s \in Seq(FileType), NEW p
  PROVE  /\ p \in PathsOf(s) => \E c : IsLeft(s, p, c)
         /\ \A c : IsLeft(s, p, c) => p \in PathsOf(s)
         /\ \A c, d : IsLeft(s, p, c) /\ IsLeft(s, p, d) => c = d
<1> DEFINE At == {i \in DOMAIN s : s[i].path = p}
           Behind == {Len(s) - i : i \in At}
<1>1. DOMAIN s = 1 .. Len(s) /\ Len(s) \in Nat OBVIOUS
<1>2. ASSUME p \in PathsOf(s) PROVE \E c : IsLeft(s, p, c)
  <2>1. At # {} BY <1>2 DEF PathsOf
  <2>2. \A i \in At : i \in 1 .. Len(s) /\ s[i].path = p BY <1>1
  <2>3. \A j \in DOMAIN s : s[j].path = p => j \in At OBVIOUS
  <2> HIDE DEF At
  <2>4. Behind \subseteq Nat /\ Behind # {} BY <1>1, <2>1, <2>2
  <2>5. \E n \in Behind : \A m \in Behind : n <= m
    <3> HIDE DEF Behind
    <3> QED BY <2>4, LeastNatural
  <2>6. PICK i \in At : \A m \in Behind : Len(s) - i <= m BY <2>5
  <2>7. ASSUME NEW j \in At PROVE j <= i
    <3>1. Len(s) - i <= Len(s) - j BY <2>6
    <3>2. i \in Int /\ j \in Int BY <2>2
    <3> QED BY <3>1, <3>2, <1>1
  <2>8. IsLeft(s, p, s[i].content) BY <2>2, <2>3, <2>7, <1>1 DEF IsLeft
  <2> QED BY <2>8
<1>3. \A c : IsLeft(s, p, c) => p \in PathsOf(s) BY DEF IsLeft, PathsOf
<1>4. ASSUME NEW c, NEW d, IsLeft(s, p, c), IsLeft(s, p, d) PROVE c = d
  <2>1. PICK i \in DOMAIN s : /\ s[i].path = p /\ s[i].content = c
                              /\ \A k \in DOMAIN s : s[k].path = p => k <= i
    BY <1>4 DEF IsLeft
  <2>2. PICK j \in DOMAIN s : /\ s[j].path = p /\ s[j].content = d
                              /\ \A k \in DOMAIN s : s[k].path = p => k <= j
    BY <1>4 DEF IsLeft
  <2>3. i <= j /\ j <= i BY <2>1, <2>2
  <2>4. i \in Int /\ j \in Int BY <1>1
  <2>5. i = j BY <2>3, <2>4
  <2> QED BY <2>1, <2>2, <2>5
<1> QED BY <1>2, <1>3, <1>4

\* Where only one of two parts writes, it decides.
LEMMA PartDecides ==
  ASSUME NEW s \in Seq(FileType), NEW t \in Seq(FileType), NEW p
  PROVE  /\ s \o t \in Seq(FileType)
         /\ PathsOf(s \o t) = PathsOf(s) \cup PathsOf(t)
         /\ p \notin PathsOf(t) => Decides(s, s \o t, p)
         /\ p \notin PathsOf(s) => Decides(t, s \o t, p)
<1> DEFINE u == s \o t
<1>1. IsAppended(u, s, t, FileType) BY Appended
<1> HIDE DEF u
<1>2. PathsOf(u) = PathsOf(s) \cup PathsOf(t)
  <2>1. ASSUME NEW i \in DOMAIN u PROVE u[i].path \in PathsOf(s) \cup PathsOf(t)
    BY <1>1 DEF IsAppended, PathsOf
  <2>2. \A i \in DOMAIN s : i \in DOMAIN u /\ u[i] = s[i] BY <1>1 DEF IsAppended
  <2>3. \A j \in DOMAIN t : Len(s) + j \in DOMAIN u /\ u[Len(s) + j] = t[j]
    BY <1>1 DEF IsAppended
  <2>4. PathsOf(s) \subseteq PathsOf(u) BY <2>2 DEF PathsOf
  <2>5. PathsOf(t) \subseteq PathsOf(u) BY <2>3 DEF PathsOf
  <2>6. PathsOf(u) \subseteq PathsOf(s) \cup PathsOf(t) BY <2>1 DEF PathsOf
  <2> QED BY <2>4, <2>5, <2>6
<1>3. ASSUME p \notin PathsOf(t) PROVE Decides(s, u, p)
  <2>1. \A j \in DOMAIN t : t[j].path # p BY <1>3 DEF PathsOf
  <2>2. ASSUME NEW i \in DOMAIN u, u[i].path = p PROVE i \in DOMAIN s /\ u[i] = s[i]
    BY <2>1, <2>2, <1>1 DEF IsAppended
  <2>3. \A i \in DOMAIN s : i \in DOMAIN u /\ u[i] = s[i] BY <1>1 DEF IsAppended
  <2>4. \A c : IsLeft(u, p, c) <=> IsLeft(s, p, c) BY <2>2, <2>3 DEF IsLeft
  <2> QED BY <1>2, <1>3, <2>4 DEF Decides
<1>4. ASSUME p \notin PathsOf(s) PROVE Decides(t, u, p)
  <2>1. \A i \in DOMAIN s : s[i].path # p BY <1>4 DEF PathsOf
  <2>2. ASSUME NEW i \in DOMAIN u, u[i].path = p
        PROVE  \E j \in DOMAIN t : i = Len(s) + j /\ u[i] = t[j]
    <3>1. i - Len(s) \in DOMAIN t /\ u[i] = t[i - Len(s)]
      BY <2>1, <2>2, <1>1 DEF IsAppended
    <3>2. i \in Int /\ Len(s) \in Int BY <1>1 DEF IsAppended
    <3>3. i = Len(s) + (i - Len(s)) BY <3>2
    <3> QED BY <3>1, <3>3
  <2>3. /\ \A j \in DOMAIN t : j \in Int /\ Len(s) + j \in DOMAIN u /\ u[Len(s) + j] = t[j]
        /\ Len(s) \in Int
    BY <1>1 DEF IsAppended
  <2>4. ASSUME NEW c, IsLeft(u, p, c) PROVE IsLeft(t, p, c)
    <3>1. PICK i \in DOMAIN u : /\ u[i].path = p /\ u[i].content = c
                                /\ \A k \in DOMAIN u : u[k].path = p => k <= i
      BY <2>4 DEF IsLeft
    <3>2. PICK j \in DOMAIN t : i = Len(s) + j /\ u[i] = t[j] BY <2>2, <3>1
    <3>3. ASSUME NEW k \in DOMAIN t, t[k].path = p PROVE k <= j
      <4>1. Len(s) + k <= Len(s) + j BY <2>3, <3>1, <3>2, <3>3
      <4> QED BY <4>1, <2>3
    <3> QED BY <3>1, <3>2, <3>3 DEF IsLeft
  <2>5. ASSUME NEW c, IsLeft(t, p, c) PROVE IsLeft(u, p, c)
    <3>1. PICK j \in DOMAIN t : /\ t[j].path = p /\ t[j].content = c
                                /\ \A k \in DOMAIN t : t[k].path = p => k <= j
      BY <2>5 DEF IsLeft
    <3>2. ASSUME NEW i \in DOMAIN u, u[i].path = p PROVE i <= Len(s) + j
      <4>1. PICK k \in DOMAIN t : i = Len(s) + k /\ u[i] = t[k] BY <2>2, <3>2
      <4>2. k <= j BY <3>1, <3>2, <4>1
      <4> QED BY <4>1, <4>2, <2>3
    <3>3. Len(s) + j \in DOMAIN u /\ u[Len(s) + j] = t[j] BY <2>3
    <3> QED BY <3>1, <3>2, <3>3 DEF IsLeft
  <2> QED BY <1>2, <1>4, <2>4, <2>5 DEF Decides
<1>5. u \in Seq(FileType) BY <1>1 DEF IsAppended
<1> QED BY <1>2, <1>3, <1>4, <1>5 DEF u

----------------------------------------------------------------------------

\* What the second part leaves at a path is what both leave there.
LEMMA LaterDecides ==
  ASSUME NEW s \in Seq(FileType), NEW t \in Seq(FileType), NEW p, NEW c, IsLeft(t, p, c)
  PROVE  IsLeft(s \o t, p, c)
<1> DEFINE u == s \o t
<1>1. IsAppended(u, s, t, FileType) BY Appended
<1> HIDE DEF u
<1>2. /\ Len(s) \in Nat /\ DOMAIN s = 1 .. Len(s) /\ DOMAIN t = 1 .. Len(t) /\ Len(t) \in Nat
      /\ DOMAIN u = 1 .. Len(u) /\ Len(u) \in Nat
      /\ \A i \in DOMAIN u : IF i <= Len(s) THEN i \in DOMAIN s /\ u[i] = s[i]
                             ELSE i - Len(s) \in DOMAIN t /\ u[i] = t[i - Len(s)]
      /\ \A j \in DOMAIN t : /\ Len(s) + j \in DOMAIN u /\ u[Len(s) + j] = t[j]
                             /\ Len(s) + j > Len(s)
  BY <1>1 DEF IsAppended
<1>3. PICK j \in DOMAIN t : /\ t[j].path = p /\ t[j].content = c
                            /\ \A k \in DOMAIN t : t[k].path = p => k <= j
  BY DEF IsLeft
<1>4. Len(s) + j \in DOMAIN u /\ u[Len(s) + j] = t[j] BY <1>2
<1>5. ASSUME NEW i \in DOMAIN u, u[i].path = p PROVE i <= Len(s) + j
  <2>1. i \in Nat /\ j \in Nat BY <1>2
  <2>2. CASE i <= Len(s) BY <2>1, <2>2, <1>2
  <2>3. CASE ~(i <= Len(s))
    <3>1. i - Len(s) \in DOMAIN t /\ t[i - Len(s)].path = p BY <2>3, <1>2, <1>5
    <3>2. i - Len(s) <= j BY <3>1, <1>3
    <3> QED BY <3>2, <2>1, <1>2
  <2> QED BY <2>2, <2>3
<1>6. IsLeft(u, p, c) BY <1>3, <1>4, <1>5 DEF IsLeft
<1> QED BY <1>6 DEF u

\* What one turn of a loop leaves at a path stays, when no later turn writes there.
LEMMA JoinedLeaves ==
  ASSUME NEW n \in Nat, NEW turns, DOMAIN turns = 1 .. n, turns = [k \in 1 .. n |-> turns[k]],
         \A k \in 1 .. n : turns[k] \in Seq(FileType),
         NEW p, NEW c, NEW k \in 1 .. n, IsLeft(turns[k], p, c),
         \A j \in 1 .. n : k < j => p \notin PathsOf(turns[j])
  PROVE  IsLeft(Joined(turns), p, c)
<1>1. PICK U : /\ Joined(turns) = U[n] /\ U[0] = <<>>
               /\ \A m \in 0 .. n - 1 : U[m + 1] = U[m] \o turns[m + 1]
               /\ \A m \in 0 .. n : U[m] \in Seq(FileType)
  <2>1. PICK U : Unfolds(U, turns, n, FileType) BY JoinedUnfolds
  <2> QED BY <2>1 DEF Unfolds
<1> DEFINE T == {m \in Nat : k + m <= n => IsLeft(U[k + m], p, c)}
<1>2. 0 \in T
  <2> DEFINE s == U[k - 1]
             t == turns[k]
  <2>1. k - 1 \in 0 .. n - 1 /\ k - 1 \in 0 .. n /\ (k - 1) + 1 = k /\ k + 0 = k OBVIOUS
  <2>2. U[k] = s \o t /\ s \in Seq(FileType) /\ t \in Seq(FileType) BY <1>1, <2>1
  <2>3. IsLeft(t, p, c) OBVIOUS
  <2> HIDE DEF s, t
  <2>4. IsLeft(s \o t, p, c) BY <2>2, <2>3, LaterDecides
  <2> QED BY <2>1, <2>2, <2>4
<1>3. ASSUME NEW m \in Nat, m \in T PROVE m + 1 \in T
  <2>1. SUFFICES ASSUME k + (m + 1) <= n PROVE IsLeft(U[k + (m + 1)], p, c) OBVIOUS
  <2> DEFINE s == U[k + m]
             t == turns[k + (m + 1)]
  <2>2. /\ k + m \in 0 .. n - 1 /\ k + m \in 0 .. n /\ k + m <= n /\ (k + m) + 1 = k + (m + 1)
        /\ k + (m + 1) \in 1 .. n /\ k < k + (m + 1)
    BY <2>1
  <2>3. U[k + (m + 1)] = s \o t /\ s \in Seq(FileType) /\ t \in Seq(FileType) BY <1>1, <2>2
  <2>4. IsLeft(s, p, c) BY <1>3, <2>2
  <2>5. p \notin PathsOf(t) BY <2>2
  <2> HIDE DEF s, t
  <2>6. Decides(s, s \o t, p) BY <2>3, <2>5, PartDecides
  <2> QED BY <2>3, <2>4, <2>6 DEF Decides
<1> HIDE DEF T
<1>4. Nat \subseteq T BY <1>2, <1>3, Inductive
<1>5. n - k \in Nat /\ k + (n - k) = n OBVIOUS
<1>6. IsLeft(U[k + (n - k)], p, c) BY <1>4, <1>5 DEF T
<1> QED BY <1>1, <1>5, <1>6

----------------------------------------------------------------------------

\* The files of the executable are those of its blocks and the list of them, under exe/; of two
\* blocks with one id the one behind the other has the file.
LEMMA ExeHas ==
  ASSUME NEW g \in Gens
  PROVE  /\ ExeFiles(g.exe) \in Seq(FileType)
         /\ \A i \in DOMAIN ExeFiles(g.exe) :
              \/ \E b \in g.exe : ExeFiles(g.exe)[i] = ExeFile(b)
              \/ ExeFiles(g.exe)[i] = File(Single("exe"), {Line(b, b.va) : b \in g.exe})
         /\ \A b \in g.exe : LastInExe(g.exe, b) =>
              IsLeft(ExeFiles(g.exe), <<"exe", b.id, 0>>, {Line(b, b.va)})
<1> DEFINE exe == g.exe
           va == [b \in exe |-> b.va]
           V == {b.va : b \in exe}
           n == Cardinality(V)
           vas == Rising(V)
           At(k) == CHOOSE b \in exe : b.va = vas[k]
           s == [k \in 1 .. n |-> ExeFile(At(k))]
           list == File(Single("exe"), {Line(b, b.va) : b \in exe})
           u == ExeFiles(exe)
<1>1. IsFiniteSet(exe) /\ \A b \in exe : b.id \in Nat /\ b.text \in Int /\ b.va \in Int
  BY Found, DecodeAssumption
<1>2. \A b, c \in exe : b.va = c.va => b = c BY DecodeAssumption
<1>3. IsFiniteSet(V) /\ V \subseteq Int
  <2>1. DOMAIN va = exe /\ {va[b] : b \in exe} = V OBVIOUS
  <2> HIDE DEF va, V
  <2>2. IsFiniteSet(V) BY <1>1, <2>1, FiniteImage
  <2> QED BY <2>2, <1>1 DEF V
<1>4. /\ n \in Nat /\ vas \in [1 .. n -> V] /\ \A v \in V : \E k \in 1 .. n : vas[k] = v
      /\ \A j, k \in 1 .. n : j < k => vas[j] < vas[k]
  <2> HIDE DEF V
  <2> QED BY <1>3, RisingIsAll
<1>5. u = s \o <<list>>
  <2>1. DOMAIN vas = 1 .. n BY <1>4
  <2> QED BY <2>1 DEF ExeFiles
<1> HIDE DEF vas, n, u
<1>6. ASSUME NEW k \in 1 .. n PROVE At(k) \in exe /\ At(k).va = vas[k]
  <2>1. \E b \in exe : b.va = vas[k] BY <1>4
  <2> QED BY <2>1
<1>7. ASSUME NEW b \in exe PROVE ExeFile(b) \in FileType
  <2>1. "exe" \in Dirs /\ 0 \in Nat BY DEF Dirs
  <2>2. File(<<"exe", b.id, 0>>, {<<b.id, b.text, b.va>>}) \in FileType BY <2>1, <1>1, FileTyped
  <2> QED BY <2>2 DEF ExeFile, Line
<1>8. \A k \in 1 .. n : s[k] = ExeFile(At(k)) OBVIOUS
<1>9. s \in Seq(FileType) /\ DOMAIN s = 1 .. n
  <2> HIDE DEF At
  <2>1. \A k \in 1 .. n : ExeFile(At(k)) \in FileType BY <1>6, <1>7
  <2>2. s \in [1 .. n -> FileType] BY <2>1
  <2> HIDE DEF s
  <2> QED BY <2>2, <1>4
<1>10. list \in FileType BY ListTyped
<1> HIDE DEF At, s, list
<1> DEFINE t == <<list>>
<1>11. t \in Seq(FileType) /\ DOMAIN t = {1} /\ t[1] = list /\ u = s \o t BY <1>5, <1>10
<1> HIDE DEF t
<1>12. /\ u \in Seq(FileType)
       /\ \A i \in DOMAIN u : (i \in DOMAIN s /\ u[i] = s[i])
                               \/ (i - Len(s) \in DOMAIN t /\ u[i] = t[i - Len(s)])
  <2>1. IsAppended(s \o t, s, t, FileType) BY <1>9, <1>11, Appended
  <2>2. IsAppended(u, s, t, FileType) BY <2>1, <1>11
  <2> QED BY <2>2 DEF IsAppended
<1>13. ASSUME NEW i \in DOMAIN u PROVE (\E b \in exe : u[i] = ExeFile(b)) \/ u[i] = list
  <2>1. CASE i \in DOMAIN s /\ u[i] = s[i] BY <2>1, <1>6, <1>8, <1>9
  <2>2. CASE i - Len(s) \in DOMAIN t /\ u[i] = t[i - Len(s)] BY <2>2, <1>11
  <2> QED BY <2>1, <2>2, <1>12
<1>14. ASSUME NEW b \in exe, LastInExe(exe, b)
       PROVE  IsLeft(u, <<"exe", b.id, 0>>, {Line(b, b.va)})
  <2> DEFINE p == <<"exe", b.id, 0>>
             c == {Line(b, b.va)}
  <2>1. \A d \in exe : ExeFile(d).path = <<"exe", d.id, 0>> /\ ExeFile(d).content = {Line(d, d.va)}
    BY DEF ExeFile, File
  <2>2. b.va \in V OBVIOUS
  <2>3. PICK k \in 1 .. n : vas[k] = b.va
    <3> HIDE DEF V
    <3> QED BY <2>2, <1>4
  <2>4. At(k) = b BY <2>3, <1>2, <1>6
  <2>5. s[k].path = p /\ s[k].content = c /\ k \in DOMAIN s BY <2>1, <2>4, <1>8, <1>9
  <2>6. ASSUME NEW j \in DOMAIN s, s[j].path = p PROVE j <= k
    <3>1. j \in 1 .. n /\ At(j) \in exe /\ At(j).va = vas[j] BY <1>6, <1>9
    <3>2. s[j].path = <<"exe", At(j).id, 0>> BY <2>1, <3>1, <1>8
    <3>3. At(j).id = b.id BY <2>6, <3>2
    <3>4. vas[j] <= vas[k] BY <1>14, <2>3, <3>1, <3>3 DEF LastInExe, OfId
    <3>5. vas[j] \in Int /\ vas[k] \in Int
      <4> HIDE DEF V
      <4> QED BY <3>1, <1>3, <1>4
    <3>6. ~(k < j) BY <3>1, <3>4, <3>5, <1>4
    <3> QED BY <3>1, <3>6, <1>4
  <2>7. p \notin PathsOf(t)
    <3>1. list.path = <<"exe", 0, 0>> BY DEF list, File, Single
    <3>2. b.id # 0 BY DecodeAssumption
    <3> QED BY <3>1, <3>2, <1>11 DEF PathsOf
  <2> HIDE DEF p, c
  <2>8. IsLeft(s, p, c) BY <2>5, <2>6 DEF IsLeft
  <2>9. Decides(s, s \o t, p) BY <2>7, <1>9, <1>11, PartDecides
  <2>10. IsLeft(u, p, c) BY <2>8, <2>9, <1>11 DEF Decides
  <2> QED BY <2>10 DEF p, c
<1> QED BY <1>12, <1>13, <1>14 DEF u, list

\* The file of an overlay block in one of the two directories that have one for each.
OverlayFile(dir, b) == File(<<dir, b.id, 0>>, {Line(b, b.site)})

\* The files of one block of the overlays.
LEMMA OverlayBlockHas ==
  ASSUME NEW g \in Gens, NEW b \in g.overlay, NEW f, f = OverlayBlockFiles(b)
  PROVE  /\ f \in Seq(FileType)
         /\ \A i \in DOMAIN f : \E dir \in OverlayDirs : f[i] = OverlayFile(dir, b)
         /\ IsLeft(f, <<"overlay", b.id, 0>>, {Line(b, b.site)})
<1> DEFINE x == OverlayFile("overlay", b)
           y == OverlayFile("overlay/dictionaries", b)
           p == <<"overlay", b.id, 0>>
<1>1. b.id \in Nat /\ b.text \in Int /\ b.site \in Int BY Found, DecodeAssumption
<1>2. x \in FileType /\ y \in FileType
  <2>1. "overlay" \in Dirs /\ "overlay/dictionaries" \in Dirs /\ 0 \in Nat BY DEF Dirs
  <2>2. /\ x = File(<<"overlay", b.id, 0>>, {<<b.id, b.text, b.site>>})
        /\ y = File(<<"overlay/dictionaries", b.id, 0>>, {<<b.id, b.text, b.site>>})
    BY DEF OverlayFile, Line
  <2> HIDE DEF x, y
  <2> QED BY <1>1, <2>1, <2>2, FileTyped
<1>3. f = <<x>> \o (IF b.dict THEN <<y>> ELSE <<>>)
  BY DEF OverlayBlockFiles, OverlayFile
<1>4. \E t \in BOOLEAN : f = <<x>> \o (IF t THEN <<y>> ELSE <<>>)
  <2> HIDE DEF x, y
  <2>1. CASE b.dict BY <1>3, <2>1
  <2>2. CASE ~b.dict BY <1>3, <2>2
  <2> QED BY <2>1, <2>2
<1>5. f \in Seq(FileType) /\ 1 \in DOMAIN f /\ f[1] = x /\ \A i \in DOMAIN f : f[i] \in {x, y}
  <2> HIDE DEF x, y
  <2> QED BY <1>2, <1>4, OneOrTwo
<1>6. \E dir \in OverlayDirs : x = OverlayFile(dir, b) BY DEF OverlayDirs
<1>7. \E dir \in OverlayDirs : y = OverlayFile(dir, b) BY DEF OverlayDirs
<1>8. x.path = p /\ x.content = {Line(b, b.site)} /\ y.path # p BY DEF OverlayFile, File
<1> HIDE DEF x, y, p
<1>9. IsLeft(f, p, {Line(b, b.site)})
  <2>1. p \in PathsOf(f) BY <1>5, <1>8 DEF PathsOf
  <2>2. PICK c : IsLeft(f, p, c) BY <2>1, <1>5, OneIsLeft
  <2>3. PICK i \in DOMAIN f : f[i].path = p /\ f[i].content = c BY <2>2 DEF IsLeft
  <2>4. f[i] = x BY <2>3, <1>5, <1>8
  <2> QED BY <2>2, <2>3, <2>4, <1>8
<1> QED BY <1>5, <1>6, <1>7, <1>9 DEF p

\* The files of the blocks of one id.
LEMMA OverlayIdHas ==
  ASSUME NEW g \in Gens, NEW id \in Ids(g.overlay), NEW q, q = OverlayIdFiles(g.overlay, id)
  PROVE  /\ q \in Seq(FileType)
         /\ \A i \in DOMAIN q : \E dir \in OverlayDirs, b \in OfId(g.overlay, id) :
              q[i] = OverlayFile(dir, b)
         /\ \A b \in OfId(g.overlay, id) : LastInOverlays(g.overlay, b) =>
              IsLeft(q, <<"overlay", b.id, 0>>, {Line(b, b.site)})
<1> DEFINE overlay == g.overlay
           B == OfId(overlay, id)
           site == [b \in B |-> b.site]
           V == {b.site : b \in B}
           n == Cardinality(V)
           sites == Rising(V)
           At(k) == CHOOSE b \in B : b.site = sites[k]
           parts == [k \in 1 .. n |-> OverlayBlockFiles(At(k))]
<1>1. IsFiniteSet(B) /\ B \subseteq overlay /\ \A b \in overlay : b.site \in Int
  BY Found, DecodeAssumption
<1>2. \A b, c \in B : b.site = c.site => b = c BY <1>1, DecodeAssumption
<1>3. IsFiniteSet(V) /\ V \subseteq Int
  <2>1. DOMAIN site = B /\ {site[b] : b \in B} = V OBVIOUS
  <2>2. V \subseteq Int BY <1>1
  <2> HIDE DEF site, V, B
  <2>3. IsFiniteSet(V) BY <1>1, <2>1, FiniteImage
  <2> QED BY <2>2, <2>3
<1>4. /\ n \in Nat /\ sites \in [1 .. n -> V] /\ \A v \in V : \E k \in 1 .. n : sites[k] = v
      /\ \A j, k \in 1 .. n : j < k => sites[j] < sites[k]
  <2> HIDE DEF V
  <2> QED BY <1>3, RisingIsAll
<1>5. q = Joined(parts)
  <2>1. DOMAIN sites = 1 .. n BY <1>4
  <2> QED BY <2>1 DEF OverlayIdFiles
<1>6. \A b \in B : b.id = id BY DEF OfId
<1> HIDE DEF sites, n, B
<1>7. ASSUME NEW k \in 1 .. n PROVE At(k) \in B /\ At(k).site = sites[k]
  <2>1. \E b \in B : b.site = sites[k] BY <1>4
  <2> QED BY <2>1
<1>8. \A k \in 1 .. n : parts[k] = OverlayBlockFiles(At(k)) OBVIOUS
<1>9. DOMAIN parts = 1 .. n /\ parts = [k \in 1 .. n |-> parts[k]] OBVIOUS
<1> HIDE DEF At, parts
<1>10. \A k \in 1 .. n :
         /\ parts[k] \in Seq(FileType)
         /\ \A i \in DOMAIN parts[k] : \E dir \in OverlayDirs : parts[k][i] = OverlayFile(dir, At(k))
         /\ IsLeft(parts[k], <<"overlay", At(k).id, 0>>, {Line(At(k), At(k).site)})
  BY <1>1, <1>7, <1>8, OverlayBlockHas
<1>11. /\ q \in Seq(FileType)
       /\ \A i \in DOMAIN q : \E k \in 1 .. n : \E j \in DOMAIN parts[k] : q[i] = parts[k][j]
  <2>1. IsJoined(Joined(parts), parts, n, FileType) BY <1>4, <1>9, <1>10, JoinedIsAll
  <2> QED BY <2>1, <1>5 DEF IsJoined
<1>12. ASSUME NEW i \in DOMAIN q
       PROVE  \E dir \in OverlayDirs, b \in B : q[i] = OverlayFile(dir, b)
  <2>1. PICK k \in 1 .. n : \E j \in DOMAIN parts[k] : q[i] = parts[k][j] BY <1>11
  <2>2. PICK dir \in OverlayDirs : q[i] = OverlayFile(dir, At(k)) BY <2>1, <1>10
  <2> QED BY <2>2, <1>7
<1>13. ASSUME NEW b \in B, LastInOverlays(overlay, b)
       PROVE  IsLeft(q, <<"overlay", b.id, 0>>, {Line(b, b.site)})
  <2> DEFINE p == <<"overlay", b.id, 0>>
             c == {Line(b, b.site)}
  <2>1. b.site \in V OBVIOUS
  <2>2. PICK k \in 1 .. n : sites[k] = b.site
    <3> HIDE DEF V
    <3> QED BY <2>1, <1>4
  <2>3. At(k) = b BY <2>2, <1>2, <1>7
  <2>4. IsLeft(parts[k], p, c) BY <2>3, <1>10
  <2>5. ASSUME NEW j \in 1 .. n, k < j PROVE FALSE
    <3>1. sites[k] < sites[j] BY <2>5, <1>4
    <3>2. At(j) \in B /\ At(j).site = sites[j] BY <1>7
    <3>3. B = OfId(overlay, b.id) BY <1>6 DEF B
    <3>4. sites[j] <= sites[k] BY <1>13, <2>2, <3>2, <3>3 DEF LastInOverlays
    <3>5. sites[j] \in Int /\ sites[k] \in Int BY <1>1, <1>7, <2>2, <3>2
    <3> QED BY <3>1, <3>4, <3>5
  <2> HIDE DEF p, c
  <2>6. IsLeft(Joined(parts), p, c) BY <1>4, <1>9, <1>10, <2>4, <2>5, JoinedLeaves
  <2> QED BY <2>6, <1>5 DEF p, c
<1> QED BY <1>11, <1>12, <1>13 DEF B

\* The files of the overlays are those of their blocks and the list of them; of two blocks with
\* one id the one behind the other has the file.
LEMMA OverlayHas ==
  ASSUME NEW g \in Gens
  PROVE  /\ OverlayFiles(g.overlay) \in Seq(FileType)
         /\ \A i \in DOMAIN OverlayFiles(g.overlay) :
              \/ \E dir \in OverlayDirs, b \in g.overlay :
                   OverlayFiles(g.overlay)[i] = OverlayFile(dir, b)
              \/ OverlayFiles(g.overlay)[i]
                   = File(Single("overlay"), {Line(b, b.site) : b \in g.overlay})
         /\ \A b \in g.overlay : LastInOverlays(g.overlay, b) =>
              IsLeft(OverlayFiles(g.overlay), <<"overlay", b.id, 0>>, {Line(b, b.site)})
<1> DEFINE overlay == g.overlay
           n == Cardinality(Ids(overlay))
           ids == Rising(Ids(overlay))
           turns == [k \in 1 .. n |-> OverlayIdFiles(overlay, ids[k])]
           list == File(Single("overlay"), {Line(b, b.site) : b \in overlay})
           s == Joined(turns)
           u == OverlayFiles(overlay)
<1>1. /\ n \in Nat /\ ids \in [1 .. n -> Ids(overlay)] /\ Ids(overlay) \subseteq Nat
      /\ \A id \in Ids(overlay) : \E k \in 1 .. n : ids[k] = id
      /\ \A j, k \in 1 .. n : ids[j] = ids[k] => j = k
  <2>1. IsFiniteSet(Ids(overlay)) /\ Ids(overlay) \subseteq Nat BY Found
  <2>2. Ids(overlay) \subseteq Int BY <2>1
  <2> QED BY <2>1, <2>2, RisingIsAll
<1>2. u = s \o <<list>>
  <2>1. DOMAIN ids = 1 .. n BY <1>1
  <2> QED BY <2>1 DEF OverlayFiles
<1>3. \A k \in 1 .. n : turns[k] = OverlayIdFiles(overlay, ids[k]) /\ ids[k] \in Ids(overlay)
  BY <1>1
<1>4. DOMAIN turns = 1 .. n /\ turns = [k \in 1 .. n |-> turns[k]] OBVIOUS
<1> HIDE DEF ids, turns, n
<1>5. \A k \in 1 .. n :
        /\ turns[k] \in Seq(FileType)
        /\ \A i \in DOMAIN turns[k] : \E dir \in OverlayDirs, b \in OfId(overlay, ids[k]) :
             turns[k][i] = OverlayFile(dir, b)
        /\ \A b \in OfId(overlay, ids[k]) : LastInOverlays(overlay, b) =>
             IsLeft(turns[k], <<"overlay", b.id, 0>>, {Line(b, b.site)})
  BY <1>3, OverlayIdHas
<1>6. IsJoined(s, turns, n, FileType) BY <1>1, <1>4, <1>5, JoinedIsAll
<1> DEFINE t == <<list>>
<1>7. t \in Seq(FileType) /\ DOMAIN t = {1} /\ t[1] = list /\ u = s \o t
  <2>1. list \in FileType BY ListTyped
  <2> HIDE DEF list, s, u
  <2> QED BY <2>1, <1>2
<1>8. ASSUME NEW b \in overlay, LastInOverlays(overlay, b)
      PROVE  IsLeft(s, <<"overlay", b.id, 0>>, {Line(b, b.site)})
  <2> DEFINE p == <<"overlay", b.id, 0>>
             c == {Line(b, b.site)}
  <2>1. b.id \in Ids(overlay) /\ b \in OfId(overlay, b.id) BY DEF Ids, OfId
  <2>2. PICK k \in 1 .. n : ids[k] = b.id BY <2>1, <1>1
  <2>3. IsLeft(turns[k], p, c) BY <1>5, <1>8, <2>1, <2>2
  <2>4. ASSUME NEW j \in 1 .. n, k < j PROVE p \notin PathsOf(turns[j])
    <3>1. ids[j] # b.id BY <2>2, <2>4, <1>1
    <3>2. ASSUME NEW i \in DOMAIN turns[j] PROVE turns[j][i].path[2] # b.id
      <4>1. PICK dir \in OverlayDirs, d \in OfId(overlay, ids[j]) : turns[j][i] = OverlayFile(dir, d)
        BY <1>5
      <4>2. turns[j][i].path[2] = d.id BY <4>1 DEF OverlayFile, File
      <4>3. d.id = ids[j] BY DEF OfId
      <4> QED BY <4>2, <4>3, <3>1
    <3> QED BY <3>2 DEF PathsOf
  <2> HIDE DEF p, c
  <2>5. IsLeft(Joined(turns), p, c) BY <1>1, <1>4, <1>5, <2>3, <2>4, JoinedLeaves
  <2> QED BY <2>5 DEF p, c
<1> HIDE DEF s, t, u
<1>9. s \in Seq(FileType) BY <1>6 DEF IsJoined
<1>10. /\ u \in Seq(FileType)
       /\ \A i \in DOMAIN u : (i \in DOMAIN s /\ u[i] = s[i])
                               \/ (i - Len(s) \in DOMAIN t /\ u[i] = t[i - Len(s)])
  <2> HIDE DEF list
  <2>1. IsAppended(s \o t, s, t, FileType) BY <1>7, <1>9, Appended
  <2>2. IsAppended(u, s, t, FileType) BY <2>1, <1>7
  <2> QED BY <2>2 DEF IsAppended
<1>11. ASSUME NEW i \in DOMAIN u
       PROVE  (\E dir \in OverlayDirs, b \in overlay : u[i] = OverlayFile(dir, b)) \/ u[i] = list
  <2> HIDE DEF list
  <2>1. CASE i \in DOMAIN s /\ u[i] = s[i]
    <3>1. PICK k \in 1 .. n : \E j \in DOMAIN turns[k] : s[i] = turns[k][j]
      BY <2>1, <1>6 DEF IsJoined
    <3>2. PICK dir \in OverlayDirs, b \in OfId(overlay, ids[k]) : s[i] = OverlayFile(dir, b)
      BY <3>1, <1>5
    <3>3. b \in overlay BY DEF OfId
    <3> QED BY <2>1, <3>2, <3>3
  <2>2. CASE i - Len(s) \in DOMAIN t /\ u[i] = t[i - Len(s)] BY <2>2, <1>7
  <2> QED BY <2>1, <2>2, <1>10
<1>12. ASSUME NEW b \in overlay, LastInOverlays(overlay, b)
       PROVE  IsLeft(u, <<"overlay", b.id, 0>>, {Line(b, b.site)})
  <2> DEFINE p == <<"overlay", b.id, 0>>
             c == {Line(b, b.site)}
  <2>1. p \notin PathsOf(t)
    <3>1. list.path = <<"overlay", 0, 0>> BY DEF File, Single
    <3>2. b.id # 0 BY DecodeAssumption
    <3> HIDE DEF list
    <3> QED BY <3>1, <3>2, <1>7 DEF PathsOf
  <2>2. IsLeft(s, p, c) BY <1>8, <1>12
  <2> HIDE DEF p, c
  <2>3. Decides(s, s \o t, p) BY <2>1, <1>7, <1>9, PartDecides
  <2>4. IsLeft(u, p, c) BY <2>2, <2>3, <1>7 DEF Decides
  <2> QED BY <2>4 DEF p, c
<1> QED BY <1>10, <1>11, <1>12 DEF u, list

----------------------------------------------------------------------------

\* One of the blocks with an id is the last that is found.
LEMMA OneIsLast ==
  ASSUME NEW g \in Gens
  PROVE  /\ \A b \in g.exe : \E d \in OfId(g.exe, b.id) : LastInExe(g.exe, d)
         /\ \A b \in g.overlay : \E d \in OfId(g.overlay, b.id) : LastInOverlays(g.overlay, d)
<1>1. /\ \A b \in g.exe : b.va \in Int
      /\ \A b \in g.overlay : b.site \in Int
  BY DecodeAssumption
<1>2. ASSUME NEW b \in g.exe PROVE \E d \in OfId(g.exe, b.id) : LastInExe(g.exe, d)
  <2> DEFINE B == OfId(g.exe, b.id)
             f == [d \in B |-> d.va]
             V == {f[d] : d \in B}
  <2>1. IsFiniteSet(B) /\ B \subseteq g.exe BY Found
  <2>2. b \in B /\ \A d \in B : d.id = b.id BY DEF OfId
  <2>3. DOMAIN f = B /\ \A d \in B : f[d] = d.va OBVIOUS
  <2> HIDE DEF f, B
  <2>4. IsFiniteSet(V) BY <2>1, <2>3, FiniteImage
  <2>5. V \subseteq Int /\ V # {} BY <1>1, <2>1, <2>2, <2>3
  <2>6. PICK v \in V : \A y \in V : y <= v
    <3> HIDE DEF V
    <3> QED BY <2>4, <2>5, Greatest
  <2>7. PICK d \in B : v = d.va BY <2>3
  <2>8. \A c \in B : c.va <= d.va BY <2>3, <2>6, <2>7
  <2>9. OfId(g.exe, d.id) = B BY <2>2 DEF B
  <2> QED BY <2>8, <2>9 DEF LastInExe, B
<1>3. ASSUME NEW b \in g.overlay PROVE \E d \in OfId(g.overlay, b.id) : LastInOverlays(g.overlay, d)
  <2> DEFINE B == OfId(g.overlay, b.id)
             f == [d \in B |-> d.site]
             V == {f[d] : d \in B}
  <2>1. IsFiniteSet(B) /\ B \subseteq g.overlay BY Found
  <2>2. b \in B /\ \A d \in B : d.id = b.id BY DEF OfId
  <2>3. DOMAIN f = B /\ \A d \in B : f[d] = d.site OBVIOUS
  <2> HIDE DEF f, B
  <2>4. IsFiniteSet(V) BY <2>1, <2>3, FiniteImage
  <2>5. V \subseteq Int /\ V # {} BY <1>1, <2>1, <2>2, <2>3
  <2>6. PICK v \in V : \A y \in V : y <= v
    <3> HIDE DEF V
    <3> QED BY <2>4, <2>5, Greatest
  <2>7. PICK d \in B : v = d.site BY <2>3
  <2>8. \A c \in B : c.site <= d.site BY <2>3, <2>6, <2>7
  <2>9. OfId(g.overlay, d.id) = B BY <2>2 DEF B
  <2> QED BY <2>8, <2>9 DEF LastInOverlays, B
<1> QED BY <1>2, <1>3

\* What is listed of the archive, and of all three populations.
LEMMA RestTyped ==
  ASSUME NEW g \in Gens
  PROVE  /\ IndexFile(g.archive) \in FileType /\ SectorTable(g.archive, g.table) \in FileType
         /\ SideBySide(g) \in FileType
         /\ IndexFile(g.archive).path = Single("index")
         /\ SectorTable(g.archive, g.table).path = Single("sectortable")
         /\ SideBySide(g).path = Single("side-by-side")
<1>1. /\ Single("index") \in Path /\ Single("sectortable") \in Path
      /\ Single("side-by-side") \in Path
  BY FixedFiles DEF Dirs
<1>2. /\ \A b \in g.archive : b.id \in Int /\ b.text \in Int
      /\ \A b \in g.exe : b.id \in Int /\ b.text \in Int
      /\ \A b \in g.overlay : b.id \in Int /\ b.text \in Int
  BY Found
<1>3. /\ \A m \in g.archive : Line(m, m.sector) \in Int \X Int \X Int
      /\ \A b \in g.exe : Line(b, b.va) \in Int \X Int \X Int
      /\ \A b \in g.overlay : Line(b, b.site) \in Int \X Int \X Int
      /\ <<0, 0, g.table>> \in Int \X Int \X Int
  BY <1>2, DecodeAssumption DEF Line
<1>4. Stored(g.archive) \subseteq g.archive
  <2>1. ASSUME NEW m \in g.archive PROVE Spokesman(g.archive, m.id, m.text) \in g.archive
    <3>1. m.id \in Ids(g.archive) /\ m.text \in Texts(g.archive, m.id)
      BY DEF Ids, Texts, OfId
    <3> QED BY <3>1, SpokesmanIsCopy
  <2> QED BY <2>1 DEF Stored
<1>5. Sectors(g.archive) \in Content BY <1>3 DEF Sectors, Content
<1>6. Sectors(g.archive) \cup {<<0, 0, g.table>>} \in Content BY <1>3, <1>5 DEF Content
<1>7. {Line(m, m.sector) : m \in Stored(g.archive)} \cup {Line(b, b.va) : b \in g.exe}
        \cup {Line(b, b.site) : b \in g.overlay} \in Content
  <2>1. {Line(m, m.sector) : m \in Stored(g.archive)} \in Content BY <1>3, <1>4 DEF Content
  <2>2. {Line(b, b.va) : b \in g.exe} \in Content BY <1>3 DEF Content
  <2>3. {Line(b, b.site) : b \in g.overlay} \in Content BY <1>3 DEF Content
  <2> QED BY <2>1, <2>2, <2>3 DEF Content
<1> QED BY <1>1, <1>5, <1>6, <1>7 DEF IndexFile, SectorTable, SideBySide, File, FileType

\* The directories of the parts of a decode.
ArchiveDirs == {"raw", "dictionaries"}

\* Each part of a decode has directories of its own, and decides what is left there.
LEMMA TreeParts ==
  ASSUME NEW g \in Gens, NEW p
  PROVE  /\ TreeOf(g) \in Seq(FileType)
         /\ \A q \in PathsOf(ArchiveFiles(g.archive)) : q[1] \in ArchiveDirs
         /\ \A q \in PathsOf(ExeFiles(g.exe)) : q[1] \in ExeDirs
         /\ \A q \in PathsOf(OverlayFiles(g.overlay)) : q[1] \in OverlayDirs
         /\ PathsOf(TreeOf(g)) =
              PathsOf(ArchiveFiles(g.archive)) \cup {Single("index"), Single("sectortable")}
                \cup PathsOf(ExeFiles(g.exe)) \cup PathsOf(OverlayFiles(g.overlay))
                \cup {Single("side-by-side")}
         /\ p[1] \in ArchiveDirs => Decides(ArchiveFiles(g.archive), TreeOf(g), p)
         /\ p[1] \in ExeDirs => Decides(ExeFiles(g.exe), TreeOf(g), p)
         /\ p[1] \in OverlayDirs => Decides(OverlayFiles(g.overlay), TreeOf(g), p)
         /\ IsLeft(TreeOf(g), Single("index"), Sectors(g.archive))
<1> DEFINE A == ArchiveFiles(g.archive)
           I == IndexFile(g.archive)
           T == SectorTable(g.archive, g.table)
           M == <<I, T>>
           E == ExeFiles(g.exe)
           O == OverlayFiles(g.overlay)
           B == SideBySide(g)
           X == <<B>>
           AM == A \o M
           AE == AM \o E
           AO == AE \o O
           U == AO \o X
<1>1. U = TreeOf(g) BY DEF TreeOf
<1>2. A \in Seq(FileType) /\ E \in Seq(FileType) /\ O \in Seq(FileType)
  BY ArchiveHas, ExeHas, OverlayHas
<1>3. /\ I \in FileType /\ T \in FileType /\ B \in FileType
      /\ I.path = Single("index") /\ T.path = Single("sectortable")
      /\ B.path = Single("side-by-side")
  BY RestTyped
<1>4. I.content = Sectors(g.archive) BY DEF IndexFile, File
<1>5. \A q \in PathsOf(A) : q[1] \in ArchiveDirs
  <2>1. ASSUME NEW i \in DOMAIN A PROVE A[i].path[1] \in ArchiveDirs
    <3>1. PICK dir \in ArchiveDirs, id \in Ids(g.archive) :
            \E text \in Texts(g.archive, id) : A[i] = TextFile(g.archive, dir, id, text)
      BY ArchiveHas DEF ArchiveDirs
    <3> QED BY <3>1 DEF TextFile, File
  <2> QED BY <2>1 DEF PathsOf
<1>6. \A q \in PathsOf(E) : q[1] \in ExeDirs
  <2>1. ASSUME NEW i \in DOMAIN E PROVE E[i].path[1] = "exe"
    <3>1. \/ \E b \in g.exe : E[i] = ExeFile(b)
          \/ E[i] = File(Single("exe"), {Line(b, b.va) : b \in g.exe})
      BY ExeHas
    <3>2. ASSUME NEW b \in g.exe PROVE ExeFile(b).path[1] = "exe" BY DEF ExeFile, File
    <3>3. ASSUME NEW c PROVE File(Single("exe"), c).path[1] = "exe" BY DEF File, Single
    <3> QED BY <3>1, <3>2, <3>3
  <2> QED BY <2>1 DEF PathsOf, ExeDirs
<1>7. \A q \in PathsOf(O) : q[1] \in OverlayDirs
  <2>1. ASSUME NEW i \in DOMAIN O PROVE O[i].path[1] \in OverlayDirs
    <3>1. \/ \E dir \in OverlayDirs, b \in g.overlay : O[i] = OverlayFile(dir, b)
          \/ O[i] = File(Single("overlay"), {Line(b, b.site) : b \in g.overlay})
      BY OverlayHas DEF OverlayDirs
    <3>2. ASSUME NEW dir \in OverlayDirs, NEW b \in g.overlay
          PROVE  OverlayFile(dir, b).path[1] = dir
      BY DEF OverlayFile, File
    <3>3. ASSUME NEW c PROVE File(Single("overlay"), c).path[1] = "overlay" BY DEF File, Single
    <3>4. "overlay" \in OverlayDirs BY DEF OverlayDirs
    <3> QED BY <3>1, <3>2, <3>3, <3>4
  <2> QED BY <2>1 DEF PathsOf
<1> HIDE DEF A, I, T, E, O, B
<1>8. /\ M \in Seq(FileType) /\ X \in Seq(FileType)
      /\ DOMAIN M = {1, 2} /\ M[1] = I /\ M[2] = T /\ DOMAIN X = {1} /\ X[1] = B
  BY <1>3
<1> HIDE DEF M, X
<1>9. /\ PathsOf(M) = {Single("index"), Single("sectortable")}
      /\ PathsOf(X) = {Single("side-by-side")}
  BY <1>3, <1>8 DEF PathsOf
<1>10. /\ Single("index")[1] = "index" /\ Single("sectortable")[1] = "sectortable"
       /\ Single("side-by-side")[1] = "side-by-side"
  BY DEF Single
<1>11. ASSUME NEW q
       PROVE  /\ AM \in Seq(FileType) /\ PathsOf(AM) = PathsOf(A) \cup PathsOf(M)
              /\ q \notin PathsOf(M) => Decides(A, AM, q)
              /\ q \notin PathsOf(A) => Decides(M, AM, q)
  BY <1>2, <1>8, PartDecides
<1> HIDE DEF AM
<1>12. ASSUME NEW q
       PROVE  /\ AE \in Seq(FileType) /\ PathsOf(AE) = PathsOf(AM) \cup PathsOf(E)
              /\ q \notin PathsOf(E) => Decides(AM, AE, q)
              /\ q \notin PathsOf(AM) => Decides(E, AE, q)
  BY <1>2, <1>11, PartDecides
<1> HIDE DEF AE
<1>13. ASSUME NEW q
       PROVE  /\ AO \in Seq(FileType) /\ PathsOf(AO) = PathsOf(AE) \cup PathsOf(O)
              /\ q \notin PathsOf(O) => Decides(AE, AO, q)
              /\ q \notin PathsOf(AE) => Decides(O, AO, q)
  BY <1>2, <1>12, PartDecides
<1> HIDE DEF AO
<1>14. ASSUME NEW q
       PROVE  /\ U \in Seq(FileType) /\ PathsOf(U) = PathsOf(AO) \cup PathsOf(X)
              /\ q \notin PathsOf(X) => Decides(AO, U, q)
              /\ q \notin PathsOf(AO) => Decides(X, U, q)
  BY <1>8, <1>13, PartDecides
<1> HIDE DEF U
<1>15. /\ PathsOf(AM) = PathsOf(A) \cup PathsOf(M) /\ PathsOf(AE) = PathsOf(AM) \cup PathsOf(E)
       /\ PathsOf(AO) = PathsOf(AE) \cup PathsOf(O) /\ PathsOf(U) = PathsOf(AO) \cup PathsOf(X)
  BY <1>11, <1>12, <1>13, <1>14
<1>16. ASSUME p[1] \in ArchiveDirs PROVE Decides(A, U, p)
  <2>1. p \notin PathsOf(M) /\ p \notin PathsOf(E) /\ p \notin PathsOf(O) /\ p \notin PathsOf(X)
    BY <1>6, <1>7, <1>9, <1>10, <1>16 DEF ArchiveDirs, ExeDirs, OverlayDirs
  <2>2. Decides(A, AM, p) /\ Decides(AM, AE, p) /\ Decides(AE, AO, p) /\ Decides(AO, U, p)
    BY <2>1, <1>11, <1>12, <1>13, <1>14
  <2> QED BY <2>2 DEF Decides
<1>17. ASSUME p[1] \in ExeDirs PROVE Decides(E, U, p)
  <2>1. p \notin PathsOf(M) /\ p \notin PathsOf(A) /\ p \notin PathsOf(O) /\ p \notin PathsOf(X)
    BY <1>5, <1>7, <1>9, <1>10, <1>17 DEF ArchiveDirs, ExeDirs, OverlayDirs
  <2>2. p \notin PathsOf(AM) BY <2>1, <1>15
  <2>3. Decides(E, AE, p) /\ Decides(AE, AO, p) /\ Decides(AO, U, p)
    BY <2>1, <2>2, <1>12, <1>13, <1>14
  <2> QED BY <2>3 DEF Decides
<1>18. ASSUME p[1] \in OverlayDirs PROVE Decides(O, U, p)
  <2>1. p \notin PathsOf(M) /\ p \notin PathsOf(A) /\ p \notin PathsOf(E) /\ p \notin PathsOf(X)
    BY <1>5, <1>6, <1>9, <1>10, <1>18 DEF ArchiveDirs, ExeDirs, OverlayDirs
  <2>2. p \notin PathsOf(AE) BY <2>1, <1>15
  <2>3. Decides(O, AO, p) /\ Decides(AO, U, p) BY <2>1, <2>2, <1>13, <1>14
  <2> QED BY <2>3 DEF Decides
<1>19. IsLeft(U, Single("index"), Sectors(g.archive))
  <2> DEFINE q == Single("index")
  <2>1. q \notin PathsOf(A) /\ q \notin PathsOf(E) /\ q \notin PathsOf(O) /\ q \notin PathsOf(X)
    BY <1>5, <1>6, <1>7, <1>9, <1>10 DEF ArchiveDirs, ExeDirs, OverlayDirs
  <2>2. Single("index") # Single("sectortable") BY <1>10
  <2>3. IsLeft(M, q, Sectors(g.archive)) BY <2>2, <1>3, <1>4, <1>8 DEF IsLeft
  <2> HIDE DEF q
  <2>4. Decides(M, AM, q) /\ Decides(AM, AE, q) /\ Decides(AE, AO, q) /\ Decides(AO, U, q)
    BY <2>1, <1>11, <1>12, <1>13, <1>14
  <2>5. IsLeft(U, q, Sectors(g.archive)) BY <2>3, <2>4 DEF Decides
  <2> QED BY <2>5 DEF q
<1>20. PathsOf(U) = PathsOf(A) \cup {Single("index"), Single("sectortable")} \cup PathsOf(E)
                      \cup PathsOf(O) \cup {Single("side-by-side")}
  BY <1>9, <1>15
<1>21. U \in Seq(FileType) BY <1>14
<1> HIDE DEF ArchiveDirs
<1> QED
  BY <1>1, <1>5, <1>6, <1>7, <1>16, <1>17, <1>18, <1>19, <1>20, <1>21 DEF A, E, O

----------------------------------------------------------------------------
(* What a run leaves of its decode. *)

\* Tree has what the writes of a decode leave.
LEMMA TreeIsLeft ==
  ASSUME NEW g \in Gens
  PROVE  /\ Writes[g] = TreeOf(g) /\ Paths(g) = PathsOf(TreeOf(g)) /\ DOMAIN Tree[g] = Paths(g)
         /\ \A p \in Paths(g) : IsLeft(TreeOf(g), p, Tree[g][p])
<1>1. Writes[g] = TreeOf(g) BY WritesAssumption
<1>2. Paths(g) = PathsOf(TreeOf(g)) BY <1>1 DEF Paths, PathsOf
<1>3. TreeOf(g) \in Seq(FileType) BY TreeParts
<1>4. DOMAIN Tree[g] = Paths(g) BY DEF Tree
<1>5. ASSUME NEW p \in Paths(g) PROVE IsLeft(TreeOf(g), p, Tree[g][p])
  <2> DEFINE W == Writes[g]
             last == CHOOSE i \in DOMAIN W : IsLast(g, i) /\ W[i].path = p
  <2>1. Tree[g][p] = W[last].content BY DEF Tree
  <2> HIDE DEF W
  <2>2. \E c : IsLeft(W, p, c)
    <3>1. p \in PathsOf(TreeOf(g)) BY <1>2
    <3>2. \E c : IsLeft(TreeOf(g), p, c) BY <1>3, <3>1, OneIsLeft
    <3> QED BY <3>2, <1>1 DEF W
  <2>3. \E i \in DOMAIN W : IsLast(g, i) /\ W[i].path = p BY <2>2 DEF IsLeft, IsLast, W
  <2>4. last \in DOMAIN W /\ IsLast(g, last) /\ W[last].path = p BY <2>3
  <2> HIDE DEF last
  <2>5. IsLeft(W, p, W[last].content) BY <2>4 DEF IsLeft, IsLast, W
  <2>6. W = TreeOf(g) BY <1>1 DEF W
  <2> QED BY <2>1, <2>5, <2>6
<1> QED BY <1>1, <1>2, <1>4, <1>5

\* The rows of a finished run are what its decode leaves, and the files are as the rows say.
LEMMA RowsOfTheRun ==
  ASSUME IInv, RollupsAreOfTheRun, phase \in {"manifest", "done"}
  PROVE  /\ gen \in Gens /\ Paths(gen) \subseteq DOMAIN rows
         /\ \A p \in Paths(gen) : rows[p] = Tree[gen][p] /\ files[p] = Tree[gen][p]
         /\ ran = {gen} => DOMAIN rows = Paths(gen)
<1>1. gen \in Gens BY DEF IInv, TypeOK
<1>2. ASSUME NEW p \in Paths(gen)
      PROVE  p \in DOMAIN rows /\ rows[p] = Tree[gen][p] /\ files[p] = Tree[gen][p]
  <2>1. IsLeft(Writes[gen], p, Tree[gen][p]) BY <1>1, TreeIsLeft
  <2>2. PICK i \in DOMAIN Writes[gen] : /\ Writes[gen][i].path = p
                                        /\ Writes[gen][i].content = Tree[gen][p]
                                        /\ IsLast(gen, i)
    BY <2>1 DEF IsLeft, IsLast
  <2>3. p \in DOMAIN rows /\ rows[p] = Tree[gen][p] BY <2>2 DEF RollupsAreOfTheRun
  <2>4. rows[p] = files[p] BY <2>3 DEF IInv, Listed
  <2> QED BY <2>3, <2>4
<1>3. ASSUME ran = {gen} PROVE DOMAIN rows \subseteq Paths(gen)
  BY <1>3 DEF RollupsAreOfTheRun
<1> QED BY <1>1, <1>2, <1>3

\* Two decodes with one part in common leave the same where that part decides.
LEMMA SamePart ==
  ASSUME NEW g \in Gens, NEW h \in Gens, NEW s \in Seq(FileType), NEW p,
         Decides(s, TreeOf(g), p), Decides(s, TreeOf(h), p)
  PROVE  /\ p \in Paths(g) <=> p \in Paths(h)
         /\ p \in Paths(g) => Tree[g][p] = Tree[h][p]
<1>1. p \in Paths(g) <=> p \in Paths(h) BY TreeIsLeft DEF Decides
<1>2. ASSUME p \in Paths(g) PROVE Tree[g][p] = Tree[h][p]
  <2>1. IsLeft(TreeOf(g), p, Tree[g][p]) /\ IsLeft(TreeOf(h), p, Tree[h][p])
    BY <1>1, <1>2, TreeIsLeft
  <2>2. IsLeft(s, p, Tree[g][p]) /\ IsLeft(s, p, Tree[h][p]) BY <2>1 DEF Decides
  <2> QED BY <2>2, OneIsLeft
<1> QED BY <1>1, <1>2

\* A roll-up moves only for its own population, whatever the decodes: the files of the
\* executable, of the overlays and of the archive lie apart, and each depends on its own blocks.
THEOREM RollupsApart == Spec => []RollupsSeparate
<1>1. ASSUME IInv, RollupsAreOfTheRun PROVE RollupsSeparate
  <2>1. SUFFICES ASSUME phase \in {"manifest", "done"}, ran = {gen}, NEW h \in Gens
                 PROVE  LET under(dirs) == [p \in {q \in Paths(h) : q[1] \in dirs} |-> Tree[h][p]]
                        IN  /\ h.exe = gen.exe => Roll("exe") = under({"exe"})
                            /\ h.overlay = gen.overlay =>
                                 Roll("overlay") = under({"overlay", "overlay/dictionaries"})
                            /\ h.archive = gen.archive =>
                                 /\ \A p \in DOMAIN Roll("archive") :
                                      p \in Mixed \/ rows[p] = Tree[h][p]
                                 /\ DOMAIN Roll("archive") =
                                      {q \in Paths(h) :
                                         q[1] \notin {"exe", "overlay", "overlay/dictionaries"}}
    BY DEF RollupsSeparate
  <2> DEFINE under(dirs) == [p \in {q \in Paths(h) : q[1] \in dirs} |-> Tree[h][p]]
  <2>2. /\ gen \in Gens /\ DOMAIN rows = Paths(gen)
        /\ \A p \in Paths(gen) : rows[p] = Tree[gen][p]
    BY <1>1, <2>1, RowsOfTheRun
  <2>3. /\ Roll("exe") = [p \in {q \in Paths(gen) : q[1] \in ExeDirs} |-> rows[p]]
        /\ Roll("overlay") = [p \in {q \in Paths(gen) : q[1] \in OverlayDirs} |-> rows[p]]
        /\ DOMAIN Roll("archive") = {q \in Paths(gen) : q[1] \notin ExeDirs \cup OverlayDirs}
    <3>1. \A q : /\ Population(q) = "exe" <=> q[1] \in ExeDirs
                 /\ Population(q) = "overlay" <=> q[1] \in OverlayDirs
                 /\ Population(q) = "archive" <=> q[1] \notin ExeDirs \cup OverlayDirs
      BY DEF Population, ExeDirs, OverlayDirs
    <3> QED BY <2>2, <3>1 DEF Roll
  <2>4. ASSUME h.exe = gen.exe PROVE Roll("exe") = under({"exe"})
    <3>1. ASSUME NEW p, p[1] \in ExeDirs
          PROVE  /\ p \in Paths(gen) <=> p \in Paths(h)
                 /\ p \in Paths(gen) => Tree[gen][p] = Tree[h][p]
      <4>1. Decides(ExeFiles(gen.exe), TreeOf(gen), p) BY <2>2, <3>1, TreeParts
      <4>2. Decides(ExeFiles(gen.exe), TreeOf(h), p) BY <2>4, <3>1, TreeParts
      <4>3. ExeFiles(gen.exe) \in Seq(FileType) BY <2>2, ExeHas
      <4> QED BY <2>2, <4>1, <4>2, <4>3, SamePart
    <3>2. {q \in Paths(gen) : q[1] \in ExeDirs} = {q \in Paths(h) : q[1] \in {"exe"}}
      BY <3>1 DEF ExeDirs
    <3>3. \A p \in {q \in Paths(gen) : q[1] \in ExeDirs} : rows[p] = Tree[h][p]
      BY <2>2, <3>1
    <3> QED BY <2>3, <3>2, <3>3
  <2>5. ASSUME h.overlay = gen.overlay
        PROVE  Roll("overlay") = under({"overlay", "overlay/dictionaries"})
    <3>1. ASSUME NEW p, p[1] \in OverlayDirs
          PROVE  /\ p \in Paths(gen) <=> p \in Paths(h)
                 /\ p \in Paths(gen) => Tree[gen][p] = Tree[h][p]
      <4>1. Decides(OverlayFiles(gen.overlay), TreeOf(gen), p) BY <2>2, <3>1, TreeParts
      <4>2. Decides(OverlayFiles(gen.overlay), TreeOf(h), p) BY <2>5, <3>1, TreeParts
      <4>3. OverlayFiles(gen.overlay) \in Seq(FileType) BY <2>2, OverlayHas
      <4> QED BY <2>2, <4>1, <4>2, <4>3, SamePart
    <3>2. {q \in Paths(gen) : q[1] \in OverlayDirs}
            = {q \in Paths(h) : q[1] \in {"overlay", "overlay/dictionaries"}}
      BY <3>1 DEF OverlayDirs
    <3>3. \A p \in {q \in Paths(gen) : q[1] \in OverlayDirs} : rows[p] = Tree[h][p]
      BY <2>2, <3>1
    <3> QED BY <2>3, <3>2, <3>3
  <2>6. ASSUME h.archive = gen.archive
        PROVE  /\ \A p \in DOMAIN Roll("archive") : p \in Mixed \/ rows[p] = Tree[h][p]
               /\ DOMAIN Roll("archive") =
                    {q \in Paths(h) : q[1] \notin {"exe", "overlay", "overlay/dictionaries"}}
    <3> DEFINE Once == {Single("index"), Single("sectortable"), Single("side-by-side")}
               Others(g) == {q \in Paths(g) : q[1] \notin ExeDirs \cup OverlayDirs}
    <3>1. ASSUME NEW g \in Gens, g.archive = gen.archive
          PROVE  Others(g) = PathsOf(ArchiveFiles(gen.archive)) \cup Once
      <4> DEFINE PA == PathsOf(ArchiveFiles(g.archive))
                 PE == PathsOf(ExeFiles(g.exe))
                 PO == PathsOf(OverlayFiles(g.overlay))
      <4>1. /\ Paths(g) = PathsOf(TreeOf(g))
            /\ PathsOf(TreeOf(g)) = PA \cup {Single("index"), Single("sectortable")} \cup PE
                                      \cup PO \cup {Single("side-by-side")}
            /\ \A q \in PA : q[1] \in ArchiveDirs
            /\ \A q \in PE : q[1] \in ExeDirs
            /\ \A q \in PO : q[1] \in OverlayDirs
        BY TreeIsLeft, TreeParts
      <4>2. /\ Single("index")[1] = "index" /\ Single("sectortable")[1] = "sectortable"
            /\ Single("side-by-side")[1] = "side-by-side"
        BY DEF Single
      <4>3. PA = PathsOf(ArchiveFiles(gen.archive)) BY <3>1
      <4> HIDE DEF PA, PE, PO
      <4>4. \A q \in PA \cup Once : q[1] \notin ExeDirs \cup OverlayDirs
        BY <4>1, <4>2 DEF ArchiveDirs, ExeDirs, OverlayDirs
      <4>5. Paths(g) = PA \cup Once \cup PE \cup PO BY <4>1
      <4> HIDE DEF Once
      <4>6. Others(g) = PA \cup Once BY <4>1, <4>4, <4>5
      <4> QED BY <4>3, <4>6
    <3>2. Others(gen) = Others(h)
      <4> HIDE DEF Others, Once
      <4> QED BY <2>2, <2>6, <3>1
    <3>3. DOMAIN Roll("archive") = Others(gen) BY <2>3
    <3>4. Others(h) = {q \in Paths(h) : q[1] \notin {"exe", "overlay", "overlay/dictionaries"}}
      BY DEF ExeDirs, OverlayDirs
    <3>5. ASSUME NEW p \in Others(gen), p \notin Mixed PROVE rows[p] = Tree[h][p]
      <4>1. p \in Paths(gen) /\ p \in Paths(h) /\ rows[p] = Tree[gen][p] BY <2>2, <3>2
      <4>2. CASE p = Single("index")
        <5>1. /\ IsLeft(TreeOf(gen), p, Sectors(gen.archive))
              /\ IsLeft(TreeOf(h), p, Sectors(gen.archive))
          BY <2>2, <2>6, <4>2, TreeParts
        <5>2. IsLeft(TreeOf(gen), p, Tree[gen][p]) /\ IsLeft(TreeOf(h), p, Tree[h][p])
          BY <2>2, <4>1, TreeIsLeft
        <5>3. TreeOf(gen) \in Seq(FileType) /\ TreeOf(h) \in Seq(FileType) BY <2>2, TreeParts
        <5>4. Tree[gen][p] = Sectors(gen.archive) /\ Tree[h][p] = Sectors(gen.archive)
          BY <5>1, <5>2, <5>3, OneIsLeft
        <5> QED BY <4>1, <5>4
      <4>3. CASE p # Single("index")
        <5>1. p \in PathsOf(ArchiveFiles(gen.archive))
          <6>1. p \in PathsOf(ArchiveFiles(gen.archive)) \cup Once
            <7> HIDE DEF Others, Once
            <7> QED BY <2>2, <3>1
          <6> QED BY <6>1, <3>5, <4>3 DEF Mixed
        <5>2. p[1] \in ArchiveDirs BY <2>2, <5>1, TreeParts
        <5>3. Decides(ArchiveFiles(gen.archive), TreeOf(gen), p) BY <2>2, <5>2, TreeParts
        <5>4. Decides(ArchiveFiles(gen.archive), TreeOf(h), p) BY <2>6, <5>2, TreeParts
        <5>5. ArchiveFiles(gen.archive) \in Seq(FileType) BY <2>2, ArchiveHas
        <5>6. Tree[gen][p] = Tree[h][p] BY <2>2, <4>1, <5>3, <5>4, <5>5, SamePart
        <5> QED BY <4>1, <5>6
      <4> QED BY <4>2, <4>3
    <3> HIDE DEF Others
    <3> QED BY <3>2, <3>3, <3>4, <3>5
  <2> QED BY <2>4, <2>5, <2>6
<1> QED BY <1>1, SpecIInv, RollupsStand, PTL

\* What is left at a path of a part is the content of a file that the part writes there.
LEMMA LeftByFile ==
  ASSUME NEW g \in Gens, NEW s, NEW p, Decides(s, TreeOf(g), p), p \in Paths(g)
  PROVE  \E i \in DOMAIN s : s[i].path = p /\ s[i].content = Tree[g][p]
<1>1. IsLeft(TreeOf(g), p, Tree[g][p]) BY TreeIsLeft
<1>2. IsLeft(s, p, Tree[g][p]) BY <1>1 DEF Decides
<1> QED BY <1>2 DEF IsLeft

\* The one file under raw/ that shows a text of the archive is the one with its name.
LEMMA RawFile ==
  ASSUME NEW g \in Gens, NEW m \in Stored(g.archive)
  PROVE  LET name == <<"raw", m.id, Variant(g.archive, m.id, m.text)>> IN
         {p \in Paths(g) : p[1] = "raw" /\ Tree[g][p] = {Line(m, m.sector)}} = {name}
<1> DEFINE A == g.archive
           name == <<"raw", m.id, Variant(A, m.id, m.text)>>
           Shows(id, text) == Line(Spokesman(A, id, text), Spokesman(A, id, text).sector)
<1>1. /\ m.id \in Ids(A) /\ m.text \in Texts(A, m.id) /\ m = Spokesman(A, m.id, m.text)
  <2>1. PICK n \in A : m = Spokesman(A, n.id, n.text) BY DEF Stored
  <2>2. n.id \in Ids(A) /\ n.text \in Texts(A, n.id) BY DEF Ids, Texts, OfId
  <2>3. m.id = n.id /\ m.text = n.text BY <2>1, <2>2, SpokesmanIsCopy
  <2> QED BY <2>1, <2>2, <2>3
<1>2. ASSUME NEW p \in Paths(g), p[1] = "raw"
      PROVE  \E id \in Ids(A) : \E text \in Texts(A, id) :
               p = <<"raw", id, Variant(A, id, text)>> /\ Tree[g][p] = {Shows(id, text)}
  <2>1. Decides(ArchiveFiles(A), TreeOf(g), p)
    <3>1. p[1] \in ArchiveDirs BY <1>2 DEF ArchiveDirs
    <3> QED BY <3>1, TreeParts
  <2>2. PICK i \in DOMAIN ArchiveFiles(A) :
          ArchiveFiles(A)[i].path = p /\ ArchiveFiles(A)[i].content = Tree[g][p]
    BY <2>1, LeftByFile
  <2>3. PICK dir \in {"raw", "dictionaries"}, id \in Ids(A) :
          \E text \in Texts(A, id) : ArchiveFiles(A)[i] = TextFile(A, dir, id, text)
    BY ArchiveHas
  <2>4. PICK text \in Texts(A, id) : ArchiveFiles(A)[i] = TextFile(A, dir, id, text) BY <2>3
  <2>5. p = <<dir, id, Variant(A, id, text)>> /\ Tree[g][p] = {Shows(id, text)}
    BY <2>2, <2>4 DEF TextFile, File
  <2>6. dir = "raw" BY <2>5, <1>2
  <2> QED BY <2>5, <2>6
<1>3. ASSUME NEW id \in Ids(A), NEW text \in Texts(A, id)
      PROVE  \E sector : Shows(id, text) = <<id, text, sector>>
  BY SpokesmanIsCopy DEF Line
<1>4. name \in Paths(g) /\ name[1] = "raw"
  <2>1. PICK i \in DOMAIN ArchiveFiles(A) : ArchiveFiles(A)[i] = TextFile(A, "raw", m.id, m.text)
    BY <1>1, ArchiveHas
  <2>2. name \in PathsOf(ArchiveFiles(A)) BY <2>1 DEF PathsOf, TextFile, File
  <2>3. PathsOf(ArchiveFiles(A)) \subseteq PathsOf(TreeOf(g)) BY TreeParts
  <2> QED BY <2>2, <2>3, TreeIsLeft
<1>5. Shows(m.id, m.text) = Line(m, m.sector) BY <1>1
<1>6. Tree[g][name] = {Line(m, m.sector)}
  <2>1. PICK id \in Ids(A) : \E text \in Texts(A, id) :
          name = <<"raw", id, Variant(A, id, text)>> /\ Tree[g][name] = {Shows(id, text)}
    BY <1>2, <1>4
  <2>2. PICK text \in Texts(A, id) :
          name = <<"raw", id, Variant(A, id, text)>> /\ Tree[g][name] = {Shows(id, text)}
    BY <2>1
  <2>3. id = m.id /\ Variant(A, m.id, text) = Variant(A, m.id, m.text) BY <2>2
  <2>4. text = m.text BY <1>1, <2>2, <2>3, VariantsDiffer
  <2> QED BY <1>5, <2>2, <2>3, <2>4
<1>7. ASSUME NEW p \in Paths(g), p[1] = "raw", Tree[g][p] = {Line(m, m.sector)} PROVE p = name
  <2>1. PICK id \in Ids(A) : \E text \in Texts(A, id) :
          p = <<"raw", id, Variant(A, id, text)>> /\ Tree[g][p] = {Shows(id, text)}
    BY <1>2, <1>7
  <2>2. PICK text \in Texts(A, id) :
          p = <<"raw", id, Variant(A, id, text)>> /\ Tree[g][p] = {Shows(id, text)}
    BY <2>1
  <2>3. PICK sector : Shows(id, text) = <<id, text, sector>> BY <1>3
  <2>4. Line(m, m.sector) = <<id, text, sector>>
    <3> HIDE DEF Shows
    <3> QED BY <1>7, <2>2, <2>3
  <2>5. id = m.id /\ text = m.text BY <2>4 DEF Line
  <2> QED BY <2>2, <2>5
<1> HIDE DEF name
<1>8. {p \in Paths(g) : p[1] = "raw" /\ Tree[g][p] = {Line(m, m.sector)}} = {name}
  BY <1>4, <1>6, <1>7
<1> QED BY <1>8 DEF name

\* Of the blocks of the executable with one id the last has the file, and no other has any.
LEMMA ExeFileStays ==
  ASSUME NEW g \in Gens, NEW b \in g.exe
  PROVE  {p \in Paths(g) : p[1] = "exe" /\ Tree[g][p] = {Line(b, b.va)}} # {}
           <=> LastInExe(g.exe, b)
<1> DEFINE E == ExeFiles(g.exe)
           all == {Line(c, c.va) : c \in g.exe}
<1>1. \A c, d \in g.exe : Line(c, c.va) = Line(d, d.va) => c = d
  BY DecodeAssumption DEF Line
<1>2. ASSUME NEW d \in g.exe, LastInExe(g.exe, d)
      PROVE  <<"exe", d.id, 0>> \in Paths(g) /\ Tree[g][<<"exe", d.id, 0>>] = {Line(d, d.va)}
  <2> DEFINE p == <<"exe", d.id, 0>>
             c == {Line(d, d.va)}
  <2>1. IsLeft(E, p, c) BY <1>2, ExeHas
  <2>2. p[1] \in ExeDirs BY DEF ExeDirs
  <2> HIDE DEF p, c, E
  <2>3. Decides(E, TreeOf(g), p) BY <2>2, TreeParts DEF E
  <2>4. IsLeft(TreeOf(g), p, c) BY <2>1, <2>3 DEF Decides
  <2>5. TreeOf(g) \in Seq(FileType) BY TreeParts
  <2>6. p \in Paths(g) BY <2>4, <2>5, OneIsLeft, TreeIsLeft
  <2>7. Tree[g][p] = c BY <2>4, <2>5, <2>6, OneIsLeft, TreeIsLeft
  <2> QED BY <2>6, <2>7 DEF p, c
<1>3. ASSUME NEW p \in Paths(g), p[1] = "exe", Tree[g][p] = {Line(b, b.va)}
      PROVE  LastInExe(g.exe, b)
  <2>1. p[1] \in ExeDirs BY <1>3 DEF ExeDirs
  <2>2. Decides(E, TreeOf(g), p) BY <2>1, TreeParts
  <2> HIDE DEF E, all
  <2>3. PICK i \in DOMAIN E : E[i].path = p /\ E[i].content = Tree[g][p] BY <2>2, LeftByFile
  <2>4. (\E c \in g.exe : E[i] = ExeFile(c)) \/ E[i] = File(Single("exe"), all)
    BY ExeHas DEF E, all
  <2>5. CASE \E c \in g.exe : E[i] = ExeFile(c)
    <3>1. PICK c \in g.exe : E[i] = ExeFile(c) BY <2>5
    <3>2. p = <<"exe", c.id, 0>> /\ Tree[g][p] = {Line(c, c.va)} BY <2>3, <3>1 DEF ExeFile, File
    <3>3. c = b BY <3>2, <1>1, <1>3
    <3>4. PICK d \in OfId(g.exe, b.id) : LastInExe(g.exe, d) BY OneIsLast
    <3>5. d \in g.exe /\ d.id = b.id BY DEF OfId
    <3>6. Tree[g][p] = {Line(d, d.va)} BY <3>2, <3>3, <3>4, <3>5, <1>2
    <3>7. d = b BY <3>5, <3>6, <1>1, <1>3
    <3> QED BY <3>4, <3>7
  <2>6. CASE E[i] = File(Single("exe"), all)
    <3>1. all = {Line(b, b.va)} BY <2>3, <2>6, <1>3 DEF File
    <3>2. \A c \in g.exe : c = b BY <3>1, <1>1 DEF all
    <3>3. b.va \in Int BY DecodeAssumption
    <3> QED BY <3>2, <3>3 DEF LastInExe, OfId
  <2> QED BY <2>4, <2>5, <2>6
<1>4. ASSUME LastInExe(g.exe, b)
      PROVE  {p \in Paths(g) : p[1] = "exe" /\ Tree[g][p] = {Line(b, b.va)}} # {}
  <2> DEFINE p == <<"exe", b.id, 0>>
  <2>1. p \in Paths(g) /\ Tree[g][p] = {Line(b, b.va)} BY <1>2, <1>4
  <2>2. p[1] = "exe" OBVIOUS
  <2> HIDE DEF p
  <2> QED BY <2>1, <2>2
<1> QED BY <1>3, <1>4

\* Of the blocks of the overlays with one id the last has the file, and no other has any.
LEMMA OverlayFileStays ==
  ASSUME NEW g \in Gens, NEW b \in g.overlay
  PROVE  {p \in Paths(g) : p[1] = "overlay" /\ Tree[g][p] = {Line(b, b.site)}} # {}
           <=> LastInOverlays(g.overlay, b)
<1> DEFINE O == OverlayFiles(g.overlay)
           all == {Line(c, c.site) : c \in g.overlay}
<1>1. \A c, d \in g.overlay : Line(c, c.site) = Line(d, d.site) => c = d
  BY DecodeAssumption DEF Line
<1>2. ASSUME NEW d \in g.overlay, LastInOverlays(g.overlay, d)
      PROVE  /\ <<"overlay", d.id, 0>> \in Paths(g)
             /\ Tree[g][<<"overlay", d.id, 0>>] = {Line(d, d.site)}
  <2> DEFINE p == <<"overlay", d.id, 0>>
             c == {Line(d, d.site)}
  <2>1. IsLeft(O, p, c) BY <1>2, OverlayHas
  <2>2. p[1] \in OverlayDirs BY DEF OverlayDirs
  <2> HIDE DEF p, c, O
  <2>3. Decides(O, TreeOf(g), p) BY <2>2, TreeParts DEF O
  <2>4. IsLeft(TreeOf(g), p, c) BY <2>1, <2>3 DEF Decides
  <2>5. TreeOf(g) \in Seq(FileType) BY TreeParts
  <2>6. p \in Paths(g) BY <2>4, <2>5, OneIsLeft, TreeIsLeft
  <2>7. Tree[g][p] = c BY <2>4, <2>5, <2>6, OneIsLeft, TreeIsLeft
  <2> QED BY <2>6, <2>7 DEF p, c
<1>3. ASSUME NEW p \in Paths(g), p[1] = "overlay", Tree[g][p] = {Line(b, b.site)}
      PROVE  LastInOverlays(g.overlay, b)
  <2>1. p[1] \in OverlayDirs BY <1>3 DEF OverlayDirs
  <2>2. Decides(O, TreeOf(g), p) BY <2>1, TreeParts
  <2> HIDE DEF O, all
  <2>3. PICK i \in DOMAIN O : O[i].path = p /\ O[i].content = Tree[g][p] BY <2>2, LeftByFile
  <2>4. \/ \E dir \in OverlayDirs, c \in g.overlay : O[i] = OverlayFile(dir, c)
        \/ O[i] = File(Single("overlay"), all)
    BY OverlayHas DEF O, all
  <2>5. CASE \E dir \in OverlayDirs, c \in g.overlay : O[i] = OverlayFile(dir, c)
    <3>1. PICK dir \in OverlayDirs, c \in g.overlay : O[i] = OverlayFile(dir, c) BY <2>5
    <3>2. p = <<dir, c.id, 0>> /\ Tree[g][p] = {Line(c, c.site)}
      BY <2>3, <3>1 DEF OverlayFile, File
    <3>3. c = b /\ dir = "overlay" BY <3>2, <1>1, <1>3
    <3>4. PICK d \in OfId(g.overlay, b.id) : LastInOverlays(g.overlay, d) BY OneIsLast
    <3>5. d \in g.overlay /\ d.id = b.id BY DEF OfId
    <3>6. Tree[g][p] = {Line(d, d.site)} BY <3>2, <3>3, <3>4, <3>5, <1>2
    <3>7. d = b BY <3>5, <3>6, <1>1, <1>3
    <3> QED BY <3>4, <3>7
  <2>6. CASE O[i] = File(Single("overlay"), all)
    <3>1. all = {Line(b, b.site)} BY <2>3, <2>6, <1>3 DEF File
    <3>2. \A c \in g.overlay : c = b BY <3>1, <1>1 DEF all
    <3>3. b.site \in Int BY DecodeAssumption
    <3> QED BY <3>2, <3>3 DEF LastInOverlays, OfId
  <2> QED BY <2>4, <2>5, <2>6
<1>4. ASSUME LastInOverlays(g.overlay, b)
      PROVE  {p \in Paths(g) : p[1] = "overlay" /\ Tree[g][p] = {Line(b, b.site)}} # {}
  <2> DEFINE p == <<"overlay", b.id, 0>>
  <2>1. p \in Paths(g) /\ Tree[g][p] = {Line(b, b.site)} BY <1>2, <1>4
  <2>2. p[1] = "overlay" OBVIOUS
  <2> HIDE DEF p
  <2> QED BY <2>1, <2>2
<1> QED BY <1>3, <1>4

\* A run that has ended leaves every text a file of its own but those of the executable and the
\* overlays behind which another block of their id was found, and leaves those none, whatever
\* decodes were written into the directory before it and however often they died.
THEOREM TextsHaveFiles == Spec => []EveryTextHasItsFile
<1>1. ASSUME IInv, RollupsAreOfTheRun PROVE EveryTextHasItsFile
  <2>1. SUFFICES ASSUME phase = "done"
                 PROVE  LET shows(b, where, dir) ==
                              {p \in Paths(gen) : p[1] = dir /\ files[p] = {Line(b, where)}}
                        IN  /\ \A m \in Stored(gen.archive) :
                                 Cardinality(shows(m, m.sector, "raw")) = 1
                            /\ \A b \in gen.exe :
                                 shows(b, b.va, "exe") # {} <=> LastInExe(gen.exe, b)
                            /\ \A b \in gen.overlay :
                                 shows(b, b.site, "overlay") # {} <=> LastInOverlays(gen.overlay, b)
    BY DEF EveryTextHasItsFile
  <2> DEFINE shows(b, where, dir) ==
               {p \in Paths(gen) : p[1] = dir /\ files[p] = {Line(b, where)}}
  <2>2. gen \in Gens /\ \A p \in Paths(gen) : files[p] = Tree[gen][p]
    BY <1>1, <2>1, RowsOfTheRun
  <2>3. ASSUME NEW m \in Stored(gen.archive)
        PROVE  Cardinality(shows(m, m.sector, "raw")) = 1
    <3> DEFINE name == <<"raw", m.id, Variant(gen.archive, m.id, m.text)>>
    <3>1. {p \in Paths(gen) : p[1] = "raw" /\ Tree[gen][p] = {Line(m, m.sector)}} = {name}
      BY <2>2, RawFile
    <3> HIDE DEF name
    <3>2. shows(m, m.sector, "raw") = {name} BY <2>2, <3>1
    <3>3. Cardinality({name}) = 1 BY FS_Singleton
    <3> QED BY <3>2, <3>3
  <2>4. ASSUME NEW b \in gen.exe
        PROVE  shows(b, b.va, "exe") # {} <=> LastInExe(gen.exe, b)
    <3>1. shows(b, b.va, "exe") = {p \in Paths(gen) : p[1] = "exe" /\ Tree[gen][p] = {Line(b, b.va)}}
      BY <2>2
    <3> HIDE DEF shows
    <3> QED BY <2>2, <3>1, ExeFileStays
  <2>5. ASSUME NEW b \in gen.overlay
        PROVE  shows(b, b.site, "overlay") # {} <=> LastInOverlays(gen.overlay, b)
    <3>1. shows(b, b.site, "overlay")
            = {p \in Paths(gen) : p[1] = "overlay" /\ Tree[gen][p] = {Line(b, b.site)}}
      BY <2>2
    <3> HIDE DEF shows
    <3> QED BY <2>2, <3>1, OverlayFileStays
  <2> QED BY <2>3, <2>4, <2>5
<1> QED BY <1>1, SpecIInv, RollupsStand, PTL

----------------------------------------------------------------------------
(***************************************************************************)
(* Where the text is: hbd.py, overlay.py and the references of the         *)
(* executable.  First the sums of the headers.                             *)
(***************************************************************************)

\* The lengths of the sub-blocks are summed up one by one.
LEMMA LengthsAre ==
  ASSUME NEW subs \in Seq(SubHeads)
  PROVE  /\ Lengths(subs) \in [0 .. Len(subs) -> Nat] /\ Lengths(subs)[0] = 0
         /\ \A k \in 1 .. Len(subs) : Lengths(subs)[k] = Lengths(subs)[k - 1] + subs[k].dlen
<1> DEFINE n == Len(subs)
           dlen(k) == IF k \in 1 .. n THEN subs[k].dlen ELSE 0
           step == [p \in Nat \X Nat |-> p[2] + dlen(p[1] + 1)]
           E(f) == [k \in 0 .. n |-> IF k = 0 THEN 0 ELSE f[k - 1] + subs[k].dlen]
<1>1. n \in Nat OBVIOUS
<1>2. \A k \in 1 .. n : subs[k].dlen \in Nat
  <2>1. \A k \in 1 .. n : subs[k] \in SubHeads OBVIOUS
  <2> QED BY <2>1 DEF SubHeads
<1>3. \A k \in Nat : dlen(k) \in Nat BY <1>2
<1> HIDE DEF n
<1>4. \A k \in 1 .. n : dlen(k) = subs[k].dlen OBVIOUS
<1> HIDE DEF dlen
<1>5. step \in [Nat \X Nat -> Nat]
  <2>1. ASSUME NEW p \in Nat \X Nat PROVE p[2] + dlen(p[1] + 1) \in Nat
    <3>1. p[1] + 1 \in Nat /\ p[2] \in Nat OBVIOUS
    <3>2. dlen(p[1] + 1) \in Nat BY <3>1, <1>3
    <3> QED BY <3>1, <3>2
  <2> QED BY <2>1
<1>6. \A k, m \in Nat : step[<<k, m>>] = m + dlen(k + 1) OBVIOUS
<1> HIDE DEF step
<1>7. PICK g : g \in [Nat -> Nat] /\ g[0] = 0 /\ \A k \in Nat : g[k + 1] = g[k] + dlen(k + 1)
  <2>1. 0 \in Nat OBVIOUS
  <2>2. PICK g : Iterates(g, Nat, 0, step) BY <2>1, <1>5, Iteration
  <2>3. g \in [Nat -> Nat] /\ g[0] = 0 BY <2>2 DEF Iterates
  <2>4. \A k \in Nat : g[k + 1] = g[k] + dlen(k + 1) BY <2>2, <2>3, <1>6 DEF Iterates
  <2> QED BY <2>3, <2>4
<1> DEFINE f == [k \in 0 .. n |-> g[k]]
<1>8. f = E(f)
  <2>1. ASSUME NEW k \in 0 .. n PROVE f[k] = IF k = 0 THEN 0 ELSE f[k - 1] + subs[k].dlen
    <3>1. CASE k = 0 BY <3>1, <1>7
    <3>2. CASE k # 0
      <4>1. k - 1 \in 0 .. n /\ k - 1 \in Nat /\ (k - 1) + 1 = k /\ k \in 1 .. n BY <3>2, <1>1
      <4>2. g[k] = g[k - 1] + dlen(k) BY <4>1, <1>7
      <4> QED BY <3>2, <4>1, <4>2, <1>4
    <3> QED BY <3>1, <3>2
  <2> QED BY <2>1
<1>9. Lengths(subs) = E(Lengths(subs))
  <2>1. Lengths(subs) = CHOOSE h : h = E(h) BY DEF Lengths, n
  <2> HIDE DEF E, f
  <2> QED BY <2>1, <1>8
<1> HIDE DEF f
<1> DEFINE L == Lengths(subs)
<1>10. L[0] = 0 BY <1>9, <1>1
<1>11. \A k \in 1 .. n : L[k] = L[k - 1] + subs[k].dlen BY <1>9, <1>1
<1>12. \A k \in 0 .. n : L[k] = g[k]
  <2> DEFINE T == {k \in Nat : k \in 0 .. n => L[k] = g[k]}
  <2>1. 0 \in T BY <1>10, <1>7
  <2>2. ASSUME NEW k \in Nat, k \in T PROVE k + 1 \in T
    <3> SUFFICES ASSUME k + 1 \in 0 .. n PROVE L[k + 1] = g[k + 1] OBVIOUS
    <3>1. k \in 0 .. n /\ k + 1 \in 1 .. n /\ (k + 1) - 1 = k BY <1>1
    <3>2. L[k + 1] = L[k] + subs[k + 1].dlen BY <3>1, <1>11
    <3> QED BY <3>1, <3>2, <2>2, <1>4, <1>7
  <2> HIDE DEF T
  <2>3. Nat \subseteq T BY <2>1, <2>2, Inductive
  <2> QED BY <2>3, <1>1 DEF T
<1>13. L \in [0 .. n -> Nat]
  <2>1. L = [k \in 0 .. n |-> L[k]] BY <1>9
  <2>2. ASSUME NEW k \in 0 .. n PROVE L[k] \in Nat
    <3>1. L[k] = g[k] /\ k \in Nat BY <1>12, <1>1
    <3> HIDE DEF L
    <3> QED BY <3>1, <1>7
  <2> HIDE DEF L
  <2> QED BY <2>1, <2>2
<1> QED BY <1>10, <1>11, <1>13 DEF n

\* A sub-block begins behind the headers of its block and the sub-blocks before it.
LEMMA OffsetsAre ==
  ASSUME NEW h \in Heads, NEW s \in Nat
  PROVE  /\ s * Sector + HeaderLen(h) \in Nat
         /\ \A i \in 1 .. Len(h.subs) + 1 :
              Offsets(s, h)[i] = s * Sector + HeaderLen(h) + Lengths(h.subs)[i - 1]
<1> DEFINE n == Len(h.subs)
           b == s * Sector + HeaderLen(h)
           L == Lengths(h.subs)
           E(f) == [i \in 1 .. n + 1 |-> IF i = 1 THEN b ELSE f[i - 1] + h.subs[i - 1].dlen]
<1>1. h.subs \in Seq(SubHeads) BY DEF Heads
<1>2. n \in Nat BY <1>1
<1>3. b \in Nat
  <2>1. Sector \in Nat /\ Header \in Nat BY FormatAssumption
  <2>2. \A j, k \in Nat : j * k \in Nat /\ j + k \in Nat OBVIOUS
  <2>3. HeaderLen(h) \in Nat
    <3>1. n * Header \in Nat BY <2>1, <2>2, <1>2
    <3> QED BY <2>1, <2>2, <3>1 DEF HeaderLen
  <2>4. s * Sector \in Nat BY <2>1, <2>2
  <2> QED BY <2>2, <2>3, <2>4
<1>4. Offsets(s, h) = CHOOSE f : f = E(f) BY DEF Offsets
<1>5. /\ L \in [0 .. n -> Nat] /\ L[0] = 0
      /\ \A k \in 1 .. n : L[k] = L[k - 1] + h.subs[k].dlen /\ h.subs[k].dlen \in Nat
  <2>1. \A k \in 1 .. n : h.subs[k] \in SubHeads BY <1>1
  <2> QED BY <2>1, <1>1, LengthsAre DEF SubHeads
<1> HIDE DEF b, L, n
<1> DEFINE g == [i \in 1 .. n + 1 |-> b + L[i - 1]]
<1>6. g = E(g)
  <2>1. ASSUME NEW i \in 1 .. n + 1 PROVE g[i] = IF i = 1 THEN b ELSE g[i - 1] + h.subs[i - 1].dlen
    <3>1. CASE i = 1 BY <3>1, <1>2, <1>3, <1>5
    <3>2. CASE i # 1
      <4>1. i - 1 \in 1 .. n /\ i - 1 \in 1 .. n + 1 /\ (i - 1) - 1 \in 0 .. n BY <3>2, <1>2
      <4>2. L[i - 1] = L[(i - 1) - 1] + h.subs[i - 1].dlen BY <4>1, <1>5
      <4>3. L[(i - 1) - 1] \in Nat /\ h.subs[i - 1].dlen \in Nat BY <4>1, <1>5
      <4> QED BY <3>2, <4>1, <4>2, <4>3, <1>3
    <3> QED BY <3>1, <3>2
  <2> QED BY <2>1
<1> DEFINE O == Offsets(s, h)
<1>7. O = E(O)
  <2> HIDE DEF E, g
  <2> QED BY <1>4, <1>6
<1> HIDE DEF O
<1>8. ASSUME NEW i \in 1 .. n + 1 PROVE O[i] = b + L[i - 1]
  <2> DEFINE T == {k \in Nat : k \in 0 .. n => O[k + 1] = b + L[k]}
  <2>1. 0 \in T BY <1>7, <1>2, <1>3, <1>5
  <2>2. ASSUME NEW k \in Nat, k \in T PROVE k + 1 \in T
    <3> SUFFICES ASSUME k + 1 \in 0 .. n PROVE O[(k + 1) + 1] = b + L[k + 1] OBVIOUS
    <3>1. k \in 0 .. n /\ k + 1 \in 1 .. n /\ (k + 1) - 1 = k /\ (k + 1) + 1 \in 1 .. n + 1
          /\ ((k + 1) + 1) - 1 = k + 1 /\ (k + 1) + 1 # 1 BY <1>2
    <3>2. O[(k + 1) + 1] = O[k + 1] + h.subs[k + 1].dlen BY <3>1, <1>7
    <3>3. L[k + 1] = L[k] + h.subs[k + 1].dlen /\ L[k] \in Nat /\ h.subs[k + 1].dlen \in Nat
      BY <3>1, <1>5
    <3> QED BY <3>1, <3>2, <3>3, <2>2, <1>3
  <2> HIDE DEF T
  <2>3. Nat \subseteq T BY <2>1, <2>2, Inductive
  <2>4. i - 1 \in T /\ i - 1 \in 0 .. n /\ (i - 1) + 1 = i BY <2>3, <1>2
  <2> QED BY <2>4 DEF T
<1> QED BY <1>3, <1>8 DEF b, L, n, O

\* The overlays of the blocks of the archive, and the text in them.
OverlaySites == {p \in GenuineSubs : disc.arch.headers[p[1]].subs[p[2]].type = OverlayType}
ImageThere(p) == Held(p[1], p[2])
TextFound == UNION {{<<p, b>> : b \in TextOf(ImageThere(p))} : p \in OverlaySites}

\* What scan_blocks leaves.
Scanned ==
  [s \in {t \in DOMAIN disc.arch.headers :
            /\ t < disc.arch.len \div Sector
            /\ Prefilter(disc.arch.headers[t])
            /\ Accepted(disc.arch, t, disc.arch.headers[t])}
     |-> ParseBlock(s, disc.arch.headers[s])]

\* What is on the disc has its type.
LEMMA HeadersTyped ==
  ASSUME disc \in Discs
  PROVE  /\ disc.arch.len \in Nat
         /\ \A s \in DOMAIN disc.arch.headers :
              /\ s \in Nat /\ disc.arch.headers[s] \in Heads
              /\ disc.arch.headers[s].subs \in Seq(SubHeads)
              /\ disc.arch.headers[s].nsec \in Nat /\ disc.arch.headers[s].tlen \in Nat
              /\ \A i \in DOMAIN disc.arch.headers[s].subs :
                   /\ i \in 1 .. Len(disc.arch.headers[s].subs)
                   /\ disc.arch.headers[s].subs[i] \in SubHeads
                   /\ disc.arch.headers[s].subs[i].image \in ImageOf
<1>1. \A s \in DOMAIN disc.arch.headers : s \in Nat /\ disc.arch.headers[s] \in Heads
  BY DiscAssumption
<1>2. ASSUME NEW s \in DOMAIN disc.arch.headers
      PROVE  /\ disc.arch.headers[s].subs \in Seq(SubHeads)
             /\ disc.arch.headers[s].nsec \in Nat /\ disc.arch.headers[s].tlen \in Nat
  BY <1>1 DEF Heads
<1>3. ASSUME NEW s \in DOMAIN disc.arch.headers, NEW i \in DOMAIN disc.arch.headers[s].subs
      PROVE  /\ i \in 1 .. Len(disc.arch.headers[s].subs)
             /\ disc.arch.headers[s].subs[i] \in SubHeads
             /\ disc.arch.headers[s].subs[i].image \in ImageOf
  <2>1. i \in 1 .. Len(disc.arch.headers[s].subs) /\ disc.arch.headers[s].subs[i] \in SubHeads
    BY <1>2
  <2> QED BY <2>1 DEF SubHeads
<1>4. disc.arch.len \in Nat BY DiscAssumption
<1> QED BY <1>1, <1>2, <1>3, <1>4

\* The tests of scan_blocks accept the headers that are those of a block.
LEMMA GenuineIsAccepted ==
  ASSUME disc \in Discs, NEW s \in DOMAIN disc.arch.headers
  PROVE  Genuine(s) <=> /\ Prefilter(disc.arch.headers[s])
                        /\ Accepted(disc.arch, s, disc.arch.headers[s])
<1> DEFINE h == disc.arch.headers[s]
           n == Len(h.subs)
           L == Lengths(h.subs)
           O == Offsets(s, h)
           x == s * Sector
           y == n * Header
           len == disc.arch.len
<1>1. /\ h \in Heads /\ s \in Nat /\ h.subs \in Seq(SubHeads) /\ n \in Nat
      /\ h.nsec \in Nat /\ h.tlen \in Nat /\ len \in Nat
  BY HeadersTyped
<1>2. Header \in Nat /\ Sector \in Nat /\ Page \in Nat BY FormatAssumption
<1>3. x \in Nat /\ y \in Nat /\ y = Header * n
  <2> HIDE DEF n
  <2> QED BY <1>1, <1>2
<1>4. HeaderLen(h) = Header + y BY DEF HeaderLen
<1>5. L[n] \in Nat /\ L[0] = 0
  <2>1. n \in 0 .. n BY <1>1
  <2> QED BY <2>1, <1>1, LengthsAre
<1>6. O[n + 1] - O[1] = L[n]
  <2>1. 1 \in 1 .. n + 1 /\ n + 1 \in 1 .. n + 1 /\ 1 - 1 = 0 /\ (n + 1) - 1 = n BY <1>1
  <2>2. O[1] = x + HeaderLen(h) + L[0] /\ O[n + 1] = x + HeaderLen(h) + L[n]
    <3>1. \A i \in 1 .. n + 1 : O[i] = x + HeaderLen(h) + L[i - 1] BY <1>1, OffsetsAre
    <3> HIDE DEF O, x, L, h, n
    <3>2. O[1] = x + HeaderLen(h) + L[1 - 1] /\ O[n + 1] = x + HeaderLen(h) + L[(n + 1) - 1]
      BY <3>1, <2>1
    <3> QED BY <3>2, <2>1
  <2>3. x + HeaderLen(h) \in Nat BY <1>3, <1>4, <1>2
  <2> HIDE DEF O, L, x, h
  <2> QED BY <2>2, <2>3, <1>5
<1>7. Genuine(s) <=>
        /\ n \in 1 .. Page - 1 /\ h.zero = 0 /\ h.nsec # 0 /\ h.tlen = L[n]
        /\ Ceil(Header + y + L[n], Sector) = h.nsec /\ x + Header + y <= len
  BY <1>3 DEF Genuine
<1>8. Prefilter(h) /\ Accepted(disc.arch, s, h) <=>
        /\ n \in 1 .. Page - 1
        /\ x + Header <= len /\ h.zero = 0 /\ h.subs # <<>> /\ h.nsec # 0
        /\ x + HeaderLen(h) <= len /\ O[n + 1] - O[1] = h.tlen
        /\ Ceil(HeaderLen(h) + h.tlen, Sector) = h.nsec
  BY DEF Prefilter, Accepted
<1>9. n \in 1 .. Page - 1 => h.subs # <<>> BY <1>1
<1>10. x + (Header + y) = x + Header + y /\ (x + Header + y <= len => x + Header <= len)
  <2>1. \A j, k, m, l \in Nat : j + (k + m) = j + k + m /\ (j + k + m <= l => j + k <= l) OBVIOUS
  <2>2. len \in Nat /\ x \in Nat /\ y \in Nat BY <1>1, <1>3
  <2> HIDE DEF x, y, len
  <2> QED BY <1>2, <2>1, <2>2
<1> HIDE DEF h, n, L, O, x, y, len
<1>11. Genuine(s) <=> Prefilter(h) /\ Accepted(disc.arch, s, h)
  BY <1>4, <1>6, <1>7, <1>8, <1>9, <1>10
<1> QED BY <1>11 DEF h

\* Where the blocks are those of scan_blocks, the overlays are those of the blocks of the
\* archive, each with as much of its image as the archive has.
LEMMA SitesAreGenuine ==
  ASSUME disc \in Discs, blocks = Scanned
  PROVE  /\ {p \in SubBlocks : blocks[p[1]].subs[p[2]].type = OverlayType} = OverlaySites
         /\ \A p \in OverlaySites : ImageAt(p) = ImageThere(p)
<1> DEFINE arch == disc.arch
           B == {t \in DOMAIN arch.headers : Genuine(t) /\ t < arch.len \div Sector}
<1>1. DOMAIN blocks = B /\ \A s \in B : blocks[s] = ParseBlock(s, arch.headers[s])
  BY GenuineIsAccepted DEF Scanned
<1>2. ASSUME NEW s \in B
      PROVE  /\ DOMAIN blocks[s].subs = DOMAIN arch.headers[s].subs
             /\ \A i \in DOMAIN arch.headers[s].subs :
                  blocks[s].subs[i] =
                    [off |-> Offsets(s, arch.headers[s])[i], type |-> arch.headers[s].subs[i].type,
                     dlen |-> arch.headers[s].subs[i].dlen, lzs |-> arch.headers[s].subs[i].lzs,
                     image |-> arch.headers[s].subs[i].image]
  <2> DEFINE h == arch.headers[s]
             S == [i \in DOMAIN h.subs |->
                     [off |-> Offsets(s, h)[i], type |-> h.subs[i].type, dlen |-> h.subs[i].dlen,
                      lzs |-> h.subs[i].lzs, image |-> h.subs[i].image]]
  <2>1. blocks[s] = [nsec |-> h.nsec, subs |-> S] BY <1>1, <1>2 DEF ParseBlock
  <2>2. blocks[s].subs = S
    <3> HIDE DEF S
    <3> QED BY <2>1
  <2> QED BY <2>2
<1>3. SubBlocks = GenuineSubs
  <2>1. GenuineSubs = UNION {{<<s, i>> : i \in DOMAIN arch.headers[s].subs} : s \in B} BY DEF GenuineSubs
  <2>2. SubBlocks = UNION {{<<s, i>> : i \in DOMAIN blocks[s].subs} : s \in B} BY <1>1 DEF SubBlocks
  <2> HIDE DEF B
  <2> QED BY <2>1, <2>2, <1>2
<1>4. ASSUME NEW p \in GenuineSubs
      PROVE  p[1] \in B /\ p[2] \in DOMAIN arch.headers[p[1]].subs
  BY DEF GenuineSubs
<1>5. ASSUME NEW p \in GenuineSubs
      PROVE  blocks[p[1]].subs[p[2]].type = arch.headers[p[1]].subs[p[2]].type
  <2> DEFINE s == p[1]
             i == p[2]
  <2>1. s \in B /\ i \in DOMAIN arch.headers[s].subs BY <1>4
  <2> HIDE DEF s, i, B
  <2> DEFINE h == arch.headers[s]
  <2>2. blocks[s].subs[i] =
          [off |-> Offsets(s, h)[i], type |-> h.subs[i].type, dlen |-> h.subs[i].dlen,
           lzs |-> h.subs[i].lzs, image |-> h.subs[i].image]
    BY <2>1, <1>2
  <2>3. blocks[s].subs[i].type = h.subs[i].type BY <2>2
  <2> QED BY <2>3 DEF s, i
<1>6. ASSUME NEW p \in GenuineSubs PROVE ImageAt(p) = ImageThere(p)
  <2> DEFINE s == p[1]
             i == p[2]
             h == arch.headers[s]
             n == Len(h.subs)
             sub == blocks[s].subs[i]
             x == s * Sector
             y == n * Header
             L == Lengths(h.subs)[i - 1]
             len == arch.len
             left == len - (x + Header + Header * n + L)
  <2>1. s \in B /\ i \in DOMAIN h.subs BY <1>4
  <2>0. sub = [off |-> Offsets(s, h)[i], type |-> h.subs[i].type, dlen |-> h.subs[i].dlen,
               lzs |-> h.subs[i].lzs, image |-> h.subs[i].image]
    <3> HIDE DEF s, i, B
    <3> QED BY <2>1, <1>2
  <2>2. /\ h \in Heads /\ s \in Nat /\ h.subs \in Seq(SubHeads) /\ n \in Nat /\ i \in 1 .. n
        /\ len \in Nat /\ h.subs[i] \in SubHeads
    BY <2>1, HeadersTyped
  <2>3. Header \in Nat /\ Sector \in Nat BY FormatAssumption
  <2>4. x \in Nat /\ y \in Nat /\ y = Header * n
    <3> HIDE DEF n
    <3> QED BY <2>2, <2>3
  <2>5. HeaderLen(h) = Header + y BY DEF HeaderLen
  <2>6. L \in Nat
    <3>1. i - 1 \in 0 .. n
      <4> HIDE DEF i, n, h, s
      <4> QED BY <2>2
    <3>2. Lengths(h.subs) \in [0 .. n -> Nat] BY <2>2, LengthsAre
    <3> HIDE DEF i, n, h
    <3> QED BY <3>1, <3>2
  <2>7. sub.off = x + Header + y + L
    <3>1. i \in 1 .. n + 1
      <4> HIDE DEF i, n, h, s
      <4> QED BY <2>2
    <3>2. Offsets(s, h)[i] = x + HeaderLen(h) + L
      <4>1. \A j \in 1 .. n + 1 : Offsets(s, h)[j] = x + HeaderLen(h) + Lengths(h.subs)[j - 1]
        BY <2>2, OffsetsAre
      <4> HIDE DEF x, h, n
      <4> QED BY <4>1, <3>1
    <3>3. sub.off = Offsets(s, h)[i]
      <4> HIDE DEF sub, i, h, s
      <4> QED BY <2>0
    <3>4. \A j, k, m, l \in Nat : j + (k + m) + l = j + k + m + l OBVIOUS
    <3>5. Offsets(s, h)[i] = x + (Header + y) + L BY <3>2, <2>5
    <3>6. x + (Header + y) + L = x + Header + y + L
      <4>1. x \in Nat /\ y \in Nat BY <2>4
      <4> HIDE DEF x, y, L
      <4> QED BY <4>1, <3>4, <2>6, <2>3
    <3> HIDE DEF sub, x, y, L, h
    <3> QED BY <3>3, <3>5, <3>6
  <2>8. sub.dlen = h.subs[i].dlen /\ sub.lzs = h.subs[i].lzs /\ sub.image = h.subs[i].image
    <3> HIDE DEF sub, i, h, s
    <3> QED BY <2>0
  <2>9. h.subs[i].dlen \in Nat
    <3> HIDE DEF h, i
    <3> QED BY <2>2 DEF SubHeads
  <2>10. Image(sub) = IF sub.lzs \/ sub.off + sub.dlen <= len THEN sub.image
                      ELSE [sub.image EXCEPT !.len = IF sub.off > len THEN 0 ELSE len - sub.off]
    BY DEF Image
  <2>11. Held(s, i) = IF h.subs[i].lzs \/ left >= h.subs[i].dlen THEN h.subs[i].image
                      ELSE [h.subs[i].image EXCEPT !.len = IF left < 0 THEN 0 ELSE left]
    BY DEF Held
  <2>12. /\ sub.off + sub.dlen <= len <=> left >= h.subs[i].dlen
         /\ sub.off > len <=> left < 0
         /\ len - sub.off = left
    <3>1. left = len - (x + Header + y + L) BY <2>4
    <3> DEFINE from == sub.off
               d == h.subs[i].dlen
    <3>2. sub.dlen = d /\ d \in Nat BY <2>8, <2>9
    <3>3. left = len - from /\ from \in Int /\ len \in Int
      <4>1. x \in Nat /\ y \in Nat BY <2>4
      <4> HIDE DEF left, sub, x, y, L, len, h, n
      <4> QED BY <4>1, <3>1, <2>2, <2>3, <2>6, <2>7
    <3> HIDE DEF left, from, len, d, h
    <3>4. from + d <= len <=> left >= d BY <3>2, <3>3
    <3>5. from > len <=> left < 0 BY <3>3
    <3>6. len - from = left BY <3>3
    <3> HIDE DEF sub
    <3> QED BY <3>2, <3>4, <3>5, <3>6 DEF from, d
  <2>13. Image(sub) = Held(s, i)
    <3> DEFINE im == h.subs[i].image
               cut(m) == [im EXCEPT !.len = m]
    <3>1. Image(sub) = IF sub.lzs \/ sub.off + sub.dlen <= len THEN im
                       ELSE cut(IF sub.off > len THEN 0 ELSE len - sub.off)
      BY <2>8, <2>10
    <3>2. Held(s, i) = IF sub.lzs \/ left >= h.subs[i].dlen THEN im
                       ELSE cut(IF left < 0 THEN 0 ELSE left)
      BY <2>8, <2>11
    <3> HIDE DEF left, sub, len, h, im, cut
    <3>3. (IF sub.off > len THEN 0 ELSE len - sub.off) = (IF left < 0 THEN 0 ELSE left) BY <2>12
    <3> QED BY <3>1, <3>2, <3>3, <2>12
  <2> QED BY <2>13 DEF ImageAt, ImageThere
<1>7. {p \in SubBlocks : blocks[p[1]].subs[p[2]].type = OverlayType} = OverlaySites
  BY <1>3, <1>5 DEF OverlaySites
<1>8. OverlaySites \subseteq GenuineSubs BY DEF OverlaySites
<1> QED BY <1>6, <1>7, <1>8

\* An image is typed, one thing stands at an offset of it, and what is shaped like text in the
\* data of a text block does not run over its end: of an image cut off as of a whole one.
LEMMA ImagesTyped ==
  ASSUME disc \in Discs, NEW p \in OverlaySites
  PROVE  /\ ImageThere(p).len \in Int /\ ImageThere(p).blocks \subseteq TextHeads
         /\ OneAtAPlace(ImageThere(p).blocks)
         /\ \A b, outer \in Aligned(ImageThere(p)) :
              Inside(b, outer) => b.at + b.a <= outer.at + outer.a
         /\ p \in Nat \X Nat
<1> DEFINE s == p[1]
           i == p[2]
           subs == disc.arch.headers[s].subs
           sub == subs[i]
           im == sub.image
           there == ImageThere(p)
           left == disc.arch.len - (s * Sector + Header + Header * Len(subs) + Lengths(subs)[i - 1])
<1>1. s \in DOMAIN disc.arch.headers /\ i \in DOMAIN subs /\ p = <<s, i>>
  BY DEF OverlaySites, GenuineSubs
<1>2. /\ s \in Nat /\ subs \in Seq(SubHeads) /\ i \in 1 .. Len(subs) /\ sub \in SubHeads /\ im \in ImageOf
      /\ disc.arch.len \in Nat
  BY <1>1, HeadersTyped
<1>3. i \in Nat BY <1>2
<1>4. OneAtAPlace(im.blocks) /\ (sub.lzs \/ im.len = sub.dlen)
  BY <1>1, DiscAssumption
<1>5. \A b, outer \in Aligned(im) : Inside(b, outer) => b.at + b.a <= outer.at + outer.a
  BY <1>1, NestedAssumption
<1>6. im.len \in Nat /\ im.blocks \subseteq TextHeads /\ sub.dlen \in Nat
  BY <1>2 DEF ImageOf, SubHeads
<1>7. left \in Int
  <2>1. Header \in Nat /\ Sector \in Nat BY FormatAssumption
  <2>2. Len(subs) \in Nat /\ i - 1 \in 0 .. Len(subs)
    <3>1. subs \in Seq(SubHeads) /\ i \in 1 .. Len(subs) BY <1>2
    <3> HIDE DEF subs, i
    <3> QED BY <3>1
  <2>3. Lengths(subs)[i - 1] \in Nat BY <1>2, <2>2, LengthsAre
  <2>4. s * Sector \in Nat /\ Header * Len(subs) \in Nat
    <3>1. \A j, k \in Nat : j * k \in Nat OBVIOUS
    <3> QED BY <3>1, <2>1, <2>2, <1>2
  <2> HIDE DEF s, subs, i
  <2>5. \A v, w, x, y, z \in Nat : v - (w + x + y + z) \in Int OBVIOUS
  <2> QED BY <2>1, <2>3, <2>4, <2>5, <1>2
<1>8. there = IF sub.lzs \/ left >= sub.dlen THEN im ELSE [im EXCEPT !.len = IF left < 0 THEN 0 ELSE left]
  BY DEF ImageThere, Held
<1> HIDE DEF left, s, i, subs, sub, there
<1>9. there.blocks = im.blocks /\ there.len \in Int /\ there.len <= im.len
  <2>1. CASE sub.lzs \/ left >= sub.dlen BY <2>1, <1>8, <1>6
  <2>2. CASE ~(sub.lzs \/ left >= sub.dlen)
    <3> DEFINE m == IF left < 0 THEN 0 ELSE left
    <3>1. m \in Int /\ m <= im.len BY <2>2, <1>4, <1>6, <1>7
    <3>2. there = [im EXCEPT !.len = m] BY <2>2, <1>8
    <3>3. im = [len |-> im.len, blocks |-> im.blocks] BY <1>2 DEF ImageOf
    <3> HIDE DEF m
    <3>4. there.len = m /\ there.blocks = im.blocks BY <3>2, <3>3
    <3> QED BY <3>1, <3>4
  <2> QED BY <2>1, <2>2
<1> HIDE DEF im
<1>10. Aligned(there) \subseteq Aligned(im)
  <2> SUFFICES ASSUME NEW b \in Aligned(there) PROVE b \in Aligned(im) OBVIOUS
  <2>1. b \in im.blocks /\ b \in TextHeads /\ IsText(there, b) /\ b.at % Word = 0
    BY <1>6, <1>9 DEF Aligned
  <2>2. b.at + b.a + Word \in Int BY <2>1 DEF TextHeads, Word
  <2>3. IsText(im, b)
    <3>1. b.at + b.a + Word <= im.len BY <2>1, <2>2, <1>6, <1>9 DEF IsText
    <3> QED BY <3>1, <2>1 DEF IsText
  <2> QED BY <2>1, <2>3 DEF Aligned
<1>11. p \in Nat \X Nat BY <1>1, <1>2, <1>3 DEF i
<1> QED BY <1>4, <1>5, <1>6, <1>9, <1>10, <1>11 DEF there

\* The structural test of scan_image is the layout of FORMAT.md.
LEMMA ClaimsIsText ==
  ASSUME NEW image, image.len \in Int, NEW b \in TextHeads
  PROVE  /\ Claims(image, b) <=> IsText(image, b)
         /\ IsText(image, b) => b.a > TextHeader /\ b.at + b.a + Word <= image.len
         /\ b.at \in Nat /\ b.a \in Nat
<1>1. TextHeader = 24 /\ Word = 4 BY FormatAssumption DEF Word
<1>2. MaxId \in Nat /\ MaxA \in Nat BY FormatAssumption
<1>3. /\ b.at \in Nat /\ b.id \in Nat /\ b.a \in Nat /\ b.c \in Nat /\ b.d \in Nat /\ b.e \in Nat
      /\ b.f6 \in Nat /\ b.self \in BOOLEAN /\ b.parses \in BOOLEAN
  BY DEF TextHeads
<1>4. ASSUME Claims(image, b) PROVE IsText(image, b)
  BY <1>1, <1>2, <1>3, <1>4 DEF Claims, IsText, DictionaryFits
<1>5. ASSUME IsText(image, b) PROVE Claims(image, b)
  BY <1>1, <1>2, <1>3, <1>5 DEF Claims, IsText, DictionaryFits
<1>6. ASSUME IsText(image, b) PROVE b.a > TextHeader /\ b.at + b.a + Word <= image.len
  BY <1>1, <1>2, <1>3, <1>6 DEF IsText
<1> QED BY <1>3, <1>4, <1>5, <1>6

\* What the scan may claim at an offset.
LEMMA ClaimedIsAligned ==
  ASSUME NEW image, image.len \in Int, image.blocks \subseteq TextHeads, NEW o \in Nat, o % Word = 0
  PROVE  Claimed(image, o) = {b \in Aligned(image) : b.at = o}
BY ClaimsIsText DEF Claimed, Aligned

\* Of some text that is shaped like one: where it is, and that it ends in the image.
LEMMA AlignedTyped ==
  ASSUME NEW image, image.len \in Int, image.blocks \subseteq TextHeads, NEW b \in Aligned(image)
  PROVE  /\ b.at \in Nat /\ b.a \in Nat /\ b.a > TextHeader /\ b.at % Word = 0
         /\ b.at + b.a + Word <= image.len /\ b \in image.blocks
BY ClaimsIsText DEF Aligned

----------------------------------------------------------------------------
(* The scan. *)

\* A set of finds as the table of their contents.
Table(found) ==
  [c \in {Contents(f[2]) : f \in found} |->
     {<<f[1][1], f[1][2], f[2].at>> : f \in {g \in found : Contents(g[2]) = c}}]

\* No text ends off a word boundary.
AllEven == \A f \in TextFound : f[2].a % Word = 0

\* What has been found: the text of the images that are done, and what lies before the
\* scan in the current one.
FoundSoFar ==
  {f \in TextFound :
     \/ ImageThere(f[1]) \notin DOMAIN images
     \/ ImageThere(f[1]) = Current /\ f[2].at < at[2]}

SitesOf(image) == {p \in OverlaySites : ImageThere(p) = image}

\* What the scan knows: which images are left and where they are, that it is at a word
\* boundary and in no text, and what it has found.
ScanInv ==
  /\ disc \in Discs
  /\ stage # "archive" => blocks = Scanned
  /\ stage \in {"archive", "exe", "tables", "images"} => entries = [c \in {} |-> {}]
  /\ stage = "images" => at = <<0, 0>>
  /\ stage = "scan" =>
       /\ DOMAIN images \subseteq {ImageThere(p) : p \in OverlaySites}
       /\ \A image \in DOMAIN images : images[image] = SitesOf(image)
       /\ images = [image \in DOMAIN images |-> images[image]]
       /\ at[2] \in Nat
       /\ AllEven =>
            /\ at[2] % Word = 0
            /\ DOMAIN images # {} =>
                 \A outer \in Aligned(Current) : ~(outer.at < at[2] /\ at[2] < outer.at + outer.a)
            /\ entries = Table(FoundSoFar)
  /\ stage = "done" /\ AllEven => entries = Table(TextFound)

\* Of sites, some is the first.
LEMMA FirstSite ==
  ASSUME NEW S, S \subseteq Nat \X Nat, S # {}
  PROVE  \E p \in S : \A q \in S : q # p => Sooner(p, q)
<1> DEFINE X == {p[1] : p \in S}
<1>1. X \subseteq Nat /\ X # {} OBVIOUS
<1>2. PICK x \in X : \A m \in X : x <= m
  <2> HIDE DEF X
  <2> QED BY <1>1, LeastNatural
<1> DEFINE Y == {p[2] : p \in {q \in S : q[1] = x}}
<1>3. Y \subseteq Nat /\ Y # {} OBVIOUS
<1>4. PICK y \in Y : \A m \in Y : y <= m
  <2> HIDE DEF Y
  <2> QED BY <1>3, LeastNatural
<1>5. PICK p \in S : p[1] = x /\ p[2] = y BY <1>4
<1>6. ASSUME NEW q \in S, q # p PROVE Sooner(p, q)
  <2>1. /\ q[1] \in Nat /\ q[2] \in Nat /\ p[1] \in Nat /\ p[2] \in Nat
        /\ p = <<p[1], p[2]>> /\ q = <<q[1], q[2]>>
    OBVIOUS
  <2>2. x <= q[1] BY <1>2
  <2>3. CASE q[1] = x
    <3>1. y <= q[2] BY <2>3, <1>4
    <3>2. q[2] # y BY <2>1, <2>3, <1>5, <1>6
    <3> QED BY <2>1, <2>3, <3>1, <3>2, <1>5 DEF Sooner
  <2>4. CASE q[1] # x BY <2>1, <2>2, <2>4, <1>5 DEF Sooner
  <2> QED BY <2>3, <2>4
<1> QED BY <1>6

\* Of images that are left, one stands before all others.
LEMMA OneIsFirst ==
  ASSUME disc \in Discs, NEW left, DOMAIN left \subseteq {ImageThere(p) : p \in OverlaySites},
         \A image \in DOMAIN left : left[image] = SitesOf(image), DOMAIN left # {}
  PROVE  \E im \in DOMAIN left : \A other \in DOMAIN left \ {im} :
           \E p \in left[im] : \A q \in left[other] : Sooner(p, q)
<1> DEFINE S == {p \in OverlaySites : ImageThere(p) \in DOMAIN left}
<1>1. S \subseteq Nat \X Nat BY ImagesTyped
<1>2. S # {} OBVIOUS
<1>3. PICK p \in S : \A q \in S : q # p => Sooner(p, q)
  <2> HIDE DEF S
  <2> QED BY <1>1, <1>2, FirstSite
<1> DEFINE image == ImageThere(p)
<1>4. image \in DOMAIN left /\ p \in left[image] BY DEF SitesOf
<1>5. ASSUME NEW other \in DOMAIN left \ {image}, NEW q \in left[other] PROVE Sooner(p, q)
  <2>1. q \in S /\ q # p BY <1>5 DEF SitesOf
  <2> QED BY <2>1, <1>3
<1> HIDE DEF image
<1> QED BY <1>4, <1>5

\* While images are left, the current one is one of them.
LEMMA CurrentIsLeft ==
  ASSUME disc \in Discs, DOMAIN images \subseteq {ImageThere(p) : p \in OverlaySites},
         \A image \in DOMAIN images : images[image] = SitesOf(image), DOMAIN images # {}
  PROVE  Current \in DOMAIN images
BY OneIsFirst DEF Current

\* A text at the places of its image: the finds, the sites, and the table with them added.
Pairs(P, b) == {<<p, b>> : p \in P}
Places(P, b) == {<<p[1], p[2], b.at>> : p \in P}
Grown(table, c, sites) ==
  [d \in DOMAIN table \cup {c} |->
     IF d = c THEN (IF c \in DOMAIN table THEN table[c] ELSE {}) \cup sites ELSE table[d]]

\* A find more in the table.
LEMMA TableGrows ==
  ASSUME NEW found, NEW b, NEW P, P # {}
  PROVE  Table(found \cup Pairs(P, b)) = Grown(Table(found), Contents(b), Places(P, b))
<1> DEFINE more == {<<p, b>> : p \in P}
           sites == {<<p[1], p[2], b.at>> : p \in P}
           D(F) == {Contents(f[2]) : f \in F}
           V(F, c) == {<<f[1][1], f[1][2], f[2].at>> : f \in {g \in F : Contents(g[2]) = c}}
           k == Contents(b)
           old == IF k \in D(found) THEN V(found, k) ELSE {}
           was == IF k \in DOMAIN Table(found) THEN Table(found)[k] ELSE {}
<1>1. \A F : Table(F) = [c \in D(F) |-> V(F, c)] BY DEF Table
<1>2. D(found \cup more) = D(found) \cup {k}
  <2>1. \A f \in more : f[2] = b OBVIOUS
  <2>2. \E f \in more : f[2] = b
    <3>1. PICK p \in P : TRUE OBVIOUS
    <3>2. <<p, b>> \in more /\ <<p, b>>[2] = b OBVIOUS
    <3> QED BY <3>2
  <2> HIDE DEF k
  <2>3. D(found \cup more) \subseteq D(found) \cup {k} BY <2>1 DEF k
  <2>4. D(found) \cup {k} \subseteq D(found \cup more) BY <2>2 DEF k
  <2> QED BY <2>3, <2>4
<1>3. ASSUME NEW c, c # k PROVE V(found \cup more, c) = V(found, c)
  <2>1. \A f \in more : f[2] = b OBVIOUS
  <2>2. {g \in found \cup more : Contents(g[2]) = c} = {g \in found : Contents(g[2]) = c}
    BY <2>1, <1>3
  <2> QED BY <2>2
<1>4. V(found \cup more, k) = V(found, k) \cup sites
  <2>1. {g \in found \cup more : Contents(g[2]) = k} = {g \in found : Contents(g[2]) = k} \cup more
    OBVIOUS
  <2>2. {<<f[1][1], f[1][2], f[2].at>> : f \in more} = {<<p[1], p[2], b.at>> : p \in P}
    <3>1. ASSUME NEW p \in P PROVE <<p[1], p[2], b.at>> \in {<<f[1][1], f[1][2], f[2].at>> : f \in more}
      <4>1. <<p, b>> \in more /\ <<p, b>>[1] = p /\ <<p, b>>[2] = b OBVIOUS
      <4> QED BY <4>1
    <3>2. ASSUME NEW f \in more PROVE <<f[1][1], f[1][2], f[2].at>> \in {<<p[1], p[2], b.at>> : p \in P}
      <4>1. PICK p \in P : f = <<p, b>> OBVIOUS
      <4> QED BY <4>1
    <3> QED BY <3>1, <3>2
  <2> HIDE DEF k
  <2> QED BY <2>1, <2>2
<1>5. V(found, k) = old
  <2>1. ASSUME k \notin D(found) PROVE V(found, k) = {} BY <2>1
  <2> HIDE DEF V, D
  <2> QED BY <2>1
<1> HIDE DEF D, V, k
<1>6. [c \in D(found \cup more) |-> V(found \cup more, c)] =
        [c \in D(found) \cup {k} |->
           IF c = k THEN old \cup sites ELSE Table(found)[c]]
  <2>1. ASSUME NEW c \in D(found) \cup {k}
        PROVE  V(found \cup more, c) = IF c = k THEN old \cup sites ELSE Table(found)[c]
    <3>1. CASE c = k BY <3>1, <1>4, <1>5
    <3>2. CASE c # k
      <4>1. c \in D(found) /\ Table(found)[c] = V(found, c) BY <3>2, <1>1
      <4> QED BY <3>2, <4>1, <1>3
    <3> QED BY <3>1, <3>2
  <2> QED BY <2>1, <1>2
<1>7. DOMAIN Table(found) = D(found)
      /\ (k \in D(found) => Table(found)[k] = V(found, k)) BY <1>1
<1>8. old = was BY <1>7 DEF k
<1>9. Table(found \cup more) = [c \in DOMAIN Table(found) \cup {k} |->
                                  IF c = k THEN was \cup sites ELSE Table(found)[c]]
  BY <1>1, <1>6, <1>7, <1>8
<1> QED BY <1>9 DEF k, Pairs, Places, Grown

\* What only depends on the disc stays.
LEMMA DiscStays ==
  ASSUME disc' = disc
  PROVE  /\ OverlaySites' = OverlaySites /\ TextFound' = TextFound /\ Scanned' = Scanned
         /\ (AllEven)' = AllEven
         /\ \A p : ImageThere(p)' = ImageThere(p)
         /\ \A image : SitesOf(image)' = SitesOf(image)
<1>1. \A s : Genuine(s)' = Genuine(s) BY DEF Genuine
<1>2. GenuineSubs' = GenuineSubs BY <1>1 DEF GenuineSubs
<1>3. \A p : ImageThere(p)' = ImageThere(p) BY DEF ImageThere, Held
<1>4. OverlaySites' = OverlaySites BY <1>2 DEF OverlaySites
<1>5. TextFound' = TextFound BY <1>3, <1>4 DEF TextFound
<1>6. \A image : SitesOf(image)' = SitesOf(image) BY <1>3, <1>4 DEF SitesOf
<1>7. Scanned' = Scanned BY DEF Scanned
<1>8. (AllEven)' = AllEven BY <1>5 DEF AllEven
<1> QED BY <1>3, <1>4, <1>5, <1>6, <1>7, <1>8

LEMMA CurrentStays ==
  ASSUME images' = images PROVE Current' = Current
BY DEF Current

\* What has been found, where it is.
LEMMA FoundIs ==
  ASSUME NEW f
  PROVE  f \in TextFound <=> /\ f = <<f[1], f[2]>> /\ f[1] \in OverlaySites
                             /\ f[2] \in TextOf(ImageThere(f[1]))
BY DEF TextFound

\* One turn of the scan.
LEMMA ScanImageInv ==
  ASSUME disc \in Discs, ScanInv, ScanImage
  PROVE  ScanInv'
<1> DEFINE cur == Current
           o == at[2]
           here == Claimed(cur, o)
           P == SitesOf(cur)
           old(c) == IF c \in DOMAIN entries THEN entries[c] ELSE {}
<1>1. /\ stage = "scan" /\ DOMAIN images # {} /\ disc' = disc /\ stage' = "scan" /\ blocks' = blocks
      /\ images' = images
  BY DEF ScanImage
<1>2. /\ DOMAIN images \subseteq {ImageThere(p) : p \in OverlaySites}
      /\ \A image \in DOMAIN images : images[image] = SitesOf(image)
      /\ images = [image \in DOMAIN images |-> images[image]]
      /\ o \in Nat /\ blocks = Scanned
  BY <1>1 DEF ScanInv
<1>3. cur \in DOMAIN images BY <1>1, <1>2, CurrentIsLeft
<1>4. PICK p0 \in OverlaySites : ImageThere(p0) = cur BY <1>2, <1>3
<1>5. /\ cur.len \in Int /\ cur.blocks \subseteq TextHeads /\ OneAtAPlace(cur.blocks)
      /\ \A b, outer \in Aligned(cur) : Inside(b, outer) => b.at + b.a <= outer.at + outer.a
  BY <1>4, ImagesTyped
<1>6. images[cur] = P /\ p0 \in P BY <1>2, <1>3, <1>4 DEF SitesOf
<1>7. /\ OverlaySites' = OverlaySites /\ TextFound' = TextFound /\ Scanned' = Scanned
      /\ (AllEven)' = AllEven
      /\ \A p : ImageThere(p)' = ImageThere(p)
      /\ \A image : SitesOf(image)' = SitesOf(image)
      /\ Current' = cur
  BY <1>1, DiscStays, CurrentStays
<1>8. FoundSoFar' = {f \in TextFound : \/ ImageThere(f[1]) \notin DOMAIN images
                                       \/ ImageThere(f[1]) = cur /\ f[2].at < at'[2]}
  BY <1>1, <1>7 DEF FoundSoFar
<1>9. \/ here = {} /\ at' = <<0, o + Word>> /\ UNCHANGED entries
      \/ \E b \in here :
           /\ at' = <<0, o + b.a>>
           /\ entries' = [c \in DOMAIN entries \cup {Contents(b)} |->
                            IF c = Contents(b) THEN old(c) \cup {<<p[1], p[2], b.at>> : p \in P}
                            ELSE entries[c]]
  BY <1>6 DEF ScanImage
<1>10. at'[2] \in Nat
  <2>1. \A b \in here : b.a \in Nat BY <1>5, ClaimsIsText DEF Claimed
  <2>2. CASE at' = <<0, o + Word>>
    <3>1. at'[2] = o + 4 /\ o \in Nat BY <2>2, <1>2 DEF Word
    <3> HIDE DEF o
    <3> QED BY <3>1
  <2>3. ASSUME NEW b \in here, at' = <<0, o + b.a>> PROVE at'[2] \in Nat
    <3>1. at'[2] = o + b.a /\ o \in Nat /\ b.a \in Nat BY <2>1, <2>3, <1>2
    <3> HIDE DEF o
    <3> QED BY <3>1
  <2> HIDE DEF here, o
  <2> QED BY <1>9, <2>2, <2>3
<1> HIDE DEF cur, P, old
<1>11. ASSUME AllEven
       PROVE  /\ at'[2] % Word = 0
              /\ \A outer \in Aligned(cur) : ~(outer.at < at'[2] /\ at'[2] < outer.at + outer.a)
              /\ entries' = Table(FoundSoFar')
  <2>1. /\ o % Word = 0
        /\ \A outer \in Aligned(cur) : ~(outer.at < o /\ o < outer.at + outer.a)
        /\ entries = Table(FoundSoFar)
    BY <1>1, <1>11 DEF ScanInv, cur
  <2>2. here = {b \in Aligned(cur) : b.at = o} BY <2>1, <1>2, <1>5, ClaimedIsAligned
  <2>3. \A b \in Aligned(cur) : /\ b.at \in Nat /\ b.a \in Nat /\ b.a > 24 /\ b.at % 4 = 0
                                /\ b \in cur.blocks
    BY <1>5, AlignedTyped, FormatAssumption DEF Word
  <2> HIDE DEF here
  <2>4. CASE here = {} /\ at' = <<0, o + Word>> /\ UNCHANGED entries
    <3>1. at'[2] = o + 4 /\ o % 4 = 0 /\ o \in Nat BY <2>4, <2>1, <1>2 DEF Word
    <3> HIDE DEF o
    <3>2. at'[2] % Word = 0 BY <3>1 DEF Word
    <3>3. ASSUME NEW outer \in Aligned(cur), outer.at < o + 4, o <= outer.at PROVE FALSE
      <4>1. outer.at = o BY <3>1, <3>3, <2>3
      <4> QED BY <4>1, <2>2, <2>4
    <3>4. ASSUME NEW outer \in Aligned(cur), outer.at < at'[2], at'[2] < outer.at + outer.a
          PROVE  FALSE
      <4>1. outer.at < o BY <3>1, <3>3, <3>4, <2>3
      <4>2. o < outer.at + outer.a BY <3>1, <3>4, <2>3
      <4> QED BY <4>1, <4>2, <2>1
    <3>5. FoundSoFar' = FoundSoFar
      <4>1. ASSUME NEW f \in TextFound, ImageThere(f[1]) = cur
            PROVE  f[2].at < at'[2] <=> f[2].at < o
        <5>1. f[2] \in Aligned(cur) BY <4>1, FoundIs DEF TextOf
        <5>2. f[2].at \in Nat BY <5>1, <2>3
        <5> QED BY <5>1, <5>2, <3>1, <3>3
      <4> QED BY <4>1, <1>8 DEF FoundSoFar, cur, o
    <3> QED BY <3>2, <3>4, <3>5, <2>4, <2>1
  <2>5. ASSUME NEW b \in here, at' = <<0, o + b.a>>,
               entries' = [c \in DOMAIN entries \cup {Contents(b)} |->
                             IF c = Contents(b) THEN old(c) \cup {<<p[1], p[2], b.at>> : p \in P}
                             ELSE entries[c]]
        PROVE  /\ at'[2] % Word = 0
               /\ \A outer \in Aligned(cur) : ~(outer.at < at'[2] /\ at'[2] < outer.at + outer.a)
               /\ entries' = Table(FoundSoFar')
    <3>1. b \in Aligned(cur) /\ b.at = o BY <2>2
    <3>2. at'[2] = o + b.a /\ o % 4 = 0 /\ o \in Nat BY <2>5, <2>1, <1>2 DEF Word
    <3> HIDE DEF o
    <3>3. b \in TextOf(cur) BY <3>1, <2>1 DEF TextOf, Inside
    <3>4. \A p \in P : <<p, b>> \in TextFound
      <4>1. ASSUME NEW p \in P PROVE <<p, b>> \in TextFound
        <5>1. p \in OverlaySites /\ ImageThere(p) = cur BY DEF P, SitesOf
        <5>2. <<p, b>>[1] = p /\ <<p, b>>[2] = b OBVIOUS
        <5> QED BY <5>1, <5>2, <3>3, FoundIs
      <4> QED BY <4>1
    <3>5. b.a % 4 = 0
      <4>1. <<p0, b>> \in TextFound /\ <<p0, b>>[2] = b BY <3>4, <1>6
      <4> QED BY <4>1, <1>11 DEF AllEven, Word
    <3>6. at'[2] % Word = 0 BY <3>2, <3>5, <3>1, <2>3 DEF Word
    <3>7. ASSUME NEW outer \in Aligned(cur), outer.at < at'[2], at'[2] < outer.at + outer.a
          PROVE  FALSE
      <4>1. outer.at \in Nat /\ outer.a \in Nat /\ b.at \in Nat /\ b.a \in Nat BY <2>3, <3>1
      <4>2. CASE outer.at < o
        <5>1. o < outer.at + outer.a BY <4>1, <3>2, <3>7
        <5> QED BY <4>2, <5>1, <2>1
      <4>3. CASE outer.at = o
        <5>1. outer = b BY <4>3, <3>1, <2>3, <1>5 DEF OneAtAPlace
        <5> QED BY <5>1, <3>2, <3>7, <3>1, <4>1
      <4>4. CASE o < outer.at
        <5>1. Inside(outer, b) BY <4>1, <4>4, <3>1, <3>2, <3>7 DEF Inside
        <5>2. outer.at + outer.a <= b.at + b.a BY <5>1, <3>1, <1>5
        <5> QED BY <5>2, <4>1, <3>1, <3>2, <3>7
      <4> QED BY <4>1, <4>2, <4>3, <4>4, <3>2
    <3>8. FoundSoFar' = FoundSoFar \cup {<<p, b>> : p \in P}
      <4>1. ASSUME NEW f \in TextFound, ImageThere(f[1]) = cur
            PROVE  f[2].at < at'[2] <=> f[2].at < o \/ f \in {<<p, b>> : p \in P}
        <5>1. f[2] \in Aligned(cur) /\ (\A outer \in Aligned(cur) : ~Inside(f[2], outer))
              /\ f = <<f[1], f[2]>> /\ f[1] \in P
          BY <4>1, FoundIs DEF TextOf, P, SitesOf
        <5>2. f[2].at \in Nat /\ b.a \in Nat /\ b.a > 24 BY <5>1, <2>3, <3>1
        <5>3. ASSUME f[2].at < at'[2], ~(f[2].at < o) PROVE f \in {<<p, b>> : p \in P}
          <6>1. f[2].at = o BY <5>1, <5>2, <5>3, <3>1, <3>2 DEF Inside
          <6>2. f[2] = b BY <6>1, <5>1, <3>1, <2>3, <1>5 DEF OneAtAPlace
          <6> QED BY <6>2, <5>1
        <5>4. ASSUME f[2].at < o PROVE f[2].at < at'[2] BY <5>2, <5>4, <3>2
        <5>5. ASSUME f \in {<<p, b>> : p \in P} PROVE f[2].at < at'[2]
          <6>1. f[2] = b BY <5>5
          <6> QED BY <6>1, <3>1, <3>2, <5>2
        <5> QED BY <5>3, <5>4, <5>5
      <4>2. ASSUME NEW p \in P PROVE <<p, b>> \in TextFound /\ ImageThere(<<p, b>>[1]) = cur
        BY <3>4 DEF P, SitesOf
      <4>3. cur \in DOMAIN images BY <1>3
      <4>4. FoundSoFar = {f \in TextFound : \/ ImageThere(f[1]) \notin DOMAIN images
                                            \/ ImageThere(f[1]) = cur /\ f[2].at < o}
        BY DEF FoundSoFar, cur, o
      <4> HIDE DEF P, cur
      <4>5. ASSUME NEW f PROVE f \in FoundSoFar' <=> f \in FoundSoFar \cup {<<p, b>> : p \in P}
        <5>1. CASE f \in TextFound /\ ImageThere(f[1]) = cur BY <5>1, <4>1, <4>3, <4>4, <1>8
        <5>2. CASE ~(f \in TextFound /\ ImageThere(f[1]) = cur)
          <6>1. f \notin {<<p, b>> : p \in P} BY <5>2, <4>2
          <6> QED BY <5>2, <6>1, <4>4, <1>8
        <5> QED BY <5>1, <5>2
      <4> QED BY <4>5
    <3>9. entries' = Table(FoundSoFar')
      <4>1. P # {} BY <1>6
      <4>2. entries = Table(FoundSoFar) BY <2>1
      <4>3. Table(FoundSoFar \cup Pairs(P, b)) = Grown(Table(FoundSoFar), Contents(b), Places(P, b))
        BY <4>1, TableGrows
      <4>4. FoundSoFar' = FoundSoFar \cup Pairs(P, b) BY <3>8 DEF Pairs
      <4>5. entries' = Grown(entries, Contents(b), Places(P, b)) BY <2>5 DEF Grown, Places, old
      <4> QED BY <4>2, <4>3, <4>4, <4>5
    <3> QED BY <3>6, <3>7, <3>9
  <2>6. \/ here = {} /\ at' = <<0, o + Word>> /\ UNCHANGED entries
        \/ \E b \in here :
             /\ at' = <<0, o + b.a>>
             /\ entries' = [c \in DOMAIN entries \cup {Contents(b)} |->
                              IF c = Contents(b) THEN old(c) \cup {<<p[1], p[2], b.at>> : p \in P}
                              ELSE entries[c]]
    BY <1>9
  <2> QED BY <2>4, <2>5, <2>6
<1> QED BY <1>1, <1>2, <1>7, <1>10, <1>11 DEF ScanInv

\* Before the scan nothing is found, and its start is the start of the first image.
LEMMA OverlayImagesInv ==
  ASSUME ScanInv, OverlayImages
  PROVE  ScanInv'
<1>1. /\ stage = "images" /\ stage' = "scan" /\ disc' = disc /\ blocks' = blocks /\ at' = at
      /\ entries' = entries /\ disc \in Discs /\ blocks = Scanned /\ at = <<0, 0>>
      /\ entries = [c \in {} |-> {}]
  BY DEF OverlayImages, ScanInv
<1>2. /\ OverlaySites' = OverlaySites /\ TextFound' = TextFound /\ Scanned' = Scanned
      /\ (AllEven)' = AllEven
      /\ \A p : ImageThere(p)' = ImageThere(p)
      /\ \A image : SitesOf(image)' = SitesOf(image)
  BY <1>1, DiscStays
<1> DEFINE I == {ImageThere(p) : p \in OverlaySites}
<1>3. images' = [image \in I |-> SitesOf(image)]
  <2>1. /\ {p \in SubBlocks : blocks[p[1]].subs[p[2]].type = OverlayType} = OverlaySites
        /\ \A p \in OverlaySites : ImageAt(p) = ImageThere(p)
    BY <1>1, SitesAreGenuine
  <2>2. images' = [image \in {ImageAt(p) : p \in OverlaySites} |-> Where(OverlaySites, image)]
    BY <2>1 DEF OverlayImages
  <2>3. {ImageAt(p) : p \in OverlaySites} = I BY <2>1
  <2>4. \A image : Where(OverlaySites, image) = SitesOf(image) BY <2>1 DEF Where, SitesOf
  <2> HIDE DEF I
  <2> QED BY <2>2, <2>3, <2>4
<1>4. /\ DOMAIN images' = I /\ \A image \in DOMAIN images' : images'[image] = SitesOf(image)
      /\ images' = [image \in DOMAIN images' |-> images'[image]]
  <2> HIDE DEF I
  <2> QED BY <1>3
<1>5. at'[2] = 0 BY <1>1
<1>6. ASSUME DOMAIN images' # {}
      PROVE  \A outer \in Aligned(Current') : ~(outer.at < 0 /\ 0 < outer.at + outer.a)
  <2>1. Current' \in DOMAIN images' BY <1>1, <1>4, <1>6, OneIsFirst DEF Current
  <2>2. PICK p \in OverlaySites : Current' = ImageThere(p) BY <2>1, <1>4
  <2>3. Current'.len \in Int /\ Current'.blocks \subseteq TextHeads BY <2>2, <1>1, ImagesTyped
  <2> QED BY <2>3, AlignedTyped
<1>7. FoundSoFar' = {}
  <2>1. ASSUME NEW f \in TextFound PROVE ImageThere(f[1]) \in DOMAIN images' /\ f[2].at \in Nat
    <3>1. f[1] \in OverlaySites /\ f[2] \in TextOf(ImageThere(f[1])) BY FoundIs
    <3>2. ImageThere(f[1]).len \in Int /\ ImageThere(f[1]).blocks \subseteq TextHeads
      BY <3>1, <1>1, ImagesTyped
    <3>3. f[2].at \in Nat BY <3>1, <3>2, AlignedTyped DEF TextOf
    <3> QED BY <3>1, <3>3, <1>4
  <2>2. \A f \in TextFound : ~(f[2].at < 0) BY <2>1
  <2>3. FoundSoFar' = {f \in TextFound : \/ ImageThere(f[1]) \notin DOMAIN images'
                                         \/ ImageThere(f[1]) = Current' /\ f[2].at < 0}
    BY <1>2, <1>5 DEF FoundSoFar
  <2> QED BY <2>1, <2>2, <2>3
<1>8. Table({}) = [c \in {} |-> {}] BY DEF Table
<1>9. (AllEven' => /\ at'[2] % Word = 0
                   /\ entries' = Table(FoundSoFar'))
  BY <1>1, <1>5, <1>7, <1>8 DEF Word
<1> QED BY <1>1, <1>2, <1>4, <1>5, <1>6, <1>9 DEF ScanInv

\* The scan of an image ends where no text fits any more.
LEMMA NextImageInv ==
  ASSUME ScanInv, NextImage
  PROVE  ScanInv'
<1>1. /\ stage = "scan" /\ disc' = disc /\ blocks' = blocks /\ entries' = entries /\ disc \in Discs
      /\ blocks = Scanned
  BY DEF NextImage, ScanInv
<1>2. /\ OverlaySites' = OverlaySites /\ TextFound' = TextFound /\ Scanned' = Scanned
      /\ (AllEven)' = AllEven
      /\ \A p : ImageThere(p)' = ImageThere(p)
      /\ \A image : SitesOf(image)' = SitesOf(image)
  BY <1>1, DiscStays
<1>3. /\ DOMAIN images \subseteq {ImageThere(p) : p \in OverlaySites}
      /\ \A image \in DOMAIN images : images[image] = SitesOf(image)
      /\ at[2] \in Nat
      /\ AllEven => entries = Table(FoundSoFar)
  BY <1>1 DEF ScanInv
<1>4. ASSUME DOMAIN images = {} PROVE ScanInv'
  <2>1. stage' = "done" BY <1>4 DEF NextImage
  <2>2. FoundSoFar = TextFound BY <1>4 DEF FoundSoFar
  <2> QED BY <1>1, <1>2, <1>3, <2>1, <2>2 DEF ScanInv
<1>5. ASSUME DOMAIN images # {} PROVE ScanInv'
  <2> DEFINE cur == Current
  <2>1. /\ stage' = "scan" /\ at[2] + TextHeader + Word > cur.len /\ at' = <<0, 0>>
        /\ images' = [image \in DOMAIN images \ {cur} |-> images[image]]
    BY <1>1, <1>5 DEF NextImage
  <2>2. /\ DOMAIN images' = DOMAIN images \ {cur}
        /\ \A image \in DOMAIN images' : images'[image] = SitesOf(image)
        /\ images' = [image \in DOMAIN images' |-> images'[image]]
        /\ DOMAIN images' \subseteq {ImageThere(p) : p \in OverlaySites}
        /\ at'[2] = 0
    BY <1>3, <2>1
  <2>3. ASSUME DOMAIN images' # {}
        PROVE  \A outer \in Aligned(Current') : ~(outer.at < 0 /\ 0 < outer.at + outer.a)
    <3>1. Current' \in DOMAIN images' BY <1>1, <2>2, <2>3, OneIsFirst DEF Current
    <3>2. PICK p \in OverlaySites : Current' = ImageThere(p) BY <3>1, <2>2
    <3>3. Current'.len \in Int /\ Current'.blocks \subseteq TextHeads BY <3>2, <1>1, ImagesTyped
    <3> QED BY <3>3, AlignedTyped
  <2>4. cur \in DOMAIN images BY <1>1, <1>3, <1>5, CurrentIsLeft
  <2>5. ASSUME NEW f \in TextFound
        PROVE  /\ f[2].at \in Nat
               /\ ImageThere(f[1]) = cur => f[2].at < at[2]
    <3>1. f[1] \in OverlaySites /\ f[2] \in TextOf(ImageThere(f[1])) BY FoundIs
    <3>2. ImageThere(f[1]).len \in Int /\ ImageThere(f[1]).blocks \subseteq TextHeads
      BY <3>1, <1>1, ImagesTyped
    <3>3. /\ f[2].at \in Nat /\ f[2].a \in Nat /\ f[2].a > TextHeader
          /\ f[2].at + f[2].a + Word <= ImageThere(f[1]).len
      <4>1. f[2] \in TextHeads /\ IsText(ImageThere(f[1]), f[2]) BY <3>1, <3>2 DEF TextOf, Aligned
      <4> QED BY <4>1, <3>2, ClaimsIsText
    <3> QED BY <3>2, <3>3, <2>1, <1>3, FormatAssumption DEF Word
  <2>6. FoundSoFar' = {f \in TextFound : \/ ImageThere(f[1]) \notin DOMAIN images'
                                         \/ ImageThere(f[1]) = Current' /\ f[2].at < 0}
    BY <1>2, <2>2 DEF FoundSoFar
  <2>7. FoundSoFar = {f \in TextFound : \/ ImageThere(f[1]) \notin DOMAIN images
                                        \/ ImageThere(f[1]) = cur /\ f[2].at < at[2]}
    BY DEF FoundSoFar
  <2>8. FoundSoFar' = FoundSoFar
    <3> HIDE DEF cur
    <3>1. \A f \in TextFound : ~(f[2].at < 0) BY <2>5
    <3> QED BY <2>2, <2>4, <2>5, <2>6, <2>7, <3>1
  <2> QED BY <1>1, <1>2, <1>3, <2>1, <2>2, <2>3, <2>8 DEF ScanInv, Word
<1> QED BY <1>4, <1>5

\* Every step keeps what the scan knows.
LEMMA ScanInvStep ==
  ASSUME ScanInv, [LocateNext]_locateVars
  PROVE  ScanInv'
<1>0. disc \in Discs BY DEF ScanInv
<1>1. CASE ScanBlocks
  <2>1. /\ disc' = disc /\ stage = "archive" /\ stage' = "exe" /\ blocks' = Scanned /\ entries' = entries
    BY <1>1 DEF ScanBlocks, Scanned
  <2>2. Scanned' = Scanned BY <2>1, DiscStays
  <2> QED BY <2>1, <2>2 DEF ScanInv
<1>2. CASE ExeBlocks \/ TableRow \/ Sweep
  <2>1. /\ disc' = disc /\ blocks' = blocks /\ entries' = entries
        /\ stage \in {"exe", "tables"} /\ stage' \in {"tables", "raised", "images"}
        /\ stage' = "images" => at' = <<0, 0>>
    BY <1>2 DEF ExeBlocks, TableRow, Sweep
  <2>2. Scanned' = Scanned BY <2>1, DiscStays
  <2> QED BY <2>1, <2>2 DEF ScanInv
<1>3. CASE OverlayImages BY <1>3, OverlayImagesInv
<1>4. CASE ScanImage BY <1>0, <1>4, ScanImageInv
<1>5. CASE NextImage BY <1>5, NextImageInv
<1>6. CASE UNCHANGED locateVars
  <2>1. /\ disc' = disc /\ stage' = stage /\ blocks' = blocks /\ at' = at /\ images' = images
        /\ entries' = entries
    BY <1>6 DEF locateVars
  <2>2. /\ OverlaySites' = OverlaySites /\ TextFound' = TextFound /\ Scanned' = Scanned
        /\ (AllEven)' = AllEven
        /\ \A p : ImageThere(p)' = ImageThere(p)
        /\ \A image : SitesOf(image)' = SitesOf(image)
        /\ Current' = Current
    BY <2>1, DiscStays, CurrentStays
  <2>3. FoundSoFar' = FoundSoFar BY <2>1, <2>2 DEF FoundSoFar
  <2> QED BY <2>1, <2>2, <2>3 DEF ScanInv
<1> QED BY <1>1, <1>2, <1>3, <1>4, <1>5, <1>6 DEF LocateNext

\* Locate: every text block of every overlay of every block of the archive is found at every
\* place it occurs, under its contents, and nothing else is, once the scan is done.
THEOREM EveryOverlayTextIsFound == LocateSpec => []OverlayTextFound
<1>1. LocateInit => ScanInv BY DEF LocateInit, ScanInv
<1>2. ScanInv /\ [LocateNext]_locateVars => ScanInv' BY ScanInvStep
<1>3. ScanInv => OverlayTextFound
  <2> SUFFICES ASSUME ScanInv, stage = "done", \A f \in TextFound : f[2].a % Word = 0
               PROVE  entries = Table(TextFound)
    BY DEF OverlayTextFound, OverlaySites, TextFound, ImageThere, Table
  <2> QED BY DEF ScanInv, AllEven
<1> QED BY <1>1, <1>2, <1>3, PTL DEF LocateSpec

----------------------------------------------------------------------------
(* The references of the executable. *)

\* Ascending is the numbers of a finite set, all of them and each once.
LEMMA AscendingIsAll ==
  ASSUME NEW S, IsFiniteSet(S), S \subseteq Int
  PROVE  /\ DOMAIN Ascending(S) = 1 .. Cardinality(S) /\ Cardinality(S) \in Nat
         /\ \A k \in DOMAIN Ascending(S) : Ascending(S)[k] \in S
         /\ \A x \in S : \E k \in DOMAIN Ascending(S) : Ascending(S)[k] = x
         /\ \A j, k \in DOMAIN Ascending(S) : Ascending(S)[j] = Ascending(S)[k] => j = k
         /\ Ascending(S) \in Seq(S)
<1>1. Ascending(S) = Rising(S) BY DEF Ascending, Rising
<1>2. /\ Cardinality(S) \in Nat /\ Rising(S) \in [1 .. Cardinality(S) -> S]
      /\ \A x \in S : \E k \in 1 .. Cardinality(S) : Rising(S)[k] = x
      /\ \A j, k \in 1 .. Cardinality(S) : Rising(S)[j] = Rising(S)[k] => j = k
  BY RisingIsAll
<1> QED BY <1>1, <1>2

\* What a sequence holds.
ItemsOf(s) == {s[k] : k \in DOMAIN s}
OnceEach(s) == \A j, k \in DOMAIN s : s[j] = s[k] => j = k

\* Two sequences that share nothing, each without a repetition.
LEMMA JoinedOnce ==
  ASSUME NEW T, NEW s \in Seq(T), NEW r \in Seq(T), OnceEach(s), OnceEach(r),
         \A j \in DOMAIN s, k \in DOMAIN r : s[j] # r[k]
  PROVE  /\ OnceEach(s \o r) /\ ItemsOf(s \o r) = ItemsOf(s) \cup ItemsOf(r) /\ s \o r \in Seq(T)
<1> DEFINE m == Len(s)
           n == Len(r)
           j == s \o r
<1>1. /\ m \in Nat /\ n \in Nat /\ DOMAIN s = 1 .. m /\ DOMAIN r = 1 .. n /\ j \in Seq(T)
      /\ DOMAIN j = 1 .. m + n
      /\ \A k \in 1 .. m : j[k] = s[k]
      /\ \A k \in m + 1 .. m + n : j[k] = r[k - m]
  OBVIOUS
<1> HIDE DEF m, n, j
<1>2. \A k \in m + 1 .. m + n : k - m \in DOMAIN r BY <1>1
<1>3. ASSUME NEW k \in DOMAIN j, NEW l \in DOMAIN j, j[k] = j[l] PROVE k = l
  <2>1. CASE k <= m /\ l <= m BY <2>1, <1>1, <1>3 DEF OnceEach
  <2>2. CASE k <= m /\ l > m
    <3>1. l - m \in DOMAIN r /\ j[l] = r[l - m] /\ k \in DOMAIN s /\ j[k] = s[k] BY <2>2, <1>1, <1>2
    <3> QED BY <3>1, <1>3
  <2>3. CASE k > m /\ l <= m
    <3>1. k - m \in DOMAIN r /\ j[k] = r[k - m] /\ l \in DOMAIN s /\ j[l] = s[l] BY <2>3, <1>1, <1>2
    <3> QED BY <3>1, <1>3
  <2>4. CASE k > m /\ l > m
    <3>1. k \in m + 1 .. m + n /\ l \in m + 1 .. m + n BY <2>4, <1>1
    <3>2. k - m \in DOMAIN r /\ l - m \in DOMAIN r BY <3>1, <1>2
    <3>3. r[k - m] = r[l - m] BY <3>1, <1>1, <1>3
    <3>4. k - m = l - m BY <3>2, <3>3 DEF OnceEach
    <3> QED BY <3>4, <1>1
  <2> QED BY <2>1, <2>2, <2>3, <2>4, <1>1
<1>4. ASSUME NEW x \in ItemsOf(j) PROVE x \in ItemsOf(s) \cup ItemsOf(r)
  <2>1. PICK k \in DOMAIN j : x = j[k] BY DEF ItemsOf
  <2>2. CASE k <= m
    <3>1. k \in DOMAIN s /\ x = s[k] BY <2>1, <2>2, <1>1
    <3> QED BY <3>1 DEF ItemsOf
  <2>3. CASE k > m
    <3>1. k - m \in DOMAIN r /\ x = r[k - m] BY <2>1, <2>3, <1>1, <1>2
    <3> QED BY <3>1 DEF ItemsOf
  <2>4. k \in Nat BY <2>1, <1>1
  <2> QED BY <2>2, <2>3, <2>4, <1>1
<1>5. ASSUME NEW x \in ItemsOf(s) PROVE x \in ItemsOf(j) BY <1>1 DEF ItemsOf
<1>6. ASSUME NEW x \in ItemsOf(r) PROVE x \in ItemsOf(j)
  <2>1. PICK k \in 1 .. n : x = r[k] BY <1>1 DEF ItemsOf
  <2>2. k + m \in m + 1 .. m + n /\ (k + m) - m = k BY <1>1
  <2>3. x = j[k + m] /\ k + m \in DOMAIN j BY <2>1, <2>2, <1>1
  <2> QED BY <2>3 DEF ItemsOf
<1>7. OnceEach(j) BY <1>3 DEF OnceEach
<1> QED BY <1>1, <1>4, <1>5, <1>6, <1>7 DEF j

\* The text blocks of the executable, the words that name a string of one of them, and the
\* places the rows of the tables up to a row hold.
Shaped == {b \in disc.exe.blocks : ExeShaped(disc.exe, b)}
Refs ==
  {o \in DOMAIN disc.exe.words : o % Word = 0 /\ InText(o) /\ Resolves(o)}
Before(t, i) ==
  {o \in Int : \E u \in DOMAIN Tables : \E j \in 0 .. MaxRows - 1 : \E k \in DOMAIN Tables[u].fields :
     o = FieldAt(u, j, k) /\ (u < t \/ (u = t /\ j < i))}

\* What the walk knows: each word it has listed is a reference of a row it has passed, listed
\* once; and behind the sweep all references are listed.
RefsInv ==
  /\ disc \in Discs
  /\ stage \in {"archive", "exe"} => listed = <<>>
  /\ stage \in {"tables", "images", "scan", "done"} => exeTexts = Shaped
  /\ stage = "tables" =>
       /\ at[1] \in Nat \ {0} /\ at[2] \in 0 .. MaxRows - 1
       /\ listed \in Seq(Int) /\ OnceEach(listed)
       /\ ItemsOf(listed) \subseteq Refs \cap Before(at[1], at[2])
  /\ stage \in {"images", "scan", "done"} => OnceEach(listed) /\ ItemsOf(listed) = Refs

\* A word is the field of one row of one table.
LEMMA FieldsApart ==
  ASSUME NEW t \in DOMAIN Tables, NEW u \in DOMAIN Tables, NEW i \in 0 .. MaxRows - 1,
         NEW j \in 0 .. MaxRows - 1, NEW k \in DOMAIN Tables[t].fields,
         NEW l \in DOMAIN Tables[u].fields, FieldAt(t, i, k) = FieldAt(u, j, l)
  PROVE  t = u /\ i = j /\ k = l
<1> DEFINE f == <<t, i, k>>
           g == <<u, j, l>>
<1>1. f \in Fields /\ g \in Fields BY DEF Fields
<1>2. FieldAt(f[1], f[2], f[3]) = FieldAt(g[1], g[2], g[3]) OBVIOUS
<1>3. f = g
  <2> HIDE DEF f, g
  <2> QED BY <1>1, <1>2, FieldsAssumption
<1> QED BY <1>3

\* A row of a table.
LEMMA RowIs ==
  ASSUME NEW t \in DOMAIN Tables, NEW i \in 0 .. MaxRows - 1
  PROVE  /\ Row(t, i) \in Seq(Int)
         /\ DOMAIN Row(t, i) = DOMAIN Tables[t].fields
         /\ \A k \in DOMAIN Row(t, i) : Row(t, i)[k] = FieldAt(t, i, k) /\ Row(t, i)[k] % Word = 0
         /\ OnceEach(Row(t, i))
<1> DEFINE fields == Tables[t].fields
<1>1. /\ fields \in Seq(Int) /\ Tables[t].base \in Int /\ Tables[t].stride \in Int
  <2> DEFINE X == [base : Int, stride : Int, fields : Seq(Int)]
  <2>1. Tables \in Seq(X) BY TablesAssumption
  <2>2. Tables[t] \in X
    <3> HIDE DEF X
    <3> QED BY <2>1
  <2> QED BY <2>2
<1>2. i \in Int BY FormatAssumption
<1>3. \A k \in DOMAIN fields : FieldAt(t, i, k) \in Int
  <2>1. \A k \in DOMAIN fields : fields[k] \in Int BY <1>1
  <2>2. Tables[t].stride * i \in Int BY <1>1, <1>2
  <2> QED BY <2>1, <2>2, <1>1 DEF FieldAt
<1>4. Row(t, i) = [k \in DOMAIN fields |-> FieldAt(t, i, k)] BY DEF Row
<1>5. ASSUME NEW k \in DOMAIN fields PROVE FieldAt(t, i, k) % Word = 0
  <2> DEFINE f == <<t, i, k>>
  <2>1. f \in Fields BY DEF Fields
  <2>2. FieldAt(f[1], f[2], f[3]) = FieldAt(t, i, k) OBVIOUS
  <2> HIDE DEF f
  <2> QED BY <2>1, <2>2, FieldsAssumption
<1>6. ASSUME NEW j \in DOMAIN fields, NEW k \in DOMAIN fields, FieldAt(t, i, j) = FieldAt(t, i, k)
      PROVE  j = k
  BY <1>6, FieldsApart
<1>7. Row(t, i) \in Seq(Int)
  <2> HIDE DEF fields
  <2>1. DOMAIN fields = 1 .. Len(fields) /\ Len(fields) \in Nat BY <1>1
  <2> QED BY <2>1, <1>3, <1>4
<1> HIDE DEF fields
<1>8. OnceEach(Row(t, i)) BY <1>4, <1>6 DEF OnceEach
<1> QED BY <1>4, <1>5, <1>7, <1>8 DEF fields

\* What is taken of a row is its first words up to one that stops it.
LEMMA TakenIs ==
  ASSUME NEW row \in Seq(Int)
  PROVE  \E n \in 0 .. Len(row) : /\ Taken(row) = SubSeq(row, 1, n)
                                  /\ \A k \in 1 .. n : ~Stops(row[k])
<1> DEFINE Ok(n) == (\A k \in 1 .. n : ~Stops(row[k])) /\ (n < Len(row) => Stops(row[n + 1]))
           S == {k \in 1 .. Len(row) : Stops(row[k])}
<1>1. Len(row) \in Nat OBVIOUS
<1>2. \E n \in 0 .. Len(row) : Ok(n)
  <2>1. CASE S = {}
    <3>1. Ok(Len(row)) BY <2>1, <1>1
    <3> QED BY <3>1, <1>1
  <2>2. CASE S # {}
    <3>1. S \subseteq Nat BY <1>1
    <3>2. PICK m \in S : \A k \in S : m <= k
      <4> HIDE DEF S
      <4> QED BY <2>2, <3>1, LeastNatural
    <3>3. m - 1 \in 0 .. Len(row) /\ (m - 1) + 1 = m BY <3>1, <1>1
    <3>4. Ok(m - 1)
      <4>1. \A k \in 1 .. m - 1 : k \in 1 .. Len(row) /\ ~(m <= k) BY <1>1, <3>1
      <4>2. \A k \in 1 .. m - 1 : ~Stops(row[k]) BY <4>1, <3>2
      <4>3. Stops(row[(m - 1) + 1]) BY <3>3
      <4> QED BY <4>2, <4>3
    <3> HIDE DEF Ok
    <3> QED BY <3>3, <3>4
  <2> QED BY <2>1, <2>2
<1> DEFINE n == CHOOSE n \in 0 .. Len(row) : Ok(n)
<1>3. n \in 0 .. Len(row) /\ Ok(n)
  <2> HIDE DEF Ok
  <2> QED BY <1>2
<1>4. Taken(row) = SubSeq(row, 1, n) BY DEF Taken
<1> HIDE DEF n
<1> QED BY <1>3, <1>4

\* What is kept of it are references, each once.
LEMMA KeptIs ==
  ASSUME NEW words \in Seq(Int), OnceEach(words)
  PROVE  /\ Kept(words) \in Seq(Int) /\ OnceEach(Kept(words))
         /\ \A k \in DOMAIN Kept(words) :
              \E j \in DOMAIN words : Kept(words)[k] = words[j] /\ Resolves(words[j])
<1> DEFINE K == {k \in DOMAIN words : Resolves(words[k])}
           places == Ascending(K)
<1>1. K \subseteq 1 .. Len(words) /\ Len(words) \in Nat OBVIOUS
<1>2. IsFiniteSet(K) BY <1>1, FS_Interval, FS_Subset
<1>3. K \subseteq Int BY <1>1
<1>4. Kept(words) = [j \in DOMAIN places |-> words[places[j]]] BY DEF Kept
<1>5. K \subseteq DOMAIN words /\ \A k \in K : Resolves(words[k]) OBVIOUS
<1> HIDE DEF K
<1>6. /\ DOMAIN places = 1 .. Cardinality(K) /\ Cardinality(K) \in Nat
      /\ \A k \in DOMAIN places : places[k] \in K
      /\ \A j, k \in DOMAIN places : places[j] = places[k] => j = k
  BY <1>2, <1>3, AscendingIsAll
<1> HIDE DEF places
<1>7. \A k \in DOMAIN places : words[places[k]] \in Int BY <1>5, <1>6
<1>8. Kept(words) \in Seq(Int) BY <1>4, <1>6, <1>7
<1>9. OnceEach(Kept(words)) BY <1>4, <1>5, <1>6 DEF OnceEach
<1>10. \A k \in DOMAIN Kept(words) :
         \E j \in DOMAIN words : Kept(words)[k] = words[j] /\ Resolves(words[j])
  BY <1>4, <1>5, <1>6
<1> QED BY <1>8, <1>9, <1>10

\* A row adds references to the list, of which none is there yet.
LEMMA TableRowInv ==
  ASSUME RefsInv, TableRow
  PROVE  RefsInv'
<1> DEFINE t == at[1]
           i == at[2]
           row == Row(t, i)
           kept == Kept(Taken(row))
<1>1. /\ stage = "tables" /\ stage' = "tables" /\ disc' = disc /\ exeTexts' = exeTexts
      /\ disc \in Discs /\ exeTexts = Shaped
      /\ t \in Nat \ {0} /\ t <= Len(Tables) /\ i \in 0 .. MaxRows - 1
      /\ listed \in Seq(Int) /\ OnceEach(listed)
      /\ ItemsOf(listed) \subseteq Refs \cap Before(t, i)
      /\ listed' = listed \o kept
      /\ \/ at' = <<t + 1, 0>>
         \/ i + 1 # MaxRows /\ at' = <<t, i + 1>>
  BY DEF RefsInv, TableRow
<1>2. Shaped' = Shaped /\ Refs' = Refs
  BY <1>1 DEF Shaped, Refs, InText, Resolves, NamesBlock, ExeIds, ExeIndex
<1>3. MaxRows \in Nat \ {0} BY FormatAssumption
<1>4. t \in DOMAIN Tables
  <2>1. DOMAIN Tables = 1 .. Len(Tables) BY TablesAssumption
  <2> QED BY <2>1, <1>1
<1> HIDE DEF t, i
<1>5. /\ row \in Seq(Int) /\ DOMAIN row = DOMAIN Tables[t].fields
      /\ \A k \in DOMAIN row : row[k] = FieldAt(t, i, k) /\ row[k] % Word = 0
      /\ OnceEach(row)
  BY <1>1, <1>4, RowIs
<1> HIDE DEF row
<1>6. PICK n \in 0 .. Len(row) : /\ Taken(row) = SubSeq(row, 1, n)
                                 /\ \A k \in 1 .. n : ~Stops(row[k])
  BY <1>5, TakenIs
<1> DEFINE taken == SubSeq(row, 1, n)
<1>7. /\ taken \in Seq(Int) /\ DOMAIN taken = 1 .. n /\ 1 .. n \subseteq DOMAIN row
      /\ \A k \in 1 .. n : taken[k] = row[k]
  BY <1>5
<1> HIDE DEF taken
<1>8. OnceEach(taken) BY <1>5, <1>7 DEF OnceEach
<1>9. /\ kept \in Seq(Int) /\ OnceEach(kept)
      /\ \A k \in DOMAIN kept : \E j \in DOMAIN taken : kept[k] = taken[j] /\ Resolves(taken[j])
  <2>1. Taken(row) = taken BY <1>6 DEF taken
  <2> QED BY <2>1, <1>7, <1>8, KeptIs
<1> HIDE DEF kept
<1>10. \A k \in DOMAIN kept : \E j \in DOMAIN row : kept[k] = FieldAt(t, i, j) /\ kept[k] \in Refs
  <2>1. ASSUME NEW k \in DOMAIN kept
        PROVE  \E j \in DOMAIN row : kept[k] = FieldAt(t, i, j) /\ kept[k] \in Refs
    <3>1. PICK j \in 1 .. n : kept[k] = row[j] /\ Resolves(row[j]) BY <1>7, <1>9
    <3>2. j \in DOMAIN row /\ row[j] = FieldAt(t, i, j) /\ row[j] % Word = 0 BY <1>5, <1>7
    <3>3. InText(row[j]) /\ row[j] \in DOMAIN disc.exe.words
      BY <3>1, <1>6 DEF Stops, Resolves, NamesBlock
    <3> QED BY <3>1, <3>2, <3>3 DEF Refs
  <2> QED BY <2>1
<1>11. ASSUME NEW j \in DOMAIN listed, NEW k \in DOMAIN kept PROVE listed[j] # kept[k]
  <2>1. PICK l \in DOMAIN Tables[t].fields : kept[k] = FieldAt(t, i, l) BY <1>5, <1>10
  <2>2. listed[j] \in Before(t, i) BY <1>1 DEF ItemsOf
  <2>2a. PICK u \in DOMAIN Tables : \E h \in 0 .. MaxRows - 1 : \E m \in DOMAIN Tables[u].fields :
          listed[j] = FieldAt(u, h, m) /\ (u < t \/ (u = t /\ h < i))
    BY <2>2 DEF Before
  <2>3. PICK h \in 0 .. MaxRows - 1 : \E m \in DOMAIN Tables[u].fields :
          listed[j] = FieldAt(u, h, m) /\ (u < t \/ (u = t /\ h < i))
    BY <2>2a
  <2>3a. PICK m \in DOMAIN Tables[u].fields :
          listed[j] = FieldAt(u, h, m) /\ (u < t \/ (u = t /\ h < i))
    BY <2>3
  <2>4. SUFFICES ASSUME listed[j] = kept[k] PROVE FALSE OBVIOUS
  <2>5. u = t /\ h = i
    <3>1. FieldAt(t, i, l) = FieldAt(u, h, m) BY <2>1, <2>3a, <2>4
    <3>2. i \in 0 .. MaxRows - 1 BY <1>1
    <3> QED BY <3>1, <3>2, <1>4, FieldsApart
  <2>6. i \in Int /\ t \in Int BY <1>1, <1>3
  <2> QED BY <2>3a, <2>5, <2>6
<1>12. /\ OnceEach(listed \o kept) /\ ItemsOf(listed \o kept) = ItemsOf(listed) \cup ItemsOf(kept)
       /\ listed \o kept \in Seq(Int)
  BY <1>1, <1>9, <1>11, JoinedOnce
<1>13. /\ at'[1] \in Nat \ {0} /\ at'[2] \in 0 .. MaxRows - 1
       /\ t < at'[1] \/ (t = at'[1] /\ i < at'[2])
       /\ t <= at'[1]
  <2>1. CASE at' = <<t + 1, 0>>
    <3>1. at'[1] = t + 1 /\ at'[2] = 0 BY <2>1
    <3> QED BY <3>1, <1>1, <1>3
  <2>2. CASE i + 1 # MaxRows /\ at' = <<t, i + 1>>
    <3>1. at'[1] = t /\ at'[2] = i + 1 BY <2>2
    <3> QED BY <3>1, <2>2, <1>1, <1>3
  <2> QED BY <2>1, <2>2, <1>1
<1>14. Before(t, i) \subseteq Before(at'[1], at'[2])
  <2>1. ASSUME NEW o \in Before(t, i) PROVE o \in Before(at'[1], at'[2])
    <3>0. o \in Int BY DEF Before
    <3>0a. PICK u \in DOMAIN Tables : \E h \in 0 .. MaxRows - 1 : \E m \in DOMAIN Tables[u].fields :
            o = FieldAt(u, h, m) /\ (u < t \/ (u = t /\ h < i))
      BY DEF Before
    <3>1. PICK h \in 0 .. MaxRows - 1 : \E m \in DOMAIN Tables[u].fields :
            o = FieldAt(u, h, m) /\ (u < t \/ (u = t /\ h < i))
      BY <3>0a
    <3>2. u \in Int
      <4>1. DOMAIN Tables = 1 .. Len(Tables) BY TablesAssumption
      <4> QED BY <4>1
    <3>3. u < at'[1] \/ (u = at'[1] /\ h < at'[2])
      <4>1. h \in Int /\ i \in Int BY <1>1, <1>3
      <4> QED BY <3>1, <3>2, <4>1, <1>1, <1>13
    <3> QED BY <3>0, <3>1, <3>3 DEF Before
  <2> QED BY <2>1
<1>15. ItemsOf(kept) \subseteq Refs \cap Before(at'[1], at'[2])
  <2>1. ASSUME NEW k \in DOMAIN kept PROVE kept[k] \in Refs \cap Before(at'[1], at'[2])
    <3>1. PICK l \in DOMAIN Tables[t].fields : kept[k] = FieldAt(t, i, l) /\ kept[k] \in Refs
      BY <1>5, <1>10
    <3>2. kept[k] \in Int BY <1>9
    <3> QED BY <3>1, <3>2, <1>1, <1>4, <1>13 DEF Before
  <2> QED BY <2>1 DEF ItemsOf
<1>16. ItemsOf(listed') \subseteq Refs \cap Before(at'[1], at'[2])
  BY <1>1, <1>12, <1>14, <1>15
<1> QED BY <1>1, <1>2, <1>12, <1>13, <1>16 DEF RefsInv, t, i

\* The sweep lists the rest.
LEMMA SweepInv ==
  ASSUME RefsInv, Sweep
  PROVE  RefsInv'
<1>1. /\ stage = "tables" /\ stage' = "images" /\ disc' = disc /\ exeTexts' = exeTexts
      /\ disc \in Discs /\ exeTexts = Shaped
      /\ listed \in Seq(Int) /\ OnceEach(listed) /\ ItemsOf(listed) \subseteq Refs
      /\ listed' = listed \o Ascending(Swept)
  BY DEF RefsInv, Sweep
<1>2. Shaped' = Shaped /\ Refs' = Refs
  BY <1>1 DEF Shaped, Refs, InText, Resolves, NamesBlock, ExeIds, ExeIndex
<1>3. \A o : o \in Swept <=> o \in Refs /\ o \notin ItemsOf(listed)
  BY DEF Swept, Refs, ItemsOf
<1>4. IsFiniteSet(Swept) /\ Swept \subseteq Int
  <2>1. disc.exe.tsize \in Nat /\ DOMAIN disc.exe.words \subseteq Nat BY <1>1, DiscAssumption
  <2>2. ASSUME NEW o \in Swept PROVE o \in 0 .. disc.exe.tsize
    <3>1. o \in DOMAIN disc.exe.words /\ InText(o) BY DEF Swept
    <3> QED BY <3>1, <2>1 DEF InText, Word
  <2>3. IsFiniteSet(0 .. disc.exe.tsize) BY <2>1, FS_Interval
  <2>4. Swept \subseteq 0 .. disc.exe.tsize BY <2>2
  <2>5. IsFiniteSet(Swept) BY <2>3, <2>4, FS_Subset
  <2> QED BY <2>1, <2>4, <2>5
<1>5. /\ \A k \in DOMAIN Ascending(Swept) : Ascending(Swept)[k] \in Swept
      /\ \A x \in Swept : \E k \in DOMAIN Ascending(Swept) : Ascending(Swept)[k] = x
      /\ OnceEach(Ascending(Swept)) /\ Ascending(Swept) \in Seq(Swept)
  BY <1>4, AscendingIsAll DEF OnceEach
<1>6. ItemsOf(Ascending(Swept)) = Swept BY <1>5 DEF ItemsOf
<1>7. Ascending(Swept) \in Seq(Int)
  <2>1. /\ DOMAIN Ascending(Swept) = 1 .. Cardinality(Swept) /\ Cardinality(Swept) \in Nat
        /\ \A k \in DOMAIN Ascending(Swept) : Ascending(Swept)[k] \in Int
    BY <1>4, <1>5, AscendingIsAll
  <2>2. Ascending(Swept) = [k \in 1 .. Cardinality(Swept) |-> Ascending(Swept)[k]]
    BY <2>1, <1>5
  <2> QED BY <2>1, <2>2
<1>8. \A j \in DOMAIN listed, k \in DOMAIN Ascending(Swept) : listed[j] # Ascending(Swept)[k]
  BY <1>3, <1>5 DEF ItemsOf
<1>9. OnceEach(listed') /\ ItemsOf(listed') = ItemsOf(listed) \cup Swept
  BY <1>1, <1>5, <1>6, <1>7, <1>8, JoinedOnce
<1>10. ItemsOf(listed') = Refs BY <1>1, <1>3, <1>9
<1> QED BY <1>1, <1>2, <1>9, <1>10 DEF RefsInv

\* Every step keeps what the walk knows.
LEMMA RefsInvStep ==
  ASSUME RefsInv, [LocateNext]_locateVars
  PROVE  RefsInv'
<1>1. CASE ExeBlocks
  <2>1. /\ disc' = disc /\ listed' = listed /\ stage = "exe"
        /\ \/ exeTexts' = Shaped /\ stage' = "tables" /\ at' = <<1, 0>>
           \/ stage' = "raised"
    BY <1>1 DEF ExeBlocks, Shaped
  <2>2. disc \in Discs /\ listed = <<>> BY <2>1 DEF RefsInv
  <2>3. Shaped' = Shaped BY <2>1 DEF Shaped
  <2>4. /\ OnceEach(<<>>) /\ <<>> \in Seq(Int)
        /\ ItemsOf(<<>>) = {}
    BY DEF OnceEach, ItemsOf
  <2>5. 1 \in Nat \ {0} /\ 0 \in 0 .. MaxRows - 1 BY FormatAssumption
  <2>6. at' = <<1, 0>> => at'[1] = 1 /\ at'[2] = 0 OBVIOUS
  <2>7. ItemsOf(listed') = {} /\ OnceEach(listed') /\ listed' \in Seq(Int) BY <2>1, <2>2, <2>4
  <2> QED BY <2>1, <2>2, <2>3, <2>5, <2>6, <2>7 DEF RefsInv
<1>2. CASE TableRow BY <1>2, TableRowInv
<1>3. CASE Sweep BY <1>3, SweepInv
<1>4. CASE ScanBlocks \/ OverlayImages \/ ScanImage \/ NextImage \/ UNCHANGED locateVars
  <2>1. /\ disc' = disc /\ listed' = listed /\ exeTexts' = exeTexts
        /\ \/ stage = "archive" /\ stage' = "exe"
           \/ stage \in {"images", "scan"} /\ stage' \in {"images", "scan", "done"}
           \/ stage' = stage /\ at' = at
    BY <1>4 DEF ScanBlocks, OverlayImages, ScanImage, NextImage, locateVars
  <2>2. Shaped' = Shaped /\ (exeTexts = Shaped => Refs' = Refs)
    BY <2>1 DEF Shaped, Refs, InText, Resolves, NamesBlock, ExeIds, ExeIndex
  <2> QED BY <2>1, <2>2 DEF RefsInv
<1> QED BY <1>1, <1>2, <1>3, <1>4 DEF LocateNext

\* The later of two blocks with one id: there is one.
LEMMA LatestThere ==
  ASSUME disc \in Discs, exeTexts = Shaped, NEW id \in ExeIds
  PROVE  \E b \in exeTexts : b.id = id /\ \A other \in exeTexts : other.id = id => other.at <= b.at
<1> DEFINE S == {b \in exeTexts : b.id = id}
           top == disc.exe.tsize
           D == {top - b.at : b \in S}
<1>1. top \in Nat /\ \A b \in S : b.at \in Nat /\ b.at <= top
  <2>1. top \in Nat /\ disc.exe.blocks \subseteq TextHeads BY DiscAssumption
  <2>2. ASSUME NEW b \in S PROVE b.at \in Nat /\ b.at <= top
    <3>1. b \in TextHeads /\ b.at < disc.exe.tsize - TextHeader BY <2>1 DEF Shaped, ExeShaped
    <3>2. b.at \in Nat BY <3>1 DEF TextHeads
    <3> QED BY <3>1, <3>2, <2>1, FormatAssumption DEF Word
  <2> QED BY <2>1, <2>2
<1>2. S # {} BY DEF ExeIds
<1> HIDE DEF top
<1>3. D \subseteq Nat /\ D # {}
  <2>1. ASSUME NEW b \in S PROVE top - b.at \in Nat
    <3>1. b.at \in Nat /\ b.at <= top BY <1>1
    <3> QED BY <3>1, <1>1
  <2> HIDE DEF S
  <2> QED BY <2>1, <1>2
<1>4. PICK d \in D : \A e \in D : d <= e
  <2> HIDE DEF D
  <2> QED BY <1>3, LeastNatural
<1>5. PICK b \in S : d = top - b.at OBVIOUS
<1>6. ASSUME NEW other \in S PROVE other.at <= b.at
  <2>1. top - b.at <= top - other.at BY <1>4, <1>5
  <2>2. b.at \in Nat /\ other.at \in Nat BY <1>1
  <2> HIDE DEF S
  <2> QED BY <2>1, <2>2, <1>1
<1> QED BY <1>6

\* The references are what the property says they are.
LEMMA RefsAre ==
  ASSUME disc \in Discs, exeTexts = Shaped
  PROVE  Refs = {o \in DOMAIN disc.exe.words :
                   /\ o % Word = 0 /\ o + Word <= disc.exe.tsize
                   /\ \E b \in disc.exe.blocks :
                        /\ ExeShaped(disc.exe, b) /\ b.id = disc.exe.words[o].id
                        /\ disc.exe.words[o].string \in 1 .. b.strings
                        /\ \A later \in disc.exe.blocks :
                             ExeShaped(disc.exe, later) /\ later.id = b.id => later.at <= b.at}
<1> DEFINE Latest(b, id) == b.id = id /\ \A other \in Shaped : other.id = id => other.at <= b.at
<1>1. disc.exe.tsize \in Nat /\ DOMAIN disc.exe.words \subseteq Nat /\ disc.exe.blocks \subseteq TextHeads
      /\ OneAtAPlace(disc.exe.blocks)
  BY DiscAssumption
<1>2. ASSUME NEW o \in DOMAIN disc.exe.words PROVE InText(o) <=> o + Word <= disc.exe.tsize
  <2>1. o \in Nat BY <1>1
  <2> QED BY <2>1, <1>1 DEF InText, Word
<1>3. ASSUME NEW b \in Shaped, NEW other \in Shaped, NEW id, Latest(b, id), Latest(other, id)
      PROVE  b = other
  <2>1. b.at \in Nat /\ other.at \in Nat /\ b \in disc.exe.blocks /\ other \in disc.exe.blocks
    BY <1>1 DEF Shaped, TextHeads
  <2>2. b.at <= other.at /\ other.at <= b.at BY <1>3
  <2> QED BY <2>1, <2>2, <1>1 DEF OneAtAPlace
<1>4. ASSUME NEW b \in Shaped, NEW id, Latest(b, id) PROVE id \in ExeIds /\ ExeIndex(id) = b
  <2>1. id \in ExeIds BY <1>4 DEF ExeIds
  <2>2. ExeIndex(id) = CHOOSE c \in Shaped : Latest(c, id) BY DEF ExeIndex
  <2> HIDE DEF Latest
  <2> QED BY <2>1, <2>2, <1>3, <1>4
<1>5. ASSUME NEW id \in ExeIds PROVE \E b \in Shaped : Latest(b, id)
  BY LatestThere
<1>6. ASSUME NEW o \in DOMAIN disc.exe.words
      PROVE  Resolves(o) <=> \E b \in Shaped : /\ Latest(b, disc.exe.words[o].id)
                                               /\ disc.exe.words[o].string \in 1 .. b.strings
  <2> HIDE DEF Latest
  <2> QED BY <1>4, <1>5 DEF Resolves, NamesBlock
<1>7. ASSUME NEW o \in DOMAIN disc.exe.words
      PROVE  (\E b \in Shaped : /\ Latest(b, disc.exe.words[o].id)
                                /\ disc.exe.words[o].string \in 1 .. b.strings)
             <=> \E b \in disc.exe.blocks :
                   /\ ExeShaped(disc.exe, b) /\ b.id = disc.exe.words[o].id
                   /\ disc.exe.words[o].string \in 1 .. b.strings
                   /\ \A later \in disc.exe.blocks :
                        ExeShaped(disc.exe, later) /\ later.id = b.id => later.at <= b.at
  BY DEF Shaped
<1> HIDE DEF Latest
<1> QED BY <1>2, <1>6, <1>7 DEF Refs

\* Locate: a word of the executable that names one of its strings is listed once, by a table
\* or by the sweep, wherever the tables end, and nothing else is.
THEOREM EveryExeReferenceIsListedOnce == LocateSpec => []ExeRefsOnce
<1>1. LocateInit => RefsInv BY DEF LocateInit, RefsInv
<1>2. RefsInv /\ [LocateNext]_locateVars => RefsInv' BY RefsInvStep
<1>3. RefsInv => ExeRefsOnce
  <2> SUFFICES ASSUME RefsInv, stage \in {"images", "scan", "done"} PROVE ExeRefsOnce
    BY DEF ExeRefsOnce
  <2>1. OnceEach(listed) /\ ItemsOf(listed) = Refs /\ exeTexts = Shaped /\ disc \in Discs
    BY DEF RefsInv
  <2> QED BY <2>1, RefsAre DEF ExeRefsOnce, OnceEach, ItemsOf
<1> QED BY <1>1, <1>2, <1>3, PTL DEF LocateSpec
=============================================================================
