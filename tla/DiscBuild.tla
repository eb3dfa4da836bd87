------------------------------ MODULE DiscBuild ------------------------------
(***************************************************************************)
(* A build of a disc image and the checker that may race it: discbuild.py  *)
(* injects the executable and then the archive, each into a copy, sector   *)
(* by sector; preflight.main hashes the image, extracts both files, judges *)
(* them and hashes the image again.  Either process can stand still while  *)
(* the other runs, and the build may die and be started again.             *)
(*                                                                         *)
(* A sector is its user cells and the EDC/ECC over them, which stand for   *)
(* the cells they were computed from.  The verdict on what was extracted   *)
(* is SectorTable's.                                                       *)
(***************************************************************************)
EXTENDS Integers, Sequences

CONSTANTS
  User,        \* cells of user data in a sector
  Cells,       \* what a cell may hold
  Base,        \* the source image: sectors [user, seal]
  Absent,      \* no such file
  Off,         \* the EDC of a Form 2 sector whose mastering left it disabled
  Directory,   \* the sectors that hold the volume descriptor and the directory
  Extent,      \* file name -> [lba, size], lba counted from 1, size in cells
  Payloads,    \* file name -> the payloads a build may inject
  Jobs,        \* the injections of a build, in order: [src, out, name]
  MaxBuilds    \* bound: builds started

Names == <<"exe", "archive">>
Paths == {"base"} \cup {Jobs[j].out : j \in DOMAIN Jobs}

NSec(n) == (Extent[n].size + User - 1) \div User
CellSector(n, c) == Extent[n].lba + (c - 1) \div User   \* where the c-th cell of a file is
CellOf(c) == ((c - 1) % User) + 1

Data   == [1..User -> Cells]
Sector == [user : Data, seal : Data \cup {Off}]

ASSUME DiscAssumption ==
  /\ User \in Nat \ {0} /\ MaxBuilds \in Nat /\ Directory \in Nat
  /\ Off \notin Data /\ Absent \notin Seq(Sector)
  /\ Base \in Seq(Sector)
  /\ \A k \in DOMAIN Base : Base[k].seal \in {Base[k].user, Off}

\* The files of the image are the two that are injected, and share no sector.
ASSUME FileAssumption ==
  /\ DOMAIN Extent = {Names[i] : i \in DOMAIN Names}
  /\ \A n \in DOMAIN Extent :
       /\ Extent[n].lba \in Nat \ {0} /\ Extent[n].size \in Nat \ {0}
       /\ Extent[n].lba + NSec(n) - 1 <= Len(Base)
       /\ Payloads[n] \subseteq Seq(Cells)
  /\ \A m, n \in DOMAIN Extent :
       m # n => \/ Extent[m].lba + NSec(m) <= Extent[n].lba
                \/ Extent[n].lba + NSec(n) <= Extent[m].lba

\* Each injection takes what the one before it left, the last leaves the image.
ASSUME JobAssumption ==
  /\ Len(Jobs) \in Nat \ {0} /\ DOMAIN Jobs = 1..Len(Jobs)
  /\ Jobs[1].src = "base" /\ Jobs[Len(Jobs)].out = "out"
  /\ \A j \in DOMAIN Jobs :
       /\ Jobs[j].out \notin {"base", Jobs[j].src}
       /\ j # 1 => Jobs[j].src = Jobs[j - 1].out
  /\ {Jobs[j].name : j \in DOMAIN Jobs} = DOMAIN Extent

VARIABLES
  files,     \* path -> sectors on disk so far, or Absent
  payload,   \* file name -> what this build injects
  bpc,       \* the builder: "idle", "open", "copy", "write", "done", "refused" or "dead"
  job, pos,
  builds,
  cpc,       \* the checker: "idle", "before", "find", "extract", "after" or its outcome
  before, after,   \* the two hashes, as the sectors they were taken over
  got,       \* file name -> cells extracted
  name, cur, \* which of Names, and the next sector, extract is at
  (* observations, read by no action *)
  truncated, \* has a build truncated the image since the checker began?
  waited     \* was no build running when the checker began, and has none begun?

builder == <<payload, bpc, job, pos, builds>>
checker == <<cpc, before, after, got, name, cur>>
vars == <<files, payload, bpc, job, pos, builds, cpc, before, after, got, name, cur,
          truncated, waited>>

Image == "out"
OnDisk(path) == files[path] # Absent

\* edcecc.fix: a Form 2 sector with a zero EDC is left alone.
Fix(sector) == IF sector.seal = Off THEN sector ELSE [sector EXCEPT !.seal = sector.user]

\* Mutant of Overlay: a short last chunk is padded.
OverlayPadded(sector, p, i) ==
  [sector EXCEPT !.user = [k \in 1..User |-> IF i * User + k <= Len(p) THEN p[i * User + k] ELSE "0"]]

\* The i-th chunk of a payload; a short last one leaves the sector's own tail.
Overlay(sector, p, i) ==
  [sector EXCEPT !.user = [k \in 1..User |-> IF i * User + k <= Len(p) THEN p[i * User + k] ELSE @[k]]]

\* The bytes of a file in an image.
FileIn(image, n) ==
  [c \in 1..Extent[n].size |-> image[CellSector(n, c)].user[CellOf(c)]]

Init ==
  /\ files = [p \in Paths |-> IF p = "base" THEN Base ELSE Absent]
  /\ payload = [n \in DOMAIN Extent |-> <<>>]
  /\ bpc = "idle" /\ job = 1 /\ pos = 0 /\ builds = 0
  /\ cpc = "idle" /\ before = <<>> /\ after = <<>>
  /\ got = [n \in DOMAIN Extent |-> <<>>] /\ name = 1 /\ cur = 1
  /\ truncated = FALSE /\ waited = FALSE

----------------------------------------------------------------------------
(* The build. *)

StartBuild(p) ==
  /\ bpc \in {"idle", "done", "refused", "dead"}
  /\ builds < MaxBuilds
  /\ builds' = builds + 1
  /\ payload' = p
  /\ job' = 1 /\ pos' = 0
  /\ bpc' = "open"
  /\ waited' = FALSE
  /\ UNCHANGED <<files, checker, truncated>>

\* inject up to copyfile: a payload of another size is refused; the copy truncates its target.
InjectOpen ==
  LET j == Jobs[job] IN
  /\ bpc = "open"
  /\ IF Len(payload[j.name]) # Extent[j.name].size
       THEN bpc' = "refused" /\ UNCHANGED <<files, truncated>>
       ELSE /\ bpc' = "copy"
            /\ files' = [files EXCEPT ![j.out] = <<>>]
            /\ truncated' = (truncated \/ j.out = Image)
  /\ UNCHANGED <<payload, job, pos, builds, checker, waited>>

\* Mutant of CopySector: every injection starts from the base.
CopySectorOfBase ==
  LET j == Jobs[job]
      k == Len(files[j.out]) + 1
  IN
  /\ bpc = "copy"
  /\ IF k <= Len(Base)
       THEN files' = [files EXCEPT ![j.out] = Append(@, Base[k])] /\ UNCHANGED <<bpc, pos>>
       ELSE bpc' = "write" /\ pos' = 0 /\ UNCHANGED files
  /\ UNCHANGED <<payload, job, builds, checker, truncated, waited>>

CopySector ==
  LET j == Jobs[job]
      k == Len(files[j.out]) + 1
  IN
  /\ bpc = "copy"
  /\ IF k <= Len(files[j.src])
       THEN files' = [files EXCEPT ![j.out] = Append(@, files[j.src][k])] /\ UNCHANGED <<bpc, pos>>
       ELSE bpc' = "write" /\ pos' = 0 /\ UNCHANGED files
  /\ UNCHANGED <<payload, job, builds, checker, truncated, waited>>

\* One turn of inject's loop, or its end and the next injection.
WriteSector ==
  LET j == Jobs[job]
      k == Extent[j.name].lba + pos
  IN
  /\ bpc = "write"
  /\ IF pos < NSec(j.name)
       THEN /\ files' = [files EXCEPT ![j.out][k] = Fix(Overlay(@, payload[j.name], pos))]
            /\ pos' = pos + 1
            /\ UNCHANGED <<bpc, job>>
       ELSE /\ IF job < Len(Jobs) THEN job' = job + 1 /\ bpc' = "open"
                                  ELSE bpc' = "done" /\ UNCHANGED job
            /\ UNCHANGED <<files, pos>>
  /\ UNCHANGED <<payload, builds, checker, truncated, waited>>

BuildDies ==
  /\ bpc \in {"open", "copy", "write"}
  /\ bpc' = "dead"
  /\ UNCHANGED <<files, payload, job, pos, builds, checker, truncated, waited>>

Builder == InjectOpen \/ CopySector \/ WriteSector

----------------------------------------------------------------------------
(* The checker: preflight.main on the built image, run once. *)

StartCheck ==
  /\ cpc = "idle" /\ OnDisk(Image)
  /\ cpc' = "before"
  /\ truncated' = FALSE /\ waited' = (bpc = "done")
  /\ UNCHANGED <<files, builder, before, after, got, name, cur>>

\* sha256 reads on until the file, as it is at that moment, has no more.
HashBefore ==
  /\ cpc = "before"
  /\ IF Len(before) < Len(files[Image])
       THEN before' = Append(before, files[Image][Len(before) + 1]) /\ UNCHANGED cpc
       ELSE cpc' = "find" /\ UNCHANGED before
  /\ UNCHANGED <<files, builder, after, got, name, cur, truncated, waited>>

\* RawISO.find: a short read of the volume descriptor or the directory is an EOFError.
Find ==
  /\ cpc = "find"
  /\ IF Len(files[Image]) >= Directory
       THEN cpc' = "extract" /\ cur' = Extent[Names[name]].lba
       ELSE cpc' = "error" /\ UNCHANGED cur
  /\ UNCHANGED <<files, builder, before, after, got, name, truncated, waited>>

\* Mutant of Extract: each chunk replaces the last.
ExtractLastChunk ==
  LET n == Names[name] IN
  /\ cpc = "extract"
  /\ IF Len(got[n]) < Extent[n].size
       THEN /\ got' = IF cur <= Len(files[Image])
                        THEN [got EXCEPT ![n] = files[Image][cur].user] ELSE got
            /\ cur' = IF cur <= Len(Base) THEN cur + 1 ELSE cur
            /\ UNCHANGED <<cpc, name>>
       ELSE /\ got' = [got EXCEPT ![n] = SubSeq(@, 1, Extent[n].size)]
            /\ IF name < Len(Names) THEN name' = name + 1 /\ cpc' = "find"
                                    ELSE cpc' = "after" /\ UNCHANGED name
            /\ UNCHANGED cur
  /\ UNCHANGED <<files, builder, before, after, truncated, waited>>

\* RawISO.extract: what lies past the end of the image adds nothing, and the next sector is
\* tried, until enough cells have come.
Extract ==
  LET n == Names[name] IN
  /\ cpc = "extract"
  /\ IF Len(got[n]) < Extent[n].size
       THEN /\ got' = IF cur <= Len(files[Image])
                        THEN [got EXCEPT ![n] = @ \o files[Image][cur].user] ELSE got
            /\ cur' = IF cur <= Len(Base) THEN cur + 1 ELSE cur
            /\ UNCHANGED <<cpc, name>>
       ELSE /\ got' = [got EXCEPT ![n] = SubSeq(@, 1, Extent[n].size)]
            /\ IF name < Len(Names) THEN name' = name + 1 /\ cpc' = "find"
                                    ELSE cpc' = "after" /\ UNCHANGED name
            /\ UNCHANGED cur
  /\ UNCHANGED <<files, builder, before, after, truncated, waited>>

\* Mutant of HashAfter: the hashes are not compared.
HashAfterIgnored ==
  /\ cpc = "after"
  /\ IF Len(after) < Len(files[Image])
       THEN after' = Append(after, files[Image][Len(after) + 1]) /\ UNCHANGED cpc
       ELSE cpc' = "judged" /\ UNCHANGED after
  /\ UNCHANGED <<files, builder, before, got, name, cur, truncated, waited>>

\* The second hash, and the refusal when it is not the first.
HashAfter ==
  /\ cpc = "after"
  /\ IF Len(after) < Len(files[Image])
       THEN after' = Append(after, files[Image][Len(after) + 1]) /\ UNCHANGED cpc
       ELSE cpc' = (IF after = before THEN "judged" ELSE "changed") /\ UNCHANGED after
  /\ UNCHANGED <<files, builder, before, got, name, cur, truncated, waited>>

Checker == HashBefore \/ Find \/ Extract \/ HashAfter

Next ==
  \/ \E p \in [DOMAIN Extent -> UNION {Payloads[n] : n \in DOMAIN Extent}] :
       (\A n \in DOMAIN Extent : p[n] \in Payloads[n]) /\ StartBuild(p)
  \/ Builder \/ BuildDies
  \/ StartCheck \/ Checker

\* A process that can take a step takes one; nobody has to start a build or a check.
Spec == Init /\ [][Next]_vars /\ WF_vars(Checker) /\ WF_vars(Builder)

----------------------------------------------------------------------------
(* Properties. *)

\* Types, a part of BuildIsExact below.
TypeOK ==
  /\ \A p \in Paths : files[p] # Absent => Len(files[p]) <= Len(Base)
  /\ bpc \in {"idle", "open", "copy", "write", "done", "refused", "dead"}
  /\ job \in DOMAIN Jobs /\ builds \in 0..MaxBuilds
  /\ pos \in 0 .. Len(Base)
  /\ cpc \in {"idle", "before", "find", "extract", "after", "judged", "changed", "error"}
  /\ Len(before) <= Len(Base) /\ Len(after) <= Len(Base)
  /\ name \in DOMAIN Names
  /\ cur \in 1 .. Len(Base) + 1
  /\ truncated \in BOOLEAN /\ waited \in BOOLEAN

\* A finished build is the source with the payloads over it and nothing else: the second
\* injection keeps the first, the slack behind a payload and every other sector are the
\* source's, and each seal is over the cells beside it unless the mastering left it off.
BuildIsExact ==
  /\ TypeOK
  /\ bpc = "done" =>
       /\ Len(files[Image]) = Len(Base)
       /\ \A n \in DOMAIN Extent : FileIn(files[Image], n) = payload[n]
       /\ \A k \in DOMAIN Base :
            /\ files[Image][k].seal = IF Base[k].seal = Off THEN Off ELSE files[Image][k].user
            /\ \A u \in 1..User : files[Image][k].user[u] # Base[k].user[u] =>
                 \E n \in DOMAIN Extent : \E c \in 1..Extent[n].size :
                   k = CellSector(n, c) /\ u = CellOf(c)

\* A verdict is a verdict on the image whose hash was printed: when the two hashes agree, the
\* files judged between them are the files of that image, whatever the build was doing.  A
\* build that truncates the image meanwhile is excluded: one that rewrites the same bytes in
\* time cannot be told from one that never ran.
VerdictIsOfTheHash ==
  cpc = "judged" /\ ~truncated =>
    \A n \in DOMAIN Extent :
      Extent[n].lba + NSec(n) - 1 <= Len(before) /\ got[n] = FileIn(before, n)

\* "Wait on the process": a check begun after the build has finished judges what was built.
WaitedCheckIsOfTheBuild ==
  cpc = "judged" /\ waited => \A n \in DOMAIN Extent : got[n] = payload[n]

\* A check of an image that stays whole comes to an end.
WholeImage == files[Image] # Absent /\ Len(files[Image]) = Len(Base)
CheckEnds ==
  (cpc = "before" /\ []WholeImage) ~> (cpc \in {"judged", "changed", "error"})
=============================================================================
