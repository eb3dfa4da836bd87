----------------------------- MODULE DiscProofs -----------------------------
(***************************************************************************)
(* What a build leaves: the archive's level sector table, and the disc image. *)
(*                                                                         *)
(* SectorTable: for a table of any length and any field widths, an archive *)
(* of any size, and a build of any number of steps.                        *)
(*                                                                         *)
(* DiscBuild: for an image of any size, sectors of any size, files of any  *)
(* two sizes, any number of injections and of builds.                      *)
(***************************************************************************)
EXTENDS SectorTable, DiscBuild, NaturalLemmas, FiniteSetTheorems, WellFoundedInduction

(***************************************************************************)
(* The level sector table: SectorTable.                                    *)
(***************************************************************************)

(* Words. *)

\* The flag is the bit above the length and the LBA.
LEMMA Spans == LbaSpan \in Nat \ {0} /\ LenSpan \in Nat \ {0} /\ FlagBit \in Nat \ {0}
               /\ FlagBit = LenSpan * LbaSpan
<1>1. LenSpan * LbaSpan >= LbaSpan BY WordAssumption, AtLeastOnce
<1> QED BY <1>1, WordAssumption

\* The length and the LBA lie below the flag.
LEMMA FieldsBelowFlag ==
  ASSUME NEW len \in Int, NEW lba \in Int, Fits(len, lba)
  PROVE  len * LbaSpan + lba \in 0 .. FlagBit - 1
<1> USE Spans DEF Fits
<1>1. len * LbaSpan \in Nat BY TimesMonotone
<1>2. len * LbaSpan <= (LenSpan - 1) * LbaSpan BY TimesMonotone
<1>3. (LenSpan - 1) * LbaSpan = LenSpan * LbaSpan - LbaSpan OBVIOUS
<1> QED BY <1>1, <1>2, <1>3

\* The flag is one bit.
LEMMA FlagType == ASSUME NEW w \in Words PROVE Flag(w) \in {0, 1}
<1>1. w \in Int /\ 0 * FlagBit <= w /\ w < 2 * FlagBit BY Spans DEF Words
<1>2. w \div FlagBit \in 0 .. 1 BY <1>1, Spans, DivBetween
<1> QED BY <1>2 DEF Flag

\* A packed word is a word, and the flag comes back from it.
LEMMA FlagOfPack ==
  ASSUME NEW len \in Int, NEW lba \in Int, NEW flag \in {0, 1}, Fits(len, lba)
  PROVE  Pack(len, lba, flag) \in Words /\ Flag(Pack(len, lba, flag)) = flag
<1> DEFINE r == len * LbaSpan + lba
           w == Pack(len, lba, flag)
<1>1. r \in 0 .. FlagBit - 1 BY FieldsBelowFlag
<1>2. w = flag * FlagBit + r /\ w \in Int BY <1>1, Spans DEF Pack, Fits
<1>3. w \div FlagBit = flag
  <2> HIDE DEF r, w
  <2> QED BY <1>1, <1>2, Spans, DivModUnique
<1> QED BY <1>1, <1>2, <1>3, Spans DEF Words, Flag

\* What the three fields of a word are.
LEMMA FieldTypes ==
  ASSUME NEW w \in Words PROVE Length(w) \in Nat /\ Lba(w) \in Nat
<1>1. w \in Int /\ w \div LbaSpan \in Int BY Spans, DivMod DEF Words
<1> QED BY <1>1, Spans, DivMod DEF Length, Lba

\* A repacked word is a word with the flag of the one it replaces.
LEMMA RepackKeepsFlag ==
  ASSUME NEW w \in Words, NEW len \in Int, NEW lba \in Int, Fits(len, lba)
  PROVE  Repack(w, len, lba) \in Words /\ Flag(Repack(w, len, lba)) = Flag(w)
BY FlagType, FlagOfPack DEF Repack

\* "Re-encoding a 32-bit word through a correct decoder is the identity for every input" (check 1
\* of check_table): unpack and pack are inverse on every word, and on every three fields.
THEOREM PackInvertsUnpack ==
  /\ \A w \in Words : Pack(Length(w), Lba(w), Flag(w)) = w
  /\ \A len, lba \in Int : \A flag \in {0, 1} :
       Fits(len, lba) => /\ Length(Pack(len, lba, flag)) = len
                         /\ Lba(Pack(len, lba, flag)) = lba
                         /\ Flag(Pack(len, lba, flag)) = flag
<1>1. ASSUME NEW w \in Words PROVE Pack(Length(w), Lba(w), Flag(w)) = w
  <2> DEFINE q == w \div LbaSpan
             top == q \div LenSpan
  <2>1. w \in Int /\ 0 * FlagBit <= w /\ w < 2 * FlagBit BY Spans DEF Words
  <2>2. q \in Int /\ Lba(w) \in 0 .. LbaSpan - 1 /\ w = q * LbaSpan + Lba(w)
    BY <2>1, Spans, DivMod DEF Lba
  <2> HIDE DEF q
  <2>3. top \in Int /\ q % LenSpan \in 0 .. LenSpan - 1 /\ q = top * LenSpan + (q % LenSpan)
    BY <2>2, Spans, DivMod
  <2> HIDE DEF top
  <2>4. Length(w) = q % LenSpan BY DEF Length, q
  <2> DEFINE low == Length(w) * LbaSpan + Lba(w)
  <2>5. low \in 0 .. FlagBit - 1
    BY <2>2, <2>3, <2>4, Spans, FieldsBelowFlag DEF Fits
  <2>6. w = top * FlagBit + low
    <3>1. q * LbaSpan = (top * LenSpan) * LbaSpan + Length(w) * LbaSpan
      <4> DEFINE a == top * LenSpan
      <4>1. a \in Int /\ Length(w) \in Int /\ q = a + Length(w) BY <2>2, <2>3, <2>4, Spans
      <4> HIDE DEF a
      <4>2. q * LbaSpan = a * LbaSpan + Length(w) * LbaSpan BY <4>1, Spans, Distribute
      <4> QED BY <4>2 DEF a
    <3>2. (top * LenSpan) * LbaSpan = top * (LenSpan * LbaSpan) BY <2>3, Spans, TimesAssociates
    <3>3. low = Length(w) * LbaSpan + Lba(w) OBVIOUS
    <3> QED BY <3>1, <3>2, <3>3, <2>2, <2>3, <2>4, <2>5, Spans
  <2> HIDE DEF low
  <2>7. w \div FlagBit = top BY <2>1, <2>3, <2>5, <2>6, Spans, DivModUnique
  <2>8. top \in 0 .. 1 BY <2>1, <2>7, Spans, DivBetween
  <2>9. Flag(w) = top BY <2>7, <2>8 DEF Flag
  <2>10. Pack(Length(w), Lba(w), Flag(w)) = top * FlagBit + low
    BY <2>2, <2>3, <2>4, <2>8, <2>9, Spans DEF Pack, low
  <2> QED BY <2>6, <2>10
<1>2. ASSUME NEW len \in Int, NEW lba \in Int, NEW flag \in {0, 1}, Fits(len, lba)
      PROVE  /\ Length(Pack(len, lba, flag)) = len
             /\ Lba(Pack(len, lba, flag)) = lba
             /\ Flag(Pack(len, lba, flag)) = flag
  <2> DEFINE w == Pack(len, lba, flag)
             q == flag * LenSpan + len
  <2>1. w \in Int /\ q \in Int BY <1>2, Spans, FlagOfPack DEF Words, Fits
  <2>2. w = q * LbaSpan + lba
    <3>1. q * LbaSpan = (flag * LenSpan) * LbaSpan + len * LbaSpan BY Spans
    <3>2. (flag * LenSpan) * LbaSpan = flag * (LenSpan * LbaSpan) BY Spans
    <3> QED BY <3>1, <3>2, Spans DEF Pack
  <2> HIDE DEF w, q
  <2>3. lba \in 0 .. LbaSpan - 1 /\ len \in 0 .. LenSpan - 1 BY <1>2 DEF Fits
  <2>4. w \div LbaSpan = q /\ w % LbaSpan = lba BY <2>1, <2>2, <2>3, Spans, DivModUnique
  <2>5. q % LenSpan = len
    <3>1. q = flag * LenSpan + len /\ flag \in Int BY DEF q
    <3> QED BY <3>1, <2>1, <2>3, Spans, DivModUnique
  <2>6. Length(w) = len /\ Lba(w) = lba BY <2>4, <2>5 DEF Length, Lba
  <2> QED BY <2>6, <1>2, FlagOfPack DEF w
<1> QED BY <1>1, <1>2

\* A word assembled by hand is a word too: it has lost its flag and nothing else.
LEMMA ByHandIsAWord ==
  ASSUME NEW len \in Int, NEW lba \in Int, Fits(len, lba)
  PROVE  ByHand(len, lba) \in Words
BY FieldsBelowFlag, Spans DEF ByHand, Words

----------------------------------------------------------------------------
(* The order check 3 sorts by. *)

\* A finite nonempty set has a member that a transitive irreflexive relation puts last.
LEMMA FirstElement ==
  ASSUME NEW S, IsFiniteSet(S), S # {}, NEW R,
         \A x \in S : <<x, x>> \notin R,
         \A x, y, z \in S : <<x, y>> \in R /\ <<y, z>> \in R => <<x, z>> \in R
  PROVE  \E x \in S : \A y \in S : <<y, x>> \notin R
<1> DEFINE Below(x) == {y \in S : <<y, x>> \in R}
           T == {Below(x) : x \in S}
<1>1. IsWellFoundedOn(StrictSubsetOrdering(S), SUBSET S)
  BY FS_StrictSubsetOrderingWellFounded, FS_FiniteSubsetsOfFinite
<1>2. T \subseteq SUBSET S /\ T # {}
  <2>1. PICK x \in S : TRUE OBVIOUS
  <2>2. Below(x) \in T OBVIOUS
  <2>3. \A y \in S : Below(y) \in SUBSET S OBVIOUS
  <2> HIDE DEF Below
  <2> QED BY <2>2, <2>3
<1>3. PICK D \in T : \A E \in T : <<E, D>> \notin StrictSubsetOrdering(S)
  <2> HIDE DEF T
  <2> QED BY <1>1, <1>2, WFMin
<1>4. PICK x \in S : D = Below(x) BY <1>3
<1>5. ASSUME NEW y \in S, <<y, x>> \in R PROVE FALSE
  <2>1. Below(y) \subseteq Below(x) BY <1>5
  <2>2. y \in Below(x) /\ y \notin Below(y) BY <1>5
  <2>3. <<Below(y), Below(x)>> \in StrictSubsetOrdering(S)
    BY <2>1, <2>2 DEF StrictSubsetOrdering
  <2> QED BY <2>3, <1>3, <1>4
<1> QED BY <1>5

\* The words of a table give every entry a sector and a length.
LEMMA SpanTypes ==
  ASSUME NEW t \in [Slots -> Words], NEW i \in Entries
  PROVE  t[i] \in Words /\ SectorOf(t, i) \in Int /\ Length(t[i]) \in Nat /\ i \in Int
<1>1. i \in Slots BY TableAssumption DEF Entries, Slots
<1>2. t[i] \in Words BY <1>1
<1> QED BY <1>2, FieldTypes, TableAssumption DEF SectorOf, Entries

\* Before orders the live entries.
LEMMA BeforeIsAnOrder ==
  ASSUME NEW t \in [Slots -> Words]
  PROVE  /\ \A i \in Entries : ~Before(t, i, i)
         /\ \A i, j, k \in Entries : Before(t, i, j) /\ Before(t, j, k) => Before(t, i, k)
         /\ \A i, j \in Entries : i = j \/ Before(t, i, j) \/ Before(t, j, i)
BY SpanTypes DEF Before

\* A set of entries that is not empty has a first and a last in that order.
LEMMA FirstAndLast ==
  ASSUME NEW t \in [Slots -> Words], NEW S, S \subseteq Entries, S # {}
  PROVE  /\ \E i \in S : \A k \in S : ~Before(t, k, i)
         /\ \E i \in S : \A k \in S : ~Before(t, i, k)
<1> DEFINE R == {p \in Entries \X Entries : Before(t, p[1], p[2])}
           Q == {p \in Entries \X Entries : Before(t, p[2], p[1])}
<1>1. IsFiniteSet(S)
  <2>1. IsFiniteSet(Entries) BY TableAssumption, FS_Interval DEF Entries
  <2> QED BY <2>1, FS_Subset
<1>2. \A i, j \in Entries : /\ <<i, j>> \in R <=> Before(t, i, j)
                            /\ <<i, j>> \in Q <=> Before(t, j, i)
  OBVIOUS
<1> HIDE DEF R, Q
<1>3. \A i \in S : <<i, i>> \notin R /\ <<i, i>> \notin Q BY <1>2, BeforeIsAnOrder
<1>4. \A i, j, k \in S : /\ <<i, j>> \in R /\ <<j, k>> \in R => <<i, k>> \in R
                         /\ <<i, j>> \in Q /\ <<j, k>> \in Q => <<i, k>> \in Q
  BY <1>2, BeforeIsAnOrder
<1>5. \E i \in S : \A k \in S : <<k, i>> \notin R BY <1>1, <1>3, <1>4, FirstElement
<1>6. \E i \in S : \A k \in S : <<k, i>> \notin Q BY <1>1, <1>3, <1>4, FirstElement
<1> QED BY <1>5, <1>6, <1>2

\* Comparing neighbours is enough: of two entries, the one in the lower sector ends before
\* the other begins.  The last entry of the lower sector and the first entry beyond that sector are
\* neighbours, the one is at least as long as any of its sector, and no entry lies between.
LEMMA NeighboursSuffice ==
  ASSUME NEW t \in [Slots -> Words], NEW live, live \subseteq Entries, NoOverlap(t, live),
         NEW i \in live, NEW j \in live, SectorOf(t, i) < SectorOf(t, j)
  PROVE  SectorOf(t, i) + Length(t[i]) <= SectorOf(t, j)
<1> DEFINE Same == {k \in live : SectorOf(t, k) = SectorOf(t, i)}
           Beyond == {k \in live : SectorOf(t, i) < SectorOf(t, k)}
<1>1. PICK a \in Same : \A k \in Same : ~Before(t, a, k) BY FirstAndLast
<1>2. PICK b \in Beyond : \A k \in Beyond : ~Before(t, k, b) BY FirstAndLast
<1>3. a \in live /\ b \in live /\ a \in Entries /\ b \in Entries /\ i \in Entries /\ j \in Entries
  OBVIOUS
<1>4. Neighbours(t, live, a, b)
  <2>1. Before(t, a, b) BY <1>3, SpanTypes DEF Before
  <2>2. ASSUME NEW k \in live, Before(t, a, k), Before(t, k, b) PROVE FALSE
    <3>1. k \in Entries /\ SectorOf(t, k) >= SectorOf(t, i) BY <2>2, <1>3, SpanTypes DEF Before
    <3>2. CASE SectorOf(t, k) = SectorOf(t, i) BY <3>2, <1>1, <2>2
    <3>3. CASE SectorOf(t, i) < SectorOf(t, k) BY <3>3, <1>2, <2>2
    <3> QED BY <3>1, <3>2, <3>3, <1>3, SpanTypes
  <2> QED BY <2>1, <2>2 DEF Neighbours
<1>5. SectorOf(t, a) + Length(t[a]) <= SectorOf(t, b)
  BY <1>4, <1>3, SpanTypes DEF NoOverlap, Clash
<1>6. Length(t[i]) <= Length(t[a])
  <2>1. a = i \/ Before(t, i, a) BY <1>1, <1>3, BeforeIsAnOrder
  <2> QED BY <2>1, <1>3, SpanTypes DEF Before
<1>7. SectorOf(t, b) <= SectorOf(t, j)
  <2>1. b = j \/ Before(t, b, j) BY <1>2, <1>3, BeforeIsAnOrder
  <2> QED BY <2>1, <1>3, SpanTypes DEF Before
<1> QED BY <1>3, <1>5, <1>6, <1>7, SpanTypes

\* Two entries of one sector claim the same length: the last of those as short as the one and
\* the first of the longer ones would be neighbours.
LEMMA OneLengthPerSector ==
  ASSUME NEW t \in [Slots -> Words], NEW live, live \subseteq Entries, NoOverlap(t, live),
         NEW i \in live, NEW j \in live, SectorOf(t, i) = SectorOf(t, j),
         Length(t[i]) < Length(t[j])
  PROVE  FALSE
<1> DEFINE Same == {k \in live : SectorOf(t, k) = SectorOf(t, i)}
           Short == {k \in Same : Length(t[k]) <= Length(t[i])}
           Long  == {k \in Same : Length(t[i]) < Length(t[k])}
<1>1. i \in Short /\ j \in Long BY SpanTypes
<1>2. PICK a \in Short : \A k \in Short : ~Before(t, a, k) BY <1>1, FirstAndLast
<1>3. PICK b \in Long : \A k \in Long : ~Before(t, k, b) BY <1>1, FirstAndLast
<1>4. a \in live /\ b \in live /\ a \in Entries /\ b \in Entries /\ i \in Entries OBVIOUS
<1>5. Neighbours(t, live, a, b)
  <2>1. Before(t, a, b) BY <1>4, SpanTypes DEF Before
  <2>2. ASSUME NEW k \in live, Before(t, a, k), Before(t, k, b) PROVE FALSE
    <3>1. k \in Entries /\ SectorOf(t, k) = SectorOf(t, i) BY <2>2, <1>4, SpanTypes DEF Before
    <3>2. CASE Length(t[k]) <= Length(t[i]) BY <3>1, <3>2, <1>2, <2>2
    <3>3. CASE Length(t[i]) < Length(t[k]) BY <3>1, <3>3, <1>3, <2>2
    <3> QED BY <3>1, <3>2, <3>3, <1>4, SpanTypes
  <2> QED BY <2>1, <2>2 DEF Neighbours
<1> QED BY <1>4, <1>5, SpanTypes DEF NoOverlap, Clash

\* Check 3 compares neighbours in the sorted order and nothing else, and finds a clash exactly
\* when some two spans clash.
THEOREM NeighboursDecide ==
  ASSUME NEW t \in [Slots -> Words], NEW live, live \subseteq Entries
  PROVE  NoOverlap(t, live) <=> \A i, j \in live : Before(t, i, j) => ~Clash(t, i, j)
<1>1. ASSUME NoOverlap(t, live), NEW i \in live, NEW j \in live, Before(t, i, j)
      PROVE  ~Clash(t, i, j)
  <2>1. i \in Entries /\ j \in Entries OBVIOUS
  <2>2. CASE SectorOf(t, i) = SectorOf(t, j)
    BY <2>1, <2>2, <1>1, OneLengthPerSector, SpanTypes DEF Clash
  <2>3. CASE SectorOf(t, i) < SectorOf(t, j)
    BY <2>1, <2>3, <1>1, NeighboursSuffice, SpanTypes DEF Clash
  <2> QED BY <2>1, <2>2, <2>3, <1>1, SpanTypes DEF Before
<1>2. ASSUME \A i, j \in live : Before(t, i, j) => ~Clash(t, i, j) PROVE NoOverlap(t, live)
  BY <1>2 DEF NoOverlap, Neighbours
<1> QED BY <1>1, <1>2

----------------------------------------------------------------------------
(* The state machine. *)

\* A word of the table is a word, of the build's and of its base's.
LEMMA BaseTypes ==
  ASSUME TableTypeOK PROVE base.table \in [Slots -> Words] /\ table \in [Slots -> Words]
BY TableAssumption DEF TableTypeOK

\* Blocks written at a sector lie where the step's guard lets them.
LEMMA WrittenType ==
  ASSUME NEW a, DOMAIN a \subseteq Sectors,
         \A x \in DOMAIN a : a[x] \in Blocks /\ x + a[x].nsec <= NSectors,
         NEW s \in Sectors, NEW block \in Blocks, s + block.nsec <= NSectors
  PROVE  /\ DOMAIN Written(a, s, block) \subseteq Sectors
         /\ \A x \in DOMAIN Written(a, s, block) :
              /\ Written(a, s, block)[x] \in Blocks
              /\ x + Written(a, s, block)[x].nsec <= NSectors
BY DEF Written

\* The gate that accepted: what it saw is what is there.
GateHeld ==
  phase = "accepted" =>
    CheckTable(base.table, Flagged(base.table),
               IF resolved THEN base.archive ELSE archive, table, archive, ~resized)

\* The types hold.
LEMMA TypesHold == TableSpec => []TableTypeOK
<1>1. ASSUME TableInit PROVE TableTypeOK
  <2>1. base \in Bases /\ table = base.table /\ archive = base.archive BY <1>1 DEF TableInit
  <2>2. table \in [Slots -> Words] /\ DOMAIN archive \subseteq Sectors BY <2>1, TableAssumption
  <2>3. \A s \in DOMAIN archive : archive[s] \in Blocks /\ s + archive[s].nsec <= NSectors
    BY <2>1, TableAssumption
  <2>4. edits \in 0 .. MaxEdits BY <1>1, TableAssumption DEF TableInit
  <2>5. phase = "building" /\ byHand = {} /\ reused = {} /\ resized = FALSE /\ resolved = FALSE
    BY <1>1 DEF TableInit
  <2> QED BY <2>1, <2>2, <2>3, <2>4, <2>5 DEF TableTypeOK
<1>2. TableTypeOK /\ [TableNext]_tableVars => TableTypeOK'
  <2> SUFFICES ASSUME TableTypeOK, [TableNext]_tableVars PROVE TableTypeOK' OBVIOUS
  <2>1. ASSUME NEW s \in Sectors, NEW to \in Sectors, NEW zeroed \in BOOLEAN,
               MoveBlock(s, to, zeroed)
        PROVE  TableTypeOK'
    <3> DEFINE a == IF zeroed THEN Without(archive, s) ELSE archive
    <3>1. /\ DOMAIN a \subseteq Sectors
          /\ \A x \in DOMAIN a : a[x] \in Blocks /\ x + a[x].nsec <= NSectors
      BY DEF TableTypeOK, Without
    <3>2. archive[s] \in Blocks /\ to + archive[s].nsec <= NSectors
          /\ archive' = Written(a, to, archive[s])
      BY <2>1 DEF MoveBlock, TableTypeOK
    <3> HIDE DEF a
    <3>3. /\ DOMAIN archive' \subseteq Sectors
          /\ \A x \in DOMAIN archive' : archive'[x] \in Blocks /\ x + archive'[x].nsec <= NSectors
      BY <3>1, <3>2, WrittenType
    <3>4. reused' \subseteq Sectors
      <4>1. to .. to + archive[s].nsec - 1 \subseteq Sectors
        BY <3>2, TableAssumption DEF Sectors, Blocks
      <4> QED BY <4>1, <2>1 DEF TableTypeOK, MoveBlock
    <3> QED BY <3>3, <3>4, <2>1, TableAssumption DEF TableTypeOK, MoveBlock, Edit
  <2>2. ASSUME NEW s \in Sectors, NEW nsec \in NewLengths, GrowBlock(s, nsec) PROVE TableTypeOK'
    <3> DEFINE block == [archive[s] EXCEPT !.nsec = nsec]
    <3>1. archive[s] \in Blocks /\ nsec > archive[s].nsec /\ s + nsec <= NSectors
      BY <2>2 DEF GrowBlock, TableTypeOK
    <3>2. block \in Blocks /\ block.nsec = nsec BY <3>1, TableAssumption DEF Blocks
    <3>3. archive' = Written(archive, s, block) BY <2>2 DEF GrowBlock
    <3> HIDE DEF block
    <3>4. /\ DOMAIN archive' \subseteq Sectors
          /\ \A x \in DOMAIN archive' : archive'[x] \in Blocks /\ x + archive'[x].nsec <= NSectors
      BY <3>1, <3>2, <3>3, WrittenType DEF TableTypeOK
    <3>5. reused' \subseteq Sectors
      <4>1. s + 1 .. s + nsec - 1 \subseteq Sectors
        BY <3>1, TableAssumption DEF Sectors, Blocks
      <4> QED BY <4>1, <2>2 DEF TableTypeOK, GrowBlock
    <3> QED BY <3>4, <3>5, <2>2, TableAssumption DEF TableTypeOK, GrowBlock, Edit
  <2>3. ASSUME NEW k \in Slots, NEW len \in NewLengths, NEW lba \in NewLbas, Repoint(k, len, lba)
        PROVE  TableTypeOK'
    <3>1. table' \in [Slots -> Words]
      <4>1. len \in Int /\ lba \in Int /\ table[k] \in Words BY TableAssumption DEF TableTypeOK
      <4>2. Fits(len, lba) => Repack(table[k], len, lba) \in Words BY <4>1, RepackKeepsFlag
      <4> QED BY <4>2, <2>3 DEF Repoint, TableTypeOK
    <3> QED BY <3>1, <2>3, TableAssumption DEF TableTypeOK, Repoint, Edit
  <2>4. ASSUME NEW k \in Slots, NEW len \in NewLengths, NEW lba \in NewLbas,
               AssembleByHand(k, len, lba)
        PROVE  TableTypeOK'
    <3>1. table' \in [Slots -> Words]
      <4>1. ByHand(len, lba) \in Words
        BY <2>4, TableAssumption, ByHandIsAWord DEF AssembleByHand
      <4> QED BY <4>1, <2>4 DEF AssembleByHand, TableTypeOK
    <3> QED BY <3>1, <2>4, TableAssumption DEF TableTypeOK, AssembleByHand, Edit
  <2>5. ASSUME NEW baseBlocks \in BOOLEAN, Preflight(baseBlocks) PROVE TableTypeOK'
    BY <2>5 DEF TableTypeOK, Preflight
  <2>6. CASE ResizeExe BY <2>6, TableAssumption DEF TableTypeOK, ResizeExe, Edit
  <2>7. CASE UNCHANGED tableVars BY <2>7 DEF tableVars, TableTypeOK
  <2> QED BY <2>1, <2>2, <2>3, <2>4, <2>5, <2>6, <2>7 DEF TableNext
<1> QED BY <1>1, <1>2, PTL DEF TableSpec

\* Bit 31 of every word that is not assembled by hand is the base's, however many words a
\* build repacks and whatever it asks of them: RepackCarriesFlag of every run of SectorTable.
THEOREM FlagIsCarried == TableSpec => []RepackCarriesFlag
<1> DEFINE Carried == \A k \in Slots \ byHand : Flag(table[k]) = Flag(base.table[k])
<1>1. TableInit => Carried BY DEF TableInit
<1>2. TableTypeOK /\ Carried /\ [TableNext]_tableVars => Carried'
  <2> SUFFICES ASSUME TableTypeOK, Carried, [TableNext]_tableVars PROVE Carried' OBVIOUS
  <2>1. ASSUME NEW s \in Sectors, NEW to \in Sectors, NEW zeroed \in BOOLEAN,
               MoveBlock(s, to, zeroed)
        PROVE  Carried'
    BY <2>1 DEF MoveBlock, Edit
  <2>2. ASSUME NEW s \in Sectors, NEW nsec \in NewLengths, GrowBlock(s, nsec) PROVE Carried'
    BY <2>2 DEF GrowBlock, Edit
  <2>3. ASSUME NEW k \in Slots, NEW len \in NewLengths, NEW lba \in NewLbas, Repoint(k, len, lba)
        PROVE  Carried'
    <3>1. len \in Int /\ lba \in Int /\ table \in [Slots -> Words] /\ table[k] \in Words
      BY TableAssumption DEF TableTypeOK
    <3>2. CASE Fits(len, lba)
      <4>1. Flag(Repack(table[k], len, lba)) = Flag(table[k]) BY <3>1, <3>2, RepackKeepsFlag
      <4>2. \A l \in Slots : Flag(table'[l]) = Flag(table[l])
        BY <4>1, <3>1, <3>2, <2>3 DEF Repoint
      <4> QED BY <4>2, <2>3 DEF Repoint, Edit
    <3>3. CASE ~Fits(len, lba) BY <3>3, <2>3 DEF Repoint, Edit
    <3> QED BY <3>2, <3>3
  <2>4. ASSUME NEW k \in Slots, NEW len \in NewLengths, NEW lba \in NewLbas,
               AssembleByHand(k, len, lba)
        PROVE  Carried'
    BY <2>4 DEF AssembleByHand, Edit, TableTypeOK
  <2>5. ASSUME NEW baseBlocks \in BOOLEAN, Preflight(baseBlocks) PROVE Carried'
    BY <2>5 DEF Preflight
  <2>6. CASE ResizeExe BY <2>6 DEF ResizeExe, Edit
  <2>7. CASE UNCHANGED tableVars BY <2>7 DEF tableVars
  <2> QED BY <2>1, <2>2, <2>3, <2>4, <2>5, <2>6, <2>7 DEF TableNext
<1> QED BY <1>1, <1>2, TypesHold, PTL DEF TableSpec, RepackCarriesFlag

\* What the gate accepted stays as the gate saw it.
LEMMA TheGateHolds == TableSpec => []GateHeld
<1>1. TableInit => GateHeld BY DEF TableInit, GateHeld
<1>2. GateHeld /\ [TableNext]_tableVars => GateHeld'
  <2> SUFFICES ASSUME GateHeld, [TableNext]_tableVars PROVE GateHeld' OBVIOUS
  <2>1. ASSUME NEW s \in Sectors, NEW to \in Sectors, NEW zeroed \in BOOLEAN,
               MoveBlock(s, to, zeroed)
        PROVE  GateHeld'
    BY <2>1 DEF MoveBlock, Edit, GateHeld
  <2>2. ASSUME NEW s \in Sectors, NEW nsec \in NewLengths, GrowBlock(s, nsec) PROVE GateHeld'
    BY <2>2 DEF GrowBlock, Edit, GateHeld
  <2>3. ASSUME NEW k \in Slots, NEW len \in NewLengths, NEW lba \in NewLbas, Repoint(k, len, lba)
        PROVE  GateHeld'
    BY <2>3 DEF Repoint, Edit, GateHeld
  <2>4. ASSUME NEW k \in Slots, NEW len \in NewLengths, NEW lba \in NewLbas,
               AssembleByHand(k, len, lba)
        PROVE  GateHeld'
    BY <2>4 DEF AssembleByHand, Edit, GateHeld
  <2>5. ASSUME NEW baseBlocks \in BOOLEAN, Preflight(baseBlocks) PROVE GateHeld'
    BY <2>5 DEF Preflight, GateHeld
  <2>6. CASE ResizeExe BY <2>6 DEF ResizeExe, Edit, GateHeld
  <2>7. CASE UNCHANGED tableVars BY <2>7 DEF tableVars, GateHeld
  <2> QED BY <2>1, <2>2, <2>3, <2>4, <2>5, <2>6, <2>7 DEF TableNext
<1> QED BY <1>1, <1>2, PTL DEF TableSpec

\* In a table the gate accepts no two levels load a common sector, unless they load the same
\* extent: LoadsDisjoint of every run of SectorTable.
THEOREM NoTwoLevelsOverlap == TableSpec => []LoadsDisjoint
<1>1. TableTypeOK /\ GateHeld => LoadsDisjoint
  <2> DEFINE live == Live(table, archive)
  <2> SUFFICES ASSUME TableTypeOK, GateHeld, phase = "accepted", NEW i \in live, NEW j \in live,
                      SectorOf(table, i) # SectorOf(table, j),
                      NEW d \in 0 .. Length(table[i]) - 1, NEW e \in 0 .. Length(table[j]) - 1,
                      SectorOf(table, i) + d = SectorOf(table, j) + e
               PROVE  FALSE
    BY DEF LoadsDisjoint
  <2>1. table \in [Slots -> Words] BY BaseTypes
  <2>2. live \subseteq Entries /\ NoOverlap(table, live) BY DEF GateHeld, CheckTable, Live
  <2>3. i \in Entries /\ j \in Entries BY <2>2
  <2> HIDE DEF live
  <2>4. CASE SectorOf(table, i) < SectorOf(table, j)
    <3>1. SectorOf(table, i) + Length(table[i]) <= SectorOf(table, j)
      BY <2>1, <2>2, <2>4, NeighboursSuffice
    <3> QED BY <3>1, <2>1, <2>3, SpanTypes
  <2>5. CASE SectorOf(table, j) < SectorOf(table, i)
    <3>1. SectorOf(table, j) + Length(table[j]) <= SectorOf(table, i)
      BY <2>1, <2>2, <2>5, NeighboursSuffice
    <3> QED BY <3>1, <2>1, <2>3, SpanTypes
  <2> QED BY <2>1, <2>3, <2>4, <2>5, SpanTypes
<1> QED BY <1>1, TypesHold, TheGateHolds, PTL

\* A block that begins where no other block was written began there on the base.
BlocksOfTheBase ==
  \A s \in DOMAIN archive \ reused :
    s \in DOMAIN base.archive /\ archive[s].id = base.archive[s].id

LEMMA UnwrittenBlocks == TableSpec => []BlocksOfTheBase
<1>1. TableInit => BlocksOfTheBase BY DEF TableInit, BlocksOfTheBase
<1>2. TableTypeOK /\ BlocksOfTheBase /\ [TableNext]_tableVars => BlocksOfTheBase'
  <2> SUFFICES ASSUME TableTypeOK, BlocksOfTheBase, [TableNext]_tableVars
               PROVE  BlocksOfTheBase'
    OBVIOUS
  <2>1. ASSUME NEW s \in Sectors, NEW to \in Sectors, NEW zeroed \in BOOLEAN,
               MoveBlock(s, to, zeroed)
        PROVE  BlocksOfTheBase'
    <3>1. /\ archive' = Written(IF zeroed THEN Without(archive, s) ELSE archive, to, archive[s])
          /\ base' = base /\ reused \subseteq reused'
          /\ reused' = reused \cup (to .. to + archive[s].nsec - 1)
      BY <2>1 DEF MoveBlock, Edit
    <3>2. to \in reused'
      <4>1. to \in Int /\ archive[s].nsec \in Nat \ {0}
        BY <2>1, TableAssumption DEF MoveBlock, TableTypeOK, Blocks, Sectors
      <4> QED BY <4>1, <3>1
    <3>3. ASSUME NEW x \in DOMAIN archive' \ reused'
          PROVE  x \in DOMAIN archive /\ archive'[x] = archive[x]
      BY <3>1, <3>2 DEF Written, Without
    <3> QED BY <3>1, <3>3 DEF BlocksOfTheBase
  <2>2. ASSUME NEW s \in Sectors, NEW nsec \in NewLengths, GrowBlock(s, nsec)
        PROVE  BlocksOfTheBase'
    <3>1. /\ archive' = Written(archive, s, [archive[s] EXCEPT !.nsec = nsec])
          /\ base' = base /\ reused \subseteq reused' /\ s \in DOMAIN archive
      BY <2>2 DEF GrowBlock, Edit
    <3>2. archive[s] \in Blocks BY <3>1 DEF TableTypeOK
    <3>3. ASSUME NEW x \in DOMAIN archive' \ reused'
          PROVE  x \in DOMAIN archive /\ archive'[x].id = archive[x].id
      BY <3>1, <3>2 DEF Written, Blocks
    <3> QED BY <3>1, <3>3 DEF BlocksOfTheBase
  <2>3. ASSUME NEW k \in Slots, NEW len \in NewLengths, NEW lba \in NewLbas, Repoint(k, len, lba)
        PROVE  BlocksOfTheBase'
    BY <2>3 DEF Repoint, Edit, BlocksOfTheBase
  <2>4. ASSUME NEW k \in Slots, NEW len \in NewLengths, NEW lba \in NewLbas,
               AssembleByHand(k, len, lba)
        PROVE  BlocksOfTheBase'
    BY <2>4 DEF AssembleByHand, Edit, BlocksOfTheBase
  <2>5. ASSUME NEW baseBlocks \in BOOLEAN, Preflight(baseBlocks) PROVE BlocksOfTheBase'
    BY <2>5 DEF Preflight, BlocksOfTheBase
  <2>6. CASE ResizeExe BY <2>6 DEF ResizeExe, Edit, BlocksOfTheBase
  <2>7. CASE UNCHANGED tableVars BY <2>7 DEF tableVars, BlocksOfTheBase
  <2> QED BY <2>1, <2>2, <2>3, <2>4, <2>5, <2>6, <2>7 DEF TableNext
<1> QED BY <1>1, <1>2, TypesHold, PTL DEF TableSpec

\* A level whose block was moved away and whose place was not reused is not accepted as it
\* was, whatever else a build of any length did to table, archive and executable:
\* NoRelocationMissed of every run of SectorTable.
THEOREM MovedBlocksAreMissed == TableSpec => []NoRelocationMissed
<1>1. GateHeld /\ BlocksOfTheBase => NoRelocationMissed
  <2> DEFINE s(i) == SectorOf(base.table, i)
  <2> SUFFICES ASSUME GateHeld, BlocksOfTheBase, phase = "accepted", resolved,
                      NEW i \in Live(base.table, base.archive),
                      s(i) = SectorOf(table, i), s(i) \notin reused
               PROVE  /\ s(i) \in DOMAIN archive
                      /\ archive[s(i)].id = base.archive[s(i)].id
                      /\ archive[s(i)].text => Length(table[i]) = archive[s(i)].nsec
    BY DEF NoRelocationMissed
  <2>1. i \in Live(table, archive) BY DEF GateHeld, CheckTable, LiveKept
  <2>2. SectorOf(table, i) \in DOMAIN archive BY <2>1 DEF Live
  <2>3. TextReach(table, archive, Live(table, archive)) BY DEF GateHeld, CheckTable
  <2>4. archive[s(i)].text => Length(table[i]) = archive[s(i)].nsec
    BY <2>1, <2>2, <2>3 DEF TextReach
  <2> QED BY <2>2, <2>4 DEF BlocksOfTheBase
<1> QED BY <1>1, TheGateHolds, UnwrittenBlocks, PTL

\* The two gates agree: what preflight accepts beside its base, gate 46 passes without it:
\* GatesAgree of every run of SectorTable.
THEOREM PreflightImpliesGate46 == TableSpec => []GatesAgree
<1>1. TableTypeOK /\ GateHeld => GatesAgree
  <2> SUFFICES ASSUME TableTypeOK, GateHeld, phase = "accepted" PROVE Gate46(table, archive)
    BY DEF GatesAgree
  <2>1. Flagged(base.table) = FlaggedIndexes BY TableAssumption DEF TableTypeOK
  <2>2. LiveKept(table, archive, table, Live(table, archive), TRUE) BY DEF LiveKept
  <2> QED BY <2>1, <2>2 DEF GateHeld, CheckTable, Gate46
<1> QED BY <1>1, TypesHold, TheGateHolds, PTL

\* A build that only repacks passes checks 1 and 2, whatever it asked of the words.
THEOREM RepackPassesTheFlagChecks ==
  TableSpec => [](byHand = {} => RoundTrip(table) /\ FlagsKept(Flagged(base.table), table))
<1>1. RepackCarriesFlag =>
        (byHand = {} => RoundTrip(table) /\ FlagsKept(Flagged(base.table), table))
  <2> SUFFICES ASSUME RepackCarriesFlag, byHand = {}
               PROVE  RoundTrip(table) /\ FlagsKept(Flagged(base.table), table)
    OBVIOUS
  <2>1. table \in [Slots -> Words] BY DEF RepackCarriesFlag, TableTypeOK
  <2>2. RoundTrip(table) BY <2>1, SpanTypes, PackInvertsUnpack, WordAssumption DEF RoundTrip
  <2>3. \A i \in Entries : i \in Slots BY TableAssumption DEF Entries, Slots
  <2>4. FlagsKept(Flagged(base.table), table)
    BY <2>3 DEF RepackCarriesFlag, FlagsKept, Flagged
  <2> QED BY <2>2, <2>4
<1> QED BY <1>1, FlagIsCarried, PTL

(***************************************************************************)
(* The build and the checker: DiscBuild.                                   *)
(***************************************************************************)

(* Where the cells of a file are. *)

FileNames == DOMAIN Extent

\* A file has at least one sector, and lies in the source image.
LEMMA FileTypes ==
  ASSUME NEW n \in FileNames
  PROVE  /\ Extent[n].lba \in Nat \ {0} /\ Extent[n].size \in Nat \ {0} /\ NSec(n) \in Nat \ {0}
         /\ Extent[n].lba + NSec(n) - 1 <= Len(Base) /\ Len(Base) \in Nat /\ User \in Nat \ {0}
         /\ NSec(n) <= Len(Base)
<1> DEFINE size == Extent[n].size
<1>1. /\ Extent[n].lba \in Nat \ {0} /\ size \in Nat \ {0}
      /\ Extent[n].lba + NSec(n) - 1 <= Len(Base)
  BY FileAssumption DEF FileNames
<1>2. User \in Nat \ {0} /\ Len(Base) \in Nat BY DiscAssumption
<1>3. NSec(n) \in Int /\ NSec(n) >= 1
  <2> DEFINE x == size + User - 1
  <2>1. x \in Int /\ 1 * User <= x BY <1>1, <1>2
  <2>2. x < (size + 1) * User
    <3>1. size * User >= size
      <4>1. User * size >= size BY <1>1, <1>2, AtLeastOnce
      <4> QED BY <4>1, <1>1, <1>2, Distribute
    <3>2. (size + 1) * User = size * User + 1 * User BY <1>1, <1>2, Distribute
    <3> QED BY <3>1, <3>2, <1>1, <1>2
  <2>3. NSec(n) = x \div User BY DEF NSec
  <2> DEFINE hi == size + 1
             lo == 1
  <2>4. hi \in Int /\ lo \in Int /\ lo * User <= x /\ x < hi * User BY <2>1, <2>2, <1>1
  <2> HIDE DEF x, hi, lo
  <2>5. x \div User \in lo .. hi - 1 BY <2>1, <2>4, <1>2, DivBetween
  <2> QED BY <2>3, <2>5, <2>4, <1>1 DEF lo
<1> QED BY <1>1, <1>2, <1>3

\* The u-th cell of the i-th sector of a file.
LEMMA PlaceOf ==
  ASSUME NEW i \in Int, NEW u \in 1..User
  PROVE  (i * User + u - 1) \div User = i /\ CellOf(i * User + u) = u
<1> DEFINE x == i * User + u - 1
           r == u - 1
<1>1. User \in Nat \ {0} BY DiscAssumption
<1>2. x \in Int /\ r \in 0 .. User - 1 /\ x = i * User + r BY <1>1
<1>3. (i * User + u) - 1 = x /\ u = r + 1 BY <1>1
<1> HIDE DEF x, r
<1>4. x \div User = i /\ x % User = r BY <1>1, <1>2, DivModUnique
<1>5. (i * User + u - 1) \div User = x \div User BY DEF x
<1>6. CellOf(i * User + u) = (x % User) + 1 BY <1>1, <1>3 DEF CellOf
<1> QED BY <1>3, <1>4, <1>5, <1>6

\* The sector and the cell of it where the c-th cell of a file is.
LEMMA Place ==
  ASSUME NEW n \in FileNames, NEW c \in 1 .. Extent[n].size
  PROVE  /\ (c - 1) \div User \in 0 .. NSec(n) - 1
         /\ CellSector(n, c) = Extent[n].lba + (c - 1) \div User
         /\ CellSector(n, c) \in 1 .. Len(Base)
         /\ CellOf(c) \in 1..User
         /\ c = ((c - 1) \div User) * User + CellOf(c)
<1> DEFINE x == c - 1
           size == Extent[n].size
<1>1. size \in Nat \ {0} /\ User \in Nat \ {0} /\ NSec(n) \in Nat \ {0} BY FileTypes
<1>2. x \in Int /\ 0 * User <= x /\ c \in Int BY <1>1
<1>3. x < NSec(n) * User
  <2> DEFINE y == size + User - 1
  <2>1. y \in Int /\ NSec(n) = y \div User BY <1>1 DEF NSec
  <2> HIDE DEF y
  <2>2. y % User \in 0 .. User - 1 /\ y = NSec(n) * User + (y % User) BY <2>1, <1>1, DivMod
  <2>3. x <= y - User BY <1>1 DEF y
  <2>4. NSec(n) * User \in Int BY <1>1
  <2> QED BY <1>1, <1>2, <2>1, <2>2, <2>3, <2>4
<1>4. /\ x \div User \in Int /\ x % User \in 0 .. User - 1 /\ x = (x \div User) * User + (x % User)
  BY <1>1, <1>2, DivMod
<1>5. x \div User \in 0 .. NSec(n) - 1
  <2> DEFINE hi == NSec(n)
             lo == 0
  <2>1. hi \in Int /\ lo \in Int /\ lo * User <= x /\ x < hi * User BY <1>1, <1>2, <1>3
  <2> HIDE DEF x, hi, lo
  <2>2. x \div User \in lo .. hi - 1 BY <2>1, <1>1, <1>2, DivBetween
  <2> QED BY <2>2 DEF lo, hi
<1>6. CellOf(c) = (x % User) + 1 BY DEF CellOf
<1>7. c = x + 1 BY <1>1
<1> HIDE DEF x
<1>8. c = (x \div User) * User + CellOf(c)
  <2>1. (x \div User) * User \in Int BY <1>1, <1>4
  <2> QED BY <1>4, <1>6, <1>7, <2>1
<1>9. CellSector(n, c) = Extent[n].lba + x \div User BY DEF CellSector, x
<1>10. CellSector(n, c) \in 1 .. Len(Base) BY <1>5, <1>9, FileTypes
<1> QED BY <1>1, <1>4, <1>5, <1>6, <1>8, <1>9, <1>10 DEF x

\* The last sector of a file holds a cell of it.
LEMMA LastSector ==
  ASSUME NEW n \in FileNames
  PROVE  \E c \in 1 .. Extent[n].size : CellSector(n, c) = Extent[n].lba + NSec(n) - 1
<1> DEFINE size == Extent[n].size
           i == NSec(n) - 1
           y == size + User - 1
           c == i * User + 1
<1>1. size \in Nat \ {0} /\ User \in Nat \ {0} /\ NSec(n) \in Nat \ {0} /\ Extent[n].lba \in Nat
  BY FileTypes
<1>2. y \in Int /\ NSec(n) = y \div User BY <1>1 DEF NSec
<1>3. y = NSec(n) * User + (y % User) /\ y % User \in 0 .. User - 1
  <2> HIDE DEF y
  <2> QED BY <1>1, <1>2, DivMod
<1>4. i \in Nat /\ NSec(n) = i + 1 BY <1>1
<1>5. y = size + User - 1 OBVIOUS
<1> HIDE DEF i, y
<1>6. (i + 1) * User = i * User + 1 * User /\ i * User \in Nat /\ 1 * User = User
  BY <1>1, <1>4, Distribute
<1>7. c \in 1 .. size BY <1>1, <1>3, <1>4, <1>5, <1>6
<1>8. c - 1 = i * User BY <1>6
<1>9. (c - 1) \div User = i
  <2>1. 1 \in 1 .. User /\ i \in Int BY <1>1, <1>4
  <2>2. (i * User + 1 - 1) \div User = i BY <2>1, PlaceOf, Zenon
  <2>3. i * User + 1 - 1 = i * User BY <1>6
  <2> QED BY <2>2, <2>3, <1>8
<1>10. CellSector(n, c) = Extent[n].lba + NSec(n) - 1 BY <1>1, <1>4, <1>9 DEF CellSector
<1> QED BY <1>7, <1>10

\* Two files share no sector.
LEMMA Apart ==
  ASSUME NEW m \in FileNames, NEW n \in FileNames, m # n,
         NEW c \in 1 .. Extent[m].size, NEW i \in 0 .. NSec(n) - 1
  PROVE  CellSector(m, c) # Extent[n].lba + i
<1> DEFINE j == (c - 1) \div User
<1>1. j \in 0 .. NSec(m) - 1 /\ CellSector(m, c) = Extent[m].lba + j BY Place
<1> HIDE DEF j
<1>2. /\ Extent[m].lba \in Int /\ Extent[n].lba \in Int /\ NSec(m) \in Int /\ NSec(n) \in Int
  BY FileTypes
<1>3. \/ Extent[m].lba + NSec(m) <= Extent[n].lba
      \/ Extent[n].lba + NSec(n) <= Extent[m].lba
  BY FileAssumption DEF FileNames
<1> QED BY <1>1, <1>2, <1>3

----------------------------------------------------------------------------
(* A sector that is written. *)

\* What one turn of inject leaves in a sector.
LEMMA WrittenSector ==
  ASSUME NEW sector \in Sector, NEW p \in Seq(Cells), NEW i \in Nat
  PROVE  LET new == Fix(Overlay(sector, p, i)) IN
         /\ new \in Sector
         /\ \A u \in 1..User : new.user[u] = IF i * User + u <= Len(p) THEN p[i * User + u]
                                                                     ELSE sector.user[u]
         /\ new.seal = IF sector.seal = Off THEN Off ELSE new.user
<1> DEFINE laid == Overlay(sector, p, i)
           data == [u \in 1..User |-> IF i * User + u <= Len(p) THEN p[i * User + u]
                                                                ELSE sector.user[u]]
<1>1. sector.user \in Data /\ sector.seal \in Data \cup {Off} BY DEF Sector
<1>2. data \in Data
  <2> SUFFICES ASSUME NEW u \in 1..User, i * User + u <= Len(p) PROVE p[i * User + u] \in Cells
    BY <1>1 DEF Data
  <2>1. i * User + u \in 1..Len(p)
    <3>1. User \in Nat \ {0} /\ i * User \in Nat BY DiscAssumption
    <3> QED BY <3>1
  <2> QED BY <2>1
<1>3. laid = [user |-> data, seal |-> sector.seal]
  <2>1. sector = [user |-> sector.user, seal |-> sector.seal] BY DEF Sector
  <2>2. laid = [sector EXCEPT !.user = data] BY DEF Overlay
  <2> HIDE DEF laid, data
  <2> QED BY <2>1, <2>2
<1> HIDE DEF laid, data
<1>4. CASE sector.seal = Off
  <2>1. Fix(laid) = laid BY <1>3, <1>4 DEF Fix
  <2> QED BY <2>1, <1>1, <1>2, <1>3, <1>4 DEF laid, data, Sector
<1>5. CASE sector.seal # Off
  <2>1. Fix(laid) = [user |-> data, seal |-> data] BY <1>3, <1>5 DEF Fix
  <2> QED BY <2>1, <1>1, <1>2, <1>3, <1>5 DEF laid, data, Sector
<1> QED BY <1>4, <1>5

----------------------------------------------------------------------------
(* What an image holds when the first j - 1 injections are done and the j-th has written *)
(* its first p sectors.                                                                  *)

Injected(n, c, j, p) ==
  \/ \E i \in 1 .. j - 1 : Jobs[i].name = n
  \/ n = Jobs[j].name /\ (c - 1) \div User < p

IsImage(image, pay, j, p) ==
  /\ image \in Seq(Sector) /\ Len(image) = Len(Base)
  /\ \A n \in FileNames : \A c \in 1 .. Extent[n].size :
       Injected(n, c, j, p) => image[CellSector(n, c)].user[CellOf(c)] = pay[n][c]
  /\ \A k \in 1 .. Len(Base) :
       /\ image[k].seal = IF Base[k].seal = Off THEN Off ELSE image[k].user
       /\ \A u \in 1 .. User : image[k].user[u] # Base[k].user[u] =>
            \E n \in FileNames : \E c \in 1 .. Extent[n].size :
              Injected(n, c, j, p) /\ k = CellSector(n, c) /\ u = CellOf(c)

\* The paths and the file of an injection.
LEMMA JobTypes ==
  ASSUME NEW j \in DOMAIN Jobs
  PROVE  /\ j \in 1 .. Len(Jobs) /\ Len(Jobs) \in Nat \ {0}
         /\ Jobs[j].name \in FileNames /\ Jobs[j].out \in Paths /\ Jobs[j].src \in Paths
         /\ Jobs[j].out # "base" /\ Jobs[j].out # Jobs[j].src
<1>1. j \in 1 .. Len(Jobs) /\ Len(Jobs) \in Nat \ {0} BY JobAssumption
<1>2. Jobs[j].name \in FileNames BY JobAssumption DEF FileNames
<1>3. Jobs[j].out # "base" /\ Jobs[j].out # Jobs[j].src BY JobAssumption
<1>4. Jobs[j].out \in Paths BY DEF Paths
<1>5. Jobs[j].src \in Paths
  <2>1. CASE j = 1 BY <2>1, JobAssumption DEF Paths
  <2>2. CASE j # 1
    <3>1. j - 1 \in DOMAIN Jobs BY <1>1, <2>2, JobAssumption
    <3> QED BY <2>2, <3>1, JobAssumption DEF Paths
  <2> QED BY <2>1, <2>2
<1> QED BY <1>1, <1>2, <1>3, <1>4, <1>5

\* A build starts from the source image.
LEMMA BaseIsImage == ASSUME NEW pay PROVE IsImage(Base, pay, 1, 0)
<1>1. ASSUME NEW n \in FileNames, NEW c \in 1 .. Extent[n].size PROVE ~Injected(n, c, 1, 0)
  <2>1. (c - 1) \div User \in 0 .. NSec(n) - 1 /\ NSec(n) \in Nat BY Place, FileTypes
  <2> QED BY <2>1 DEF Injected
<1>2. \A k \in 1 .. Len(Base) : Base[k].seal = IF Base[k].seal = Off THEN Off ELSE Base[k].user
  BY DiscAssumption
<1> QED BY <1>1, <1>2, DiscAssumption DEF IsImage

\* What the j-th injection leaves is what the next one takes.
LEMMA NextInjection ==
  ASSUME NEW image, NEW pay, NEW j \in DOMAIN Jobs, IsImage(image, pay, j, NSec(Jobs[j].name))
  PROVE  IsImage(image, pay, j + 1, 0)
<1>1. ASSUME NEW n \in FileNames, NEW c \in 1 .. Extent[n].size
      PROVE  Injected(n, c, j, NSec(Jobs[j].name)) <=> Injected(n, c, j + 1, 0)
  <2>1. (c - 1) \div User \in 0 .. NSec(n) - 1 /\ NSec(n) \in Nat BY Place, FileTypes
  <2>2. j \in Nat \ {0} BY JobTypes
  <2>3. Injected(n, c, j + 1, 0) <=> \E i \in 1 .. j : Jobs[i].name = n
    BY <2>1, <2>2 DEF Injected
  <2>4. Injected(n, c, j, NSec(Jobs[j].name)) <=>
          (\E i \in 1 .. j - 1 : Jobs[i].name = n) \/ n = Jobs[j].name
    BY <2>1 DEF Injected
  <2>5. \A i \in 1 .. j : i \in 1 .. j - 1 \/ i = j BY <2>2
  <2> QED BY <2>2, <2>3, <2>4, <2>5
<1> QED BY <1>1 DEF IsImage

\* One element of a sequence replaced.
LEMMA Replaced ==
  ASSUME NEW S, NEW s \in Seq(S), NEW i \in 1 .. Len(s), NEW e \in S
  PROVE  LET t == [s EXCEPT ![i] = e] IN
         /\ t \in Seq(S) /\ Len(t) = Len(s) /\ t[i] = e
         /\ \A k \in 1 .. Len(s) : k # i => t[k] = s[k]
OBVIOUS

\* One turn of inject's loop writes the next sector of the payload and keeps all the rest: the
\* cells of the other file, the slack behind a short last chunk, and each seal over its sector.
LEMMA NextSector ==
  ASSUME NEW image, NEW pay \in [FileNames -> Seq(Cells)], NEW j \in DOMAIN Jobs,
         NEW p \in 0 .. NSec(Jobs[j].name) - 1,
         Len(pay[Jobs[j].name]) = Extent[Jobs[j].name].size,
         IsImage(image, pay, j, p),
         NEW new,
         new = [image EXCEPT ![Extent[Jobs[j].name].lba + p] =
                  Fix(Overlay(@, pay[Jobs[j].name], p))]
  PROVE  IsImage(new, pay, j, p + 1)
<1> DEFINE f == Jobs[j].name
           at == Extent[f].lba + p
           old == image[at]
           sector == Fix(Overlay(old, pay[f], p))
<1>1. /\ f \in FileNames /\ p \in Nat /\ at \in 1 .. Len(Base) /\ NSec(f) \in Nat
      /\ User \in Nat \ {0}
  <2> HIDE DEF old, sector
  <2>1. f \in FileNames BY JobTypes
  <2> HIDE DEF f
  <2>2. /\ User \in Nat \ {0} /\ NSec(f) \in Nat /\ Extent[f].lba \in Nat \ {0}
        /\ Extent[f].lba + NSec(f) - 1 <= Len(Base)
    BY <2>1, FileTypes
  <2>3. p \in 0 .. NSec(f) - 1 BY DEF f
  <2> QED BY <2>1, <2>2, <2>3
<1>2. /\ image \in Seq(Sector) /\ Len(image) = Len(Base) /\ old \in Sector /\ pay[f] \in Seq(Cells)
  BY <1>1 DEF IsImage
<1>3. /\ sector \in Sector
      /\ \A u \in 1..User : sector.user[u] = IF p * User + u <= Len(pay[f]) THEN pay[f][p * User + u]
                                                                           ELSE old.user[u]
      /\ sector.seal = IF old.seal = Off THEN Off ELSE sector.user
  BY <1>1, <1>2, WrittenSector
<1> HIDE DEF sector
<1>4. /\ new \in Seq(Sector) /\ Len(new) = Len(Base) /\ new[at] = sector
      /\ \A k \in 1 .. Len(Base) : k # at => new[k] = image[k]
  <2>1. new = [image EXCEPT ![at] = sector] BY DEF sector
  <2>2. image \in Seq(Sector) /\ Len(image) = Len(Base) /\ sector \in Sector /\ at \in 1 .. Len(Base)
    BY <1>1, <1>2, <1>3
  <2> HIDE DEF at, old
  <2>3. at \in 1 .. Len(image) BY <2>2
  <2>4. /\ new \in Seq(Sector) /\ Len(new) = Len(image) /\ new[at] = sector
        /\ \A k \in 1 .. Len(image) : k # at => new[k] = image[k]
    BY ONLY <2>1, <2>2, <2>3, Replaced
  <2> QED BY <2>2, <2>4
<1>5. ASSUME NEW n \in FileNames, NEW c \in 1 .. Extent[n].size
      PROVE  /\ Injected(n, c, j, p + 1) <=>
                  Injected(n, c, j, p) \/ (n = f /\ (c - 1) \div User = p)
             /\ n = f /\ (c - 1) \div User = p =>
                  CellSector(n, c) = at /\ p * User + CellOf(c) = c
             /\ CellSector(n, c) = at => n = f /\ (c - 1) \div User = p
  <2>1. /\ (c - 1) \div User \in 0 .. NSec(n) - 1 /\ NSec(n) \in Nat
        /\ CellSector(n, c) = Extent[n].lba + (c - 1) \div User
        /\ c = ((c - 1) \div User) * User + CellOf(c)
        /\ Extent[n].lba \in Nat
    BY Place, FileTypes
  <2>2. Injected(n, c, j, p + 1) <=> Injected(n, c, j, p) \/ (n = f /\ (c - 1) \div User = p)
    <3>1. (c - 1) \div User < p + 1 <=> (c - 1) \div User < p \/ (c - 1) \div User = p
      <4> DEFINE i == (c - 1) \div User
      <4>1. i \in Int BY <2>1
      <4>2. p \in Int BY <1>1
      <4> HIDE DEF i
      <4> QED BY <4>1, <4>2 DEF i
    <3> QED BY <3>1 DEF Injected
  <2>3. CellSector(n, c) = at => n = f BY <1>1, Apart
  <2>4. n = f /\ CellSector(n, c) = at => (c - 1) \div User = p
    <3> HIDE DEF f
    <3> DEFINE i == (c - 1) \div User
    <3>1. i \in Int /\ CellSector(n, c) = Extent[n].lba + i /\ Extent[n].lba \in Int BY <2>1
    <3> HIDE DEF i
    <3> QED BY <3>1, <1>1 DEF i
  <2> QED BY <2>1, <2>2, <2>3, <2>4
<1>6. ASSUME NEW n \in FileNames, NEW c \in 1 .. Extent[n].size, Injected(n, c, j, p + 1)
      PROVE  new[CellSector(n, c)].user[CellOf(c)] = pay[n][c]
  <2>1. CellSector(n, c) \in 1 .. Len(Base) /\ CellOf(c) \in 1..User BY Place
  <2>2. CASE n = f /\ (c - 1) \div User = p
    <3>1. CellSector(n, c) = at /\ p * User + CellOf(c) = c BY <1>5, <2>2
    <3>2. c <= Len(pay[f]) BY <2>2
    <3> QED BY <3>1, <3>2, <2>1, <2>2, <1>3, <1>4
  <2>3. CASE ~(n = f /\ (c - 1) \div User = p)
    <3>1. Injected(n, c, j, p) /\ CellSector(n, c) # at BY <1>5, <1>6, <2>3
    <3> QED BY <3>1, <2>1, <1>4 DEF IsImage
  <2> QED BY <2>2, <2>3
<1>7. ASSUME NEW k \in 1 .. Len(Base)
      PROVE  new[k].seal = IF Base[k].seal = Off THEN Off ELSE new[k].user
  <2>1. image[k].seal = IF Base[k].seal = Off THEN Off ELSE image[k].user BY DEF IsImage
  <2>2. image[k].user # Off
    <3>1. image[k] \in Sector BY <1>2
    <3> QED BY <3>1, DiscAssumption DEF Sector
  <2>3. CASE k = at
    <3>1. new[k] = sector /\ image[k] = old BY <2>3, <1>4
    <3> HIDE DEF old, at
    <3> QED BY <2>1, <2>2, <3>1, <1>3
  <2>4. CASE k # at BY <2>1, <2>4, <1>4
  <2> QED BY <2>3, <2>4
<1>8. ASSUME NEW k \in 1 .. Len(Base), NEW u \in 1 .. User, new[k].user[u] # Base[k].user[u]
      PROVE  \E n \in FileNames : \E c \in 1 .. Extent[n].size :
               Injected(n, c, j, p + 1) /\ k = CellSector(n, c) /\ u = CellOf(c)
  <2>1. CASE image[k].user[u] # Base[k].user[u]
    <3>1. PICK n \in FileNames : \E c \in 1 .. Extent[n].size :
            Injected(n, c, j, p) /\ k = CellSector(n, c) /\ u = CellOf(c)
      BY <2>1 DEF IsImage
    <3>2. PICK c \in 1 .. Extent[n].size :
            Injected(n, c, j, p) /\ k = CellSector(n, c) /\ u = CellOf(c)
      BY <3>1
    <3>3. Injected(n, c, j, p + 1) BY <3>2, <1>5
    <3> QED BY <3>2, <3>3
  <2>2. CASE image[k].user[u] = Base[k].user[u]
    <3>1. k = at /\ p * User + u <= Extent[f].size BY <2>2, <1>8, <1>3, <1>4
    <3> DEFINE c == p * User + u
    <3>2. c \in 1 .. Extent[f].size
      <4>1. p * User \in Nat BY <1>1
      <4> QED BY <4>1, <3>1, <1>1
    <3>3. (c - 1) \div User = p /\ CellOf(c) = u
      <4>1. c - 1 = p * User + u - 1 BY <1>1
      <4>2. (p * User + u - 1) \div User = p /\ CellOf(p * User + u) = u
        <5>1. p \in Int BY <1>1
        <5> HIDE DEF f, at, old
        <5> QED BY <5>1, PlaceOf, Zenon
      <4> QED BY <4>1, <4>2
    <3> HIDE DEF c
    <3>4. Injected(f, c, j, p + 1) /\ CellSector(f, c) = at BY <3>2, <3>3, <1>1, <1>5
    <3> QED BY <3>1, <3>2, <3>3, <3>4, <1>1
  <2> QED BY <2>1, <2>2
<1> QED BY <1>4, <1>6, <1>7, <1>8 DEF IsImage

----------------------------------------------------------------------------
(* The types of the state. *)

BuilderTypes ==
  /\ files \in [Paths -> Seq(Sector) \cup {Absent}]
  /\ payload \in [FileNames -> Seq(Cells)]
  /\ bpc \in {"idle", "open", "copy", "write", "done", "refused", "dead"}
  /\ job \in DOMAIN Jobs /\ builds \in 0..MaxBuilds
  /\ pos \in 0 .. Len(Base)

CheckerTypes ==
  /\ cpc \in {"idle", "before", "find", "extract", "after", "judged", "changed", "error"}
  /\ before \in Seq(Sector) /\ Len(before) <= Len(Base)
  /\ after \in Seq(Sector) /\ Len(after) <= Len(Base)
  /\ got \in [FileNames -> Seq(Cells)]
  /\ name \in DOMAIN Names
  /\ cur \in 1 .. Len(Base) + 1
  /\ truncated \in BOOLEAN /\ waited \in BOOLEAN

Types == BuilderTypes /\ CheckerTypes /\ (cpc # "idle" => OnDisk(Image))

(* The builder's part of the invariant: what the running injection takes is what the one before *)
(* it left, and what it has written so far is that with its payload over it.                    *)

Source == files[Jobs[job].src]
Target == files[Jobs[job].out]

BuildInv ==
  /\ files["base"] = Base
  /\ \A p \in Paths : files[p] # Absent => Len(files[p]) <= Len(Base)
  /\ bpc \in {"open", "copy", "write"} => IsImage(Source, payload, job, 0)
  /\ bpc \in {"copy", "write", "done"} =>
       Len(payload[Jobs[job].name]) = Extent[Jobs[job].name].size
  /\ bpc \in {"open", "copy", "write", "done"} =>
       \A j \in 1 .. job - 1 : Len(payload[Jobs[j].name]) = Extent[Jobs[j].name].size
  /\ bpc = "copy" =>
       /\ Target \in Seq(Sector) /\ Len(Target) <= Len(Base)
       /\ \A k \in 1 .. Len(Target) : Target[k] = Source[k]
  /\ bpc \in {"write", "done"} =>
       pos \in 0 .. NSec(Jobs[job].name) /\ IsImage(Target, payload, job, pos)
  /\ bpc = "done" => job = Len(Jobs) /\ pos = NSec(Jobs[job].name)

\* The last injection writes the image.
LEMMA ImageIsAPath == Image \in Paths
<1>1. Len(Jobs) \in DOMAIN Jobs BY JobAssumption
<1> QED BY <1>1, JobAssumption DEF Image, Paths

\* What is read of a sector is as many cells as a sector has.
LEMMA ReadTypes ==
  ASSUME Types, BuildInv, cpc # "idle"
  PROVE  /\ files[Image] \in Seq(Sector) /\ Len(files[Image]) \in 0 .. Len(Base)
         /\ Len(Base) \in Nat
         /\ \A k \in 1 .. Len(files[Image]) :
              files[Image][k] \in Sector /\ files[Image][k].user \in Seq(Cells)
              /\ Len(files[Image][k].user) = User
<1>1. files[Image] \in Seq(Sector) /\ Len(files[Image]) <= Len(Base)
  BY ImageIsAPath DEF Types, BuilderTypes, BuildInv, OnDisk
<1>2. \A k \in 1 .. Len(files[Image]) : files[Image][k] \in Sector BY <1>1
<1>3. \A d \in Data : d \in Seq(Cells) /\ Len(d) = User
  BY DiscAssumption DEF Data
<1>4. \A x \in Sector : x.user \in Data BY DEF Sector
<1> QED BY <1>1, <1>2, <1>3, <1>4, DiscAssumption

\* A step of the checker keeps the builder's state.
LEMMA CheckerKeepsBuild ==
  ASSUME Types, BuildInv, UNCHANGED <<files, builder>>, cpc # "idle" \/ OnDisk(Image)
  PROVE  BuilderTypes' /\ BuildInv' /\ OnDisk(Image)'
<1>1. UNCHANGED <<files, payload, bpc, job, pos, builds>> BY DEF builder
<1>2. OnDisk(Image) BY DEF Types
<1>3. BuilderTypes' BY <1>1 DEF Types, BuilderTypes
<1>4. BuildInv' BY <1>1 DEF BuildInv, Source, Target
<1>5. OnDisk(Image)' BY <1>1, <1>2 DEF OnDisk
<1> QED BY <1>3, <1>4, <1>5

\* A hash may read on: what it has read stays a sequence of sectors.
LEMMA HashTypes ==
  ASSUME Types, BuildInv, cpc # "idle", NEW h \in Seq(Sector), Len(h) < Len(files[Image])
  PROVE  /\ Append(h, files[Image][Len(h) + 1]) \in Seq(Sector)
         /\ Len(Append(h, files[Image][Len(h) + 1])) <= Len(Base)
<1>1. Len(h) \in Nat /\ Len(files[Image]) \in Nat /\ Len(files[Image]) <= Len(Base)
      /\ Len(Base) \in Nat
  BY ReadTypes
<1>2. files[Image][Len(h) + 1] \in Sector BY <1>1, ReadTypes
<1> QED BY <1>1, <1>2

\* No step of the checker writes to the disk or moves the build.
LEMMA CheckerSteps ==
  ASSUME Types, BuildInv, StartCheck \/ Checker
  PROVE  Types' /\ BuildInv'
<1>1. BuilderTypes' /\ BuildInv' /\ OnDisk(Image)'
  <2>1. /\ UNCHANGED <<files, builder>> /\ (cpc # "idle" \/ OnDisk(Image))
    BY DEF StartCheck, Checker, HashBefore, Find, Extract, HashAfter
  <2> QED BY <2>1, CheckerKeepsBuild
<1>2. CASE StartCheck
  <2>1. CheckerTypes' BY <1>2 DEF StartCheck, Types, CheckerTypes
  <2> QED BY <2>1, <1>1 DEF Types
<1>3. CASE HashBefore
  <2>1. cpc = "before" BY <1>3 DEF HashBefore
  <2>2. before' \in Seq(Sector) /\ Len(before') <= Len(Base)
    <3>1. CASE Len(before) < Len(files[Image])
      <4>1. before' = Append(before, files[Image][Len(before) + 1]) BY <1>3, <3>1 DEF HashBefore
      <4>2. before \in Seq(Sector) BY DEF Types, CheckerTypes
      <4> QED BY <2>1, <3>1, <4>1, <4>2, HashTypes
    <3>2. CASE ~(Len(before) < Len(files[Image]))
      BY <3>2, <1>3 DEF HashBefore, Types, CheckerTypes
    <3> QED BY <3>1, <3>2
  <2>3. CheckerTypes' BY <2>2, <1>3 DEF HashBefore, Types, CheckerTypes
  <2> QED BY <2>3, <1>1 DEF Types
<1>4. CASE Find
  <2>1. Names[name] \in FileNames BY FileAssumption DEF Types, CheckerTypes, FileNames
  <2>2. cur' \in 1 .. Len(Base) + 1
    <3>1. Extent[Names[name]].lba \in 1 .. Len(Base) + 1 BY <2>1, FileTypes
    <3> QED BY <3>1, <1>4 DEF Find, Types, CheckerTypes
  <2>3. CheckerTypes' BY <2>2, <1>4 DEF Find, Types, CheckerTypes
  <2> QED BY <2>3, <1>1 DEF Types
<1>5. CASE Extract
  <2> DEFINE n == Names[name]
  <2>1. cpc = "extract" /\ n \in FileNames /\ name \in DOMAIN Names
    BY <1>5, FileAssumption DEF Extract, Types, CheckerTypes, FileNames
  <2>2. got \in [FileNames -> Seq(Cells)] /\ got[n] \in Seq(Cells)
    BY <2>1 DEF Types, CheckerTypes
  <2>3. cur \in 1 .. Len(Base) + 1 /\ Len(Base) \in Nat
    BY DiscAssumption DEF Types, CheckerTypes
  <2>4. got' \in [FileNames -> Seq(Cells)]
    <3>1. CASE Len(got[n]) < Extent[n].size
      <4>1. CASE cur <= Len(files[Image])
        <5>1. files[Image][cur].user \in Seq(Cells) BY <4>1, <2>1, <2>3, ReadTypes
        <5>2. got[n] \o files[Image][cur].user \in Seq(Cells) BY <5>1, <2>2
        <5> QED BY <5>2, <4>1, <3>1, <2>2, <1>5 DEF Extract
      <4>2. CASE ~(cur <= Len(files[Image])) BY <4>2, <3>1, <2>2, <1>5 DEF Extract
      <4> QED BY <4>1, <4>2
    <3>2. CASE ~(Len(got[n]) < Extent[n].size)
      <4>1. Len(got[n]) \in Nat /\ Extent[n].size \in Nat BY <2>1, <2>2, FileTypes
      <4>2. SubSeq(got[n], 1, Extent[n].size) \in Seq(Cells) BY <4>1, <3>2, <2>2
      <4> QED BY <4>2, <3>2, <2>2, <1>5 DEF Extract
    <3> QED BY <3>1, <3>2
  <2>5. cur' \in 1 .. Len(Base) + 1
    <3>1. cur' = cur \/ (cur <= Len(Base) /\ cur' = cur + 1) BY <1>5 DEF Extract
    <3> QED BY <3>1, <2>3
  <2>6. name' \in DOMAIN Names
    <3>1. name < Len(Names) => name + 1 \in DOMAIN Names BY <2>1 DEF Names
    <3> QED BY <3>1, <2>1, <1>5 DEF Extract
  <2>7. cpc' \in {"extract", "find", "after"} BY <2>1, <1>5 DEF Extract
  <2>8. CheckerTypes' BY <2>4, <2>5, <2>6, <2>7, <1>5 DEF Extract, Types, CheckerTypes
  <2> QED BY <2>8, <1>1 DEF Types
<1>6. CASE HashAfter
  <2>1. cpc = "after" BY <1>6 DEF HashAfter
  <2>2. after' \in Seq(Sector) /\ Len(after') <= Len(Base)
    <3>1. CASE Len(after) < Len(files[Image])
      <4>1. after' = Append(after, files[Image][Len(after) + 1]) BY <1>6, <3>1 DEF HashAfter
      <4>2. after \in Seq(Sector) BY DEF Types, CheckerTypes
      <4> QED BY <2>1, <3>1, <4>1, <4>2, HashTypes
    <3>2. CASE ~(Len(after) < Len(files[Image]))
      BY <3>2, <1>6 DEF HashAfter, Types, CheckerTypes
    <3> QED BY <3>1, <3>2
  <2>3. CheckerTypes' BY <2>2, <1>6 DEF HashAfter, Types, CheckerTypes
  <2> QED BY <2>3, <1>1 DEF Types
<1> QED BY <1>2, <1>3, <1>4, <1>5, <1>6 DEF Checker

\* A step of the builder keeps the checker's state, and an image that is there.
LEMMA BuilderKeepsCheck ==
  ASSUME Types, UNCHANGED checker, truncated' \in BOOLEAN, waited' \in BOOLEAN,
         BuilderTypes', OnDisk(Image) => OnDisk(Image)'
  PROVE  Types'
<1>1. UNCHANGED <<cpc, before, after, got, name, cur>> BY DEF checker
<1>2. CheckerTypes' BY <1>1 DEF Types, CheckerTypes
<1> QED BY <1>1, <1>2 DEF Types

\* What a step writes to a path that is on the disk is on the disk.
LEMMA FilesType ==
  ASSUME BuilderTypes, NEW p \in Paths, NEW image \in Seq(Sector),
         files' = [files EXCEPT ![p] = image]
  PROVE  /\ files' \in [Paths -> Seq(Sector) \cup {Absent}] /\ files'[p] = image
         /\ \A q \in Paths : q # p => files'[q] = files[q]
         /\ OnDisk(Image) => OnDisk(Image)'
<1>1. image # Absent BY DiscAssumption
<1>2. files \in [Paths -> Seq(Sector) \cup {Absent}] BY DEF BuilderTypes
<1>3. /\ files' \in [Paths -> Seq(Sector) \cup {Absent}] /\ files'[p] = image
      /\ \A q \in Paths : q # p => files'[q] = files[q]
  BY <1>2
<1>4. OnDisk(Image) => OnDisk(Image)' BY <1>1, <1>3, ImageIsAPath DEF OnDisk
<1> QED BY <1>3, <1>4

\* A build may be started at any time: over what an earlier one left.
LEMMA StartSteps ==
  ASSUME Types, BuildInv, NEW p, p \in [FileNames -> Seq(Cells)], StartBuild(p)
  PROVE  Types' /\ BuildInv'
<1>1. /\ files' = files /\ UNCHANGED checker /\ truncated' = truncated /\ waited' = FALSE
      /\ payload' = p /\ job' = 1 /\ pos' = 0 /\ bpc' = "open"
  BY DEF StartBuild
<1>2. 1 \in DOMAIN Jobs /\ Len(Base) \in Nat BY JobAssumption, DiscAssumption
<1>3. builds' \in 0 .. MaxBuilds
  BY DiscAssumption DEF StartBuild, Types, BuilderTypes
<1>4. BuilderTypes' BY <1>1, <1>2, <1>3 DEF Types, BuilderTypes
<1>5. Types' BY <1>1, <1>4, BuilderKeepsCheck DEF Types, CheckerTypes, OnDisk
<1>6. IsImage(Source, payload, job, 0)'
  <2>1. Jobs[1].src = "base" BY JobAssumption
  <2>2. Source' = Base BY <1>1, <2>1 DEF Source, BuildInv
  <2>3. IsImage(Base, p, 1, 0) BY BaseIsImage
  <2> QED BY <1>1, <2>2, <2>3 DEF IsImage
<1>7. BuildInv' BY <1>1, <1>6 DEF BuildInv
<1> QED BY <1>5, <1>7

\* An injection empties its target, which is not its source.
LEMMA OpenSteps == ASSUME Types, BuildInv, InjectOpen PROVE Types' /\ BuildInv'
<1> DEFINE j == Jobs[job]
<1>1. /\ bpc = "open" /\ UNCHANGED <<payload, job, pos, builds, checker, waited>>
      /\ job \in DOMAIN Jobs
  BY DEF InjectOpen, Types, BuilderTypes
<1>2. /\ j.out \in Paths /\ j.src \in Paths /\ j.out # "base" /\ j.out # j.src
      /\ j.name \in FileNames
  BY <1>1, JobTypes
<1>3. CASE Len(payload[j.name]) # Extent[j.name].size
  <2>1. files' = files /\ truncated' = truncated /\ bpc' = "refused" BY <1>3 DEF InjectOpen
  <2>2. BuilderTypes' BY <1>1, <2>1 DEF Types, BuilderTypes
  <2>3. Types' BY <1>1, <2>1, <2>2, BuilderKeepsCheck DEF Types, CheckerTypes, OnDisk
  <2>4. BuildInv' BY <1>1, <2>1 DEF BuildInv
  <2> QED BY <2>3, <2>4
<1>4. CASE Len(payload[j.name]) = Extent[j.name].size
  <2>1. /\ files' = [files EXCEPT ![j.out] = <<>>] /\ bpc' = "copy"
        /\ truncated' = (truncated \/ j.out = Image)
    BY <1>4 DEF InjectOpen
  <2>2. <<>> \in Seq(Sector) OBVIOUS
  <2>3. /\ files' \in [Paths -> Seq(Sector) \cup {Absent}] /\ files'[j.out] = <<>>
        /\ \A q \in Paths : q # j.out => files'[q] = files[q]
        /\ OnDisk(Image) => OnDisk(Image)'
    BY <1>2, <2>1, <2>2, FilesType DEF Types
  <2>4. BuilderTypes' BY <1>1, <2>1, <2>3 DEF Types, BuilderTypes
  <2>5. Types' BY <1>1, <2>1, <2>3, <2>4, BuilderKeepsCheck DEF Types, CheckerTypes
  <2>6. Target' = <<>> /\ Source' = Source BY <1>1, <1>2, <2>3 DEF Target, Source
  <2>7. IsImage(Source, payload, job, 0)' BY <1>1, <2>6 DEF BuildInv, IsImage
  <2>8. files'["base"] = Base BY <1>2, <2>3 DEF BuildInv, Paths
  <2>9. \A p \in Paths : files'[p] # Absent => Len(files'[p]) <= Len(Base)
    <3>1. Len(<<>>) <= Len(Base) BY DiscAssumption
    <3> QED BY <3>1, <2>3 DEF BuildInv
  <2>10. BuildInv' BY <1>1, <1>4, <2>1, <2>6, <2>7, <2>8, <2>9, DiscAssumption DEF BuildInv
  <2> QED BY <2>5, <2>10
<1> QED BY <1>3, <1>4

\* Copying ends with the source, sector for sector.
LEMMA CopySteps == ASSUME Types, BuildInv, CopySector PROVE Types' /\ BuildInv'
<1> DEFINE j == Jobs[job]
           k == Len(Target) + 1
<1>1. /\ bpc = "copy" /\ UNCHANGED <<payload, job, builds, checker, truncated, waited>>
      /\ job \in DOMAIN Jobs
  BY DEF CopySector, Types, BuilderTypes
<1>2. /\ j.out \in Paths /\ j.src \in Paths /\ j.out # "base" /\ j.out # j.src
      /\ j.name \in FileNames
  BY <1>1, JobTypes
<1>3. /\ Target \in Seq(Sector) /\ Len(Target) \in Nat
      /\ \A i \in 1 .. Len(Target) : Target[i] = Source[i]
      /\ Source \in Seq(Sector) /\ Len(Source) = Len(Base) /\ Len(Base) \in Nat
      /\ IsImage(Source, payload, job, 0)
  BY <1>1, DiscAssumption DEF BuildInv, IsImage
<1>4. CASE k <= Len(Source)
  <2> DEFINE new == Append(Target, Source[k])
  <2>1. files' = [files EXCEPT ![j.out] = new] /\ bpc' = bpc /\ pos' = pos
    BY <1>4 DEF CopySector, Source, Target
  <2>2. Source[k] \in Sector BY <1>3, <1>4
  <2>3. /\ new \in Seq(Sector) /\ Len(new) <= Len(Base)
        /\ \A i \in 1 .. Len(new) : new[i] = Source[i]
    BY <1>3, <1>4, <2>2
  <2> HIDE DEF new
  <2>4. /\ files' \in [Paths -> Seq(Sector) \cup {Absent}] /\ files'[j.out] = new
        /\ \A q \in Paths : q # j.out => files'[q] = files[q]
        /\ OnDisk(Image) => OnDisk(Image)'
    BY <1>2, <2>1, <2>3, FilesType DEF Types
  <2>5. BuilderTypes' BY <1>1, <2>1, <2>4 DEF Types, BuilderTypes
  <2>6. Types' BY <1>1, <2>4, <2>5, BuilderKeepsCheck DEF Types, CheckerTypes
  <2>7. Target' = new /\ Source' = Source BY <1>1, <1>2, <2>4 DEF Target, Source
  <2>8. IsImage(Source, payload, job, 0)' BY <1>1, <1>3, <2>7 DEF IsImage
  <2>9. files'["base"] = Base BY <1>2, <2>4 DEF BuildInv, Paths
  <2>10. \A p \in Paths : files'[p] # Absent => Len(files'[p]) <= Len(Base)
    BY <2>3, <2>4 DEF BuildInv
  <2>11. BuildInv' BY <1>1, <2>1, <2>3, <2>7, <2>8, <2>9, <2>10 DEF BuildInv
  <2> QED BY <2>6, <2>11
<1>5. CASE ~(k <= Len(Source))
  <2>1. files' = files /\ bpc' = "write" /\ pos' = 0
    BY <1>5 DEF CopySector, Source, Target
  <2>2. Len(Target) = Len(Base) BY <1>1, <1>3, <1>5 DEF BuildInv
  <2>3. IsImage(Target, payload, job, 0) BY <1>3, <2>2 DEF IsImage
  <2>4. BuilderTypes' BY <1>1, <1>3, <2>1 DEF Types, BuilderTypes
  <2>5. Types' BY <1>1, <2>1, <2>4, BuilderKeepsCheck DEF Types, CheckerTypes, OnDisk
  <2>6. Target' = Target /\ Source' = Source BY <1>1, <2>1 DEF Target, Source
  <2>7. IsImage(Source, payload, job, 0)' /\ IsImage(Target, payload, job, pos)'
    BY <1>1, <1>3, <2>1, <2>3, <2>6 DEF IsImage
  <2>8. pos' \in 0 .. NSec(j.name) BY <2>1, <1>2, FileTypes
  <2>9. BuildInv' BY <1>1, <2>1, <2>7, <2>8 DEF BuildInv
  <2> QED BY <2>5, <2>9
<1> QED BY <1>4, <1>5

\* Writing a sector brings the target one sector nearer; the last one makes it the next source.
LEMMA WriteSteps == ASSUME Types, BuildInv, WriteSector PROVE Types' /\ BuildInv'
<1> DEFINE j == Jobs[job]
           k == Extent[j.name].lba + pos
<1>1. /\ bpc = "write" /\ UNCHANGED <<payload, builds, checker, truncated, waited>>
      /\ job \in DOMAIN Jobs
  BY DEF WriteSector, Types, BuilderTypes
<1>2. /\ j.out \in Paths /\ j.src \in Paths /\ j.out # "base" /\ j.out # j.src
      /\ j.name \in FileNames /\ job \in 1 .. Len(Jobs) /\ Len(Jobs) \in Nat
  BY <1>1, JobTypes
<1>3. /\ Len(payload[j.name]) = Extent[j.name].size
      /\ \A i \in 1 .. job - 1 : Len(payload[Jobs[i].name]) = Extent[Jobs[i].name].size
      /\ pos \in 0 .. NSec(j.name) /\ NSec(j.name) \in Nat /\ NSec(j.name) <= Len(Base)
      /\ IsImage(Source, payload, job, 0) /\ IsImage(Target, payload, job, pos)
      /\ payload \in [FileNames -> Seq(Cells)] /\ Len(Base) \in Nat
  BY <1>1, <1>2, FileTypes DEF BuildInv, Types, BuilderTypes
<1>4. CASE pos < NSec(j.name)
  <2> DEFINE new == [Target EXCEPT ![k] = Fix(Overlay(@, payload[j.name], pos))]
  <2>1. /\ files' = [files EXCEPT ![j.out][k] = Fix(Overlay(@, payload[j.name], pos))]
        /\ pos' = pos + 1 /\ bpc' = bpc /\ job' = job
    BY <1>4 DEF WriteSector
  <2>2. files' = [files EXCEPT ![j.out] = new] BY <2>1 DEF Target
  <2>3. pos \in 0 .. NSec(j.name) - 1 BY <1>3, <1>4
  <2>4. IsImage(new, payload, job, pos + 1) BY <1>1, <1>3, <2>3, NextSector
  <2>5. new \in Seq(Sector) /\ Len(new) = Len(Base) BY <2>4 DEF IsImage
  <2> HIDE DEF new
  <2>6. /\ files' \in [Paths -> Seq(Sector) \cup {Absent}] /\ files'[j.out] = new
        /\ \A q \in Paths : q # j.out => files'[q] = files[q]
        /\ OnDisk(Image) => OnDisk(Image)'
    BY <1>2, <2>2, <2>5, FilesType DEF Types
  <2>7. pos' \in 0 .. NSec(j.name) /\ pos' \in 0 .. Len(Base) BY <1>3, <1>4, <2>1
  <2>8. BuilderTypes' BY <1>1, <2>1, <2>6, <2>7 DEF Types, BuilderTypes
  <2>9. Types' BY <1>1, <2>6, <2>8, BuilderKeepsCheck DEF Types, CheckerTypes
  <2>10. Target' = new /\ Source' = Source BY <1>2, <2>1, <2>6 DEF Target, Source
  <2>11. IsImage(Source, payload, job, 0)' /\ IsImage(Target, payload, job, pos)'
    BY <1>1, <1>3, <2>1, <2>4, <2>10 DEF IsImage
  <2>12. files'["base"] = Base BY <1>2, <2>6 DEF BuildInv, Paths
  <2>13. \A p \in Paths : files'[p] # Absent => Len(files'[p]) <= Len(Base)
    BY <2>5, <2>6, <1>3 DEF BuildInv
  <2>14. BuildInv' BY <1>1, <1>3, <2>1, <2>7, <2>11, <2>12, <2>13 DEF BuildInv
  <2> QED BY <2>9, <2>14
<1>5. CASE ~(pos < NSec(j.name))
  <2>1. pos = NSec(j.name) BY <1>3, <1>5
  <2>2. files' = files /\ pos' = pos BY <1>5 DEF WriteSector
  <2>3. CASE job < Len(Jobs)
    <3>1. job' = job + 1 /\ bpc' = "open" BY <1>5, <2>3 DEF WriteSector
    <3>2. job + 1 \in DOMAIN Jobs BY <1>2, <2>3, JobAssumption
    <3>3. Jobs[job + 1].src = j.out
      <4>1. job + 1 # 1 /\ (job + 1) - 1 = job BY <1>2
      <4> QED BY <4>1, <3>2, JobAssumption
    <3>4. Source' = Target BY <2>2, <3>1, <3>3 DEF Source, Target
    <3>5. IsImage(Target, payload, job + 1, 0) BY <1>1, <1>3, <2>1, NextInjection
    <3>6. IsImage(Source, payload, job, 0)' BY <1>1, <3>1, <3>4, <3>5 DEF IsImage
    <3>7. \A i \in 1 .. job' - 1 : Len(payload[Jobs[i].name]) = Extent[Jobs[i].name].size
      <4>1. \A i \in 1 .. job' - 1 : i \in 1 .. job - 1 \/ i = job BY <1>2, <3>1
      <4> QED BY <4>1, <1>3
    <3>8. BuilderTypes' BY <1>1, <2>2, <3>1, <3>2 DEF Types, BuilderTypes
    <3>9. Types' BY <1>1, <2>2, <3>8, BuilderKeepsCheck DEF Types, CheckerTypes, OnDisk
    <3>10. BuildInv' BY <1>1, <2>2, <3>1, <3>6, <3>7 DEF BuildInv
    <3> QED BY <3>9, <3>10
  <2>4. CASE ~(job < Len(Jobs))
    <3>1. job' = job /\ bpc' = "done" BY <1>5, <2>4 DEF WriteSector
    <3>2. job = Len(Jobs) BY <1>2, <2>4
    <3>3. BuilderTypes' BY <1>1, <2>2, <3>1 DEF Types, BuilderTypes
    <3>4. Types' BY <1>1, <2>2, <3>3, BuilderKeepsCheck DEF Types, CheckerTypes, OnDisk
    <3>5. Target' = Target BY <2>2, <3>1 DEF Target
    <3>6. IsImage(Target, payload, job, pos)' BY <1>1, <1>3, <2>2, <3>1, <3>5 DEF IsImage
    <3>7. BuildInv' BY <1>1, <1>3, <2>1, <2>2, <3>1, <3>2, <3>6 DEF BuildInv
    <3> QED BY <3>4, <3>7
  <2> QED BY <2>3, <2>4
<1> QED BY <1>4, <1>5

\* A build that dies leaves what it had written.
LEMMA DieSteps == ASSUME Types, BuildInv, BuildDies PROVE Types' /\ BuildInv'
<1>1. /\ UNCHANGED <<files, payload, job, pos, builds, checker, truncated, waited>>
      /\ bpc' = "dead"
  BY DEF BuildDies
<1>2. BuilderTypes' BY <1>1 DEF Types, BuilderTypes
<1>3. Types' BY <1>1, <1>2, BuilderKeepsCheck DEF Types, CheckerTypes, OnDisk
<1>4. BuildInv' BY <1>1 DEF BuildInv
<1> QED BY <1>3, <1>4

\* The payloads a build may be started with.
LEMMA PayloadTypes ==
  ASSUME NEW p \in [DOMAIN Extent -> UNION {Payloads[n] : n \in DOMAIN Extent}],
         \A n \in DOMAIN Extent : p[n] \in Payloads[n]
  PROVE  p \in [FileNames -> Seq(Cells)]
<1>1. \A n \in FileNames : p[n] \in Seq(Cells) BY FileAssumption DEF FileNames
<1> QED BY <1>1 DEF FileNames

\* The invariant of the build.
LEMMA BuildHolds == Spec => [](Types /\ BuildInv)
<1>1. ASSUME Init PROVE Types /\ BuildInv
  <2>1. /\ 1 \in DOMAIN Jobs /\ Len(Base) \in Nat /\ MaxBuilds \in Nat /\ Base \in Seq(Sector)
        /\ 1 \in DOMAIN Names
    BY JobAssumption, DiscAssumption DEF Names
  <2>2. files \in [Paths -> Seq(Sector) \cup {Absent}] BY <1>1, <2>1 DEF Init
  <2>3. payload \in [FileNames -> Seq(Cells)] /\ got \in [FileNames -> Seq(Cells)]
    BY <1>1 DEF Init, FileNames
  <2>4. BuilderTypes BY <1>1, <2>1, <2>2, <2>3 DEF Init, BuilderTypes
  <2>5. CheckerTypes
    <3>1. /\ cpc = "idle" /\ before = <<>> /\ after = <<>> /\ name = 1 /\ cur = 1
          /\ truncated = FALSE /\ waited = FALSE
      BY <1>1 DEF Init
    <3>2. <<>> \in Seq(Sector) /\ Len(<<>>) <= Len(Base) /\ 1 \in 1 .. Len(Base) + 1 BY <2>1
    <3> QED BY <2>1, <2>3, <3>1, <3>2 DEF CheckerTypes
  <2>6. \A p \in Paths : files[p] # Absent => Len(files[p]) <= Len(Base)
    BY <1>1, <2>1 DEF Init
  <2>7. files["base"] = Base BY <1>1 DEF Init, Paths
  <2> QED BY <1>1, <2>4, <2>5, <2>6, <2>7 DEF Init, Types, BuildInv
<1>2. Types /\ BuildInv /\ [Next]_vars => Types' /\ BuildInv'
  <2> SUFFICES ASSUME Types, BuildInv, [Next]_vars PROVE Types' /\ BuildInv' OBVIOUS
  <2>1. ASSUME NEW p \in [DOMAIN Extent -> UNION {Payloads[n] : n \in DOMAIN Extent}],
               \A n \in DOMAIN Extent : p[n] \in Payloads[n], StartBuild(p)
        PROVE  Types' /\ BuildInv'
    BY <2>1, PayloadTypes, StartSteps
  <2>2. CASE Builder BY <2>2, OpenSteps, CopySteps, WriteSteps DEF Builder
  <2>3. CASE BuildDies BY <2>3, DieSteps
  <2>4. CASE StartCheck \/ Checker BY <2>4, CheckerSteps
  <2>5. CASE UNCHANGED vars
    <3>1. UNCHANGED <<files, payload, bpc, job, pos, builds, cpc, before, after, got, name, cur,
                      truncated, waited>>
      BY <2>5 DEF vars
    <3>2. BuilderTypes' /\ CheckerTypes' BY <3>1 DEF Types, BuilderTypes, CheckerTypes
    <3>3. Types' BY <3>1, <3>2 DEF Types, OnDisk
    <3>4. BuildInv' BY <3>1 DEF BuildInv, Source, Target
    <3> QED BY <3>3, <3>4
  <2> QED BY <2>1, <2>2, <2>3, <2>4, <2>5 DEF Next
<1> QED BY <1>1, <1>2, PTL DEF Spec

\* When the last injection is done every cell of every file has been injected.
LEMMA AllInjected ==
  ASSUME NEW n \in FileNames, NEW c \in 1 .. Extent[n].size
  PROVE  Injected(n, c, Len(Jobs), NSec(Jobs[Len(Jobs)].name))
<1>1. PICK i \in DOMAIN Jobs : Jobs[i].name = n BY JobAssumption DEF FileNames
<1>2. i \in 1 .. Len(Jobs) /\ Len(Jobs) \in Nat BY JobTypes
<1>3. CASE i = Len(Jobs)
  <2>1. (c - 1) \div User \in 0 .. NSec(n) - 1 /\ NSec(n) \in Nat BY Place, FileTypes
  <2> QED BY <2>1, <1>1, <1>3 DEF Injected
<1>4. CASE i # Len(Jobs)
  <2>1. i \in 1 .. Len(Jobs) - 1 BY <1>2, <1>4
  <2> QED BY <2>1, <1>1 DEF Injected
<1> QED BY <1>3, <1>4

\* A finished image is the source with the payloads over it.
LEMMA DoneImage ==
  ASSUME Types, BuildInv, bpc = "done"
  PROVE  /\ IsImage(files[Image], payload, Len(Jobs), NSec(Jobs[Len(Jobs)].name))
         /\ \A n \in FileNames : FileIn(files[Image], n) = payload[n]
<1>1. /\ job = Len(Jobs) /\ pos = NSec(Jobs[job].name) /\ IsImage(Target, payload, job, pos)
      /\ job \in DOMAIN Jobs
  BY DEF BuildInv, Types, BuilderTypes
<1>2. Target = files[Image] BY <1>1, JobAssumption DEF Target, Image
<1>3. IsImage(files[Image], payload, Len(Jobs), NSec(Jobs[Len(Jobs)].name)) BY <1>1, <1>2
<1>4. ASSUME NEW n \in FileNames PROVE FileIn(files[Image], n) = payload[n]
  <2>1. Len(payload[n]) = Extent[n].size
    <3>1. PICK i \in DOMAIN Jobs : Jobs[i].name = n BY JobAssumption DEF FileNames
    <3>2. i \in 1 .. job - 1 \/ i = job BY <1>1, JobTypes
    <3> QED BY <3>1, <3>2 DEF BuildInv
  <2>2. payload[n] \in Seq(Cells) BY DEF Types, BuilderTypes
  <2>3. payload[n] = [c \in 1 .. Extent[n].size |-> payload[n][c]] BY <2>1, <2>2
  <2>4. \A c \in 1 .. Extent[n].size :
          files[Image][CellSector(n, c)].user[CellOf(c)] = payload[n][c]
    BY <1>3, AllInjected DEF IsImage
  <2> QED BY <2>3, <2>4 DEF FileIn
<1> QED BY <1>3, <1>4

\* A finished build is the source image with the payloads over it and nothing else, whatever was
\* on the disk before it: BuildIsExact of every run of DiscBuild.
THEOREM BuildsAreExact == Spec => []BuildIsExact
<1>1. Types /\ BuildInv => BuildIsExact
  <2> SUFFICES ASSUME Types, BuildInv PROVE BuildIsExact OBVIOUS
  <2>1. TypeOK BY DEF Types, BuilderTypes, CheckerTypes, BuildInv, TypeOK
  <2>2. ASSUME bpc = "done"
        PROVE  /\ Len(files[Image]) = Len(Base)
               /\ \A n \in DOMAIN Extent : FileIn(files[Image], n) = payload[n]
               /\ \A k \in DOMAIN Base :
                    /\ files[Image][k].seal = IF Base[k].seal = Off THEN Off ELSE files[Image][k].user
                    /\ \A u \in 1..User : files[Image][k].user[u] # Base[k].user[u] =>
                         \E n \in DOMAIN Extent : \E c \in 1..Extent[n].size :
                           k = CellSector(n, c) /\ u = CellOf(c)
    <3>1. DOMAIN Base = 1 .. Len(Base) BY DiscAssumption
    <3> QED BY <2>2, <3>1, DoneImage DEF IsImage, FileNames
  <2> QED BY <2>1, <2>2 DEF BuildIsExact
<1> QED BY <1>1, BuildHolds, PTL

----------------------------------------------------------------------------
(* What the checker has read, against an image that a build may still be writing. *)

\* A sector of the image that the running injection may still write.
Pending(k) ==
  /\ Jobs[job].out = Image
  /\ bpc = "copy" \/ (bpc = "write" /\ Extent[Jobs[job].name].lba + pos <= k)

\* Where the checker stands.
Course ==
  /\ cpc = "idle" => before = <<>>
  /\ cpc \in {"idle", "before"} => name = 1
  /\ cpc \in {"idle", "before", "find"} => got[Names[name]] = <<>>
  /\ cpc \in {"idle", "before", "find", "extract"} =>
       after = <<>> /\ \A i \in name + 1 .. Len(Names) : got[Names[i]] = <<>>
  /\ cpc = "after" => name = Len(Names)

\* What was hashed first is what is there, or was changed once and for all.
BeforeInv ==
  cpc # "idle" /\ ~truncated =>
    /\ Len(before) <= Len(files[Image]) /\ Len(after) <= Len(files[Image])
    /\ \A k \in 1 .. Len(before) : before[k] = files[Image][k] \/ ~Pending(k)

\* A cell extracted is the one hashed first, or one that will not change again; and if the second
\* hash of its sector is the first, it is the one hashed.
Faithful(n, c) ==
  LET k == CellSector(n, c)
      u == CellOf(c)
  IN /\ k \in 1 .. Len(before)
     /\ \/ got[n][c] = before[k].user[u]
        \/ got[n][c] = files[Image][k].user[u] /\ ~Pending(k)
     /\ k <= Len(after) /\ after[k] = before[k] => got[n][c] = before[k].user[u]

Extracted(n) == Len(got[n]) = Extent[n].size /\ \A c \in 1 .. Extent[n].size : Faithful(n, c)

Extracting(n) ==
  /\ \A c \in 1 .. Len(got[n]) : Faithful(n, c)
  /\ Extent[n].lba <= cur
  /\ cur <= Len(before) => Len(got[n]) = (cur - Extent[n].lba) * User

\* While the image is as long as it was when it was hashed.
GotInv ==
  /\ cpc \in {"find", "extract", "after"} /\ ~truncated /\ Len(files[Image]) = Len(before)
  => /\ \A i \in 1 .. name - 1 : Extracted(Names[i])
     /\ cpc = "extract" => Extracting(Names[name])
     /\ cpc = "after" => Extracted(Names[name])

WaitInv ==
  waited => /\ bpc = "done" /\ ~truncated /\ cpc # "idle"
            /\ Len(before) <= Len(files[Image])
            /\ \A k \in 1 .. Len(before) : before[k] = files[Image][k]

CheckInv == Course /\ BeforeInv /\ GotInv /\ VerdictIsOfTheHash /\ WaitInv

\* What any step of a build does to an image it does not truncate: the image grows, and a sector
\* of it changes once at most.
ImageMoves ==
  /\ Len(files[Image]) <= Len(files'[Image])
  /\ \A k \in 1 .. Len(files[Image]) :
       /\ Pending(k)' => Pending(k)
       /\ files'[Image][k] # files[Image][k] => Pending(k) /\ ~Pending(k)'

BuildStep ==
  \/ \E p \in [DOMAIN Extent -> UNION {Payloads[n] : n \in DOMAIN Extent}] : StartBuild(p)
  \/ Builder \/ BuildDies

\* Every step of a build moves the image so, or truncates it.
LEMMA BuildMoves ==
  ASSUME Types, BuildInv, BuildStep, OnDisk(Image), ~truncated'
  PROVE  ImageMoves /\ ~truncated /\ UNCHANGED checker
<1> DEFINE j == Jobs[job]
<1>1. /\ files[Image] \in Seq(Sector) /\ Len(files[Image]) \in Nat /\ job \in DOMAIN Jobs
      /\ files \in [Paths -> Seq(Sector) \cup {Absent}]
  BY ImageIsAPath DEF Types, BuilderTypes, OnDisk
<1>2. j.out \in Paths /\ j.name \in FileNames BY <1>1, JobTypes
<1>3. UNCHANGED checker
  BY DEF BuildStep, StartBuild, Builder, InjectOpen, CopySector, WriteSector, BuildDies
<1>4. CASE \E p \in [DOMAIN Extent -> UNION {Payloads[n] : n \in DOMAIN Extent}] : StartBuild(p)
  BY <1>1, <1>3, <1>4 DEF StartBuild, ImageMoves, Pending
<1>5. CASE InjectOpen
  <2>1. ~truncated BY <1>5 DEF InjectOpen
  <2>2. CASE bpc' = "refused"
    <3>1. files' = files BY <2>2, <1>5 DEF InjectOpen
    <3>2. \A k : ~Pending(k)' BY <2>2 DEF Pending
    <3> QED BY <3>1, <3>2, <2>1, <1>1, <1>3 DEF ImageMoves
  <2>3. CASE bpc' # "refused"
    <3>1. files' = [files EXCEPT ![j.out] = <<>>] /\ j.out # Image /\ job' = job
      BY <2>3, <1>5 DEF InjectOpen
    <3>2. files'[Image] = files[Image] BY <3>1, <1>1, <1>2, ImageIsAPath
    <3>3. \A k : ~Pending(k)' BY <3>1 DEF Pending
    <3> QED BY <3>2, <3>3, <2>1, <1>1, <1>3 DEF ImageMoves
  <2> QED BY <2>2, <2>3
<1>6. CASE CopySector
  <2>1. bpc = "copy" /\ job' = job /\ ~truncated BY <1>6 DEF CopySector
  <2>2. \A k : Pending(k)' => Pending(k) BY <2>1 DEF Pending
  <2>3. CASE files' = files BY <2>1, <2>2, <2>3, <1>1, <1>3 DEF ImageMoves
  <2>4. CASE files' # files
    <3> DEFINE x == Source[Len(Target) + 1]
    <3>1. files' = [files EXCEPT ![j.out] = Append(Target, x)]
      BY <2>4, <1>6 DEF CopySector, Source, Target
    <3>2. CASE j.out # Image
      <4>1. files'[Image] = files[Image] BY <3>1, <3>2, <1>1, <1>2, ImageIsAPath
      <4> QED BY <4>1, <2>1, <2>2, <1>1, <1>3 DEF ImageMoves
    <3>3. CASE j.out = Image
      <4>1. files'[Image] = Append(files[Image], x)
        BY <3>1, <3>3, <1>1, <1>2 DEF Target
      <4> HIDE DEF x
      <4>2. /\ Len(files'[Image]) = Len(files[Image]) + 1
            /\ \A k \in 1 .. Len(files[Image]) : files'[Image][k] = files[Image][k]
        BY <4>1, <1>1
      <4> QED BY <4>2, <2>1, <2>2, <1>1, <1>3 DEF ImageMoves
    <3> QED BY <3>2, <3>3
  <2> QED BY <2>3, <2>4
<1>7. CASE WriteSector
  <2> DEFINE at == Extent[j.name].lba + pos
  <2>1. bpc = "write" /\ ~truncated BY <1>7 DEF WriteSector
  <2>2. pos \in Nat /\ Extent[j.name].lba \in Nat BY <1>2, FileTypes DEF Types, BuilderTypes
  <2>3. CASE pos < NSec(j.name)
    <3>1. /\ files' = [files EXCEPT ![j.out][at] = Fix(Overlay(@, payload[j.name], pos))]
          /\ pos' = pos + 1 /\ bpc' = bpc /\ job' = job
      BY <1>7, <2>3 DEF WriteSector
    <3>2. ASSUME NEW k \in 1 .. Len(files[Image])
          PROVE  (Pending(k)' => Pending(k)) /\ (k = at /\ j.out = Image => Pending(k) /\ ~Pending(k)')
      <4>1. k \in Int OBVIOUS
      <4>2. Pending(k) <=> j.out = Image /\ at <= k BY <2>1 DEF Pending
      <4>3. Pending(k)' <=> j.out = Image /\ Extent[j.name].lba + (pos + 1) <= k
        BY <2>1, <3>1 DEF Pending
      <4> QED BY <4>1, <4>2, <4>3, <2>2
    <3>3. CASE j.out # Image
      <4>1. files'[Image] = files[Image] BY <3>1, <3>3, <1>1, <1>2, ImageIsAPath
      <4> QED BY <4>1, <3>2, <2>1, <1>1, <1>3 DEF ImageMoves
    <3>4. CASE j.out = Image
      <4>1. files'[Image] = [files[Image] EXCEPT ![at] = Fix(Overlay(@, payload[j.name], pos))]
        BY <3>1, <3>4, <1>1, <1>2
      <4>2. /\ Len(files'[Image]) = Len(files[Image])
            /\ \A k \in 1 .. Len(files[Image]) : k # at => files'[Image][k] = files[Image][k]
        BY <4>1, <1>1
      <4> QED BY <4>2, <3>2, <3>4, <2>1, <1>1, <1>3 DEF ImageMoves
    <3> QED BY <3>3, <3>4
  <2>4. CASE ~(pos < NSec(j.name))
    <3>1. files' = files /\ bpc' \in {"open", "done"} BY <1>7, <2>4 DEF WriteSector
    <3>2. \A k : ~Pending(k)' BY <3>1 DEF Pending
    <3> QED BY <3>1, <3>2, <2>1, <1>1, <1>3 DEF ImageMoves
  <2> QED BY <2>3, <2>4
<1>8. CASE BuildDies BY <1>1, <1>3, <1>8 DEF BuildDies, ImageMoves, Pending
<1> QED BY <1>4, <1>5, <1>6, <1>7, <1>8 DEF BuildStep, Builder

\* No step of a build breaks the invariant of the checker.
LEMMA BuildKeepsCheck ==
  ASSUME Types, BuildInv, CheckInv, BuildStep, Types'
  PROVE  CheckInv'
<1>1. UNCHANGED <<cpc, before, after, got, name, cur>>
  BY DEF BuildStep, StartBuild, Builder, InjectOpen, CopySector, WriteSector, BuildDies, checker
<1>2. Course' BY <1>1 DEF CheckInv, Course
<1>3. cpc # "idle" => OnDisk(Image) BY DEF Types
<1>4. ~truncated' => ~truncated
  BY DEF BuildStep, StartBuild, Builder, InjectOpen, CopySector, WriteSector, BuildDies
<1>5. ASSUME cpc # "idle", ~truncated' PROVE ImageMoves BY <1>3, <1>5, BuildMoves
<1>6. cpc # "idle" =>
        /\ Len(before) \in Nat /\ Len(after) \in Nat
        /\ Len(files[Image]) \in Nat /\ Len(files'[Image]) \in Nat
  BY <1>1, ImageIsAPath DEF Types, BuilderTypes, CheckerTypes, OnDisk
<1>7. BeforeInv'
  <2> SUFFICES ASSUME cpc # "idle", ~truncated' PROVE BeforeInv' BY <1>1 DEF BeforeInv
  <2>1. ImageMoves /\ BeforeInv /\ ~truncated BY <1>4, <1>5 DEF CheckInv
  <2>2. Len(before') <= Len(files'[Image]) /\ Len(after') <= Len(files'[Image])
    BY <2>1, <1>1, <1>6 DEF ImageMoves, BeforeInv
  <2>3. ASSUME NEW k \in 1 .. Len(before) PROVE before[k] = files'[Image][k] \/ ~Pending(k)'
    <3>1. k \in 1 .. Len(files[Image]) BY <2>1, <1>6 DEF BeforeInv
    <3> QED BY <3>1, <2>1 DEF ImageMoves, BeforeInv
  <2> QED BY <2>2, <2>3, <1>1 DEF BeforeInv
<1>8. GotInv'
  <2> SUFFICES ASSUME cpc \in {"find", "extract", "after"}, ~truncated', Len(files'[Image]) = Len(before)
               PROVE  GotInv'
    BY <1>1 DEF GotInv
  <2>1. ImageMoves /\ BeforeInv /\ ~truncated BY <1>4, <1>5 DEF CheckInv
  <2>2. Len(files[Image]) = Len(before) BY <2>1, <1>6 DEF ImageMoves, BeforeInv
  <2>3. ASSUME NEW n, NEW c, Faithful(n, c) PROVE Faithful(n, c)'
    <3> DEFINE k == CellSector(n, c)
    <3>1. k \in 1 .. Len(files[Image]) BY <2>2, <2>3 DEF Faithful
    <3>2. files'[Image][k] = files[Image][k] \/ Pending(k) BY <3>1, <2>1 DEF ImageMoves
    <3>3. Pending(k)' => Pending(k) BY <3>1, <2>1 DEF ImageMoves
    <3>4. \/ got'[n][c] = before'[k].user[CellOf(c)]
          \/ got'[n][c] = files'[Image][k].user[CellOf(c)] /\ ~Pending(k)'
      BY <3>2, <3>3, <2>3, <1>1 DEF Faithful
    <3> QED BY <3>4, <2>3, <1>1 DEF Faithful
  <2>4. ASSUME NEW n, Extracted(n) PROVE Extracted(n)' BY <2>3, <2>4, <1>1 DEF Extracted
  <2>5. ASSUME NEW n, Extracting(n) PROVE Extracting(n)' BY <2>3, <2>5, <1>1 DEF Extracting
  <2> QED BY <2>1, <2>2, <2>4, <2>5, <1>1 DEF GotInv, CheckInv
<1>9. VerdictIsOfTheHash' BY <1>1, <1>4 DEF CheckInv, VerdictIsOfTheHash
<1>10. WaitInv'
  <2> SUFFICES ASSUME waited' PROVE FALSE BY DEF WaitInv
  <2>1. waited /\ bpc = "done"
    BY DEF CheckInv, WaitInv, BuildStep, StartBuild, Builder, InjectOpen, CopySector, WriteSector,
           BuildDies
  <2> QED BY <2>1 DEF BuildStep, StartBuild, Builder, InjectOpen, CopySector, WriteSector, BuildDies
<1> QED BY <1>2, <1>7, <1>8, <1>9, <1>10 DEF CheckInv

\* What every step of the checker leaves alone.
LEMMA CheckerMoves ==
  ASSUME Types, BuildInv, StartCheck \/ Checker
  PROVE  /\ UNCHANGED <<files, payload, bpc, job, pos, builds>>
         /\ \A k : Pending(k)' <=> Pending(k)
         /\ files[Image] \in Seq(Sector) /\ Len(files[Image]) \in 0 .. Len(Base)
         /\ Len(before) \in Nat /\ Len(after) \in Nat /\ Len(Base) \in Nat
         /\ before \in Seq(Sector) /\ after \in Seq(Sector) /\ name \in 1 .. Len(Names)
         /\ \A i \in 1 .. Len(Names) : Names[i] \in FileNames /\ got[Names[i]] \in Seq(Cells)
         /\ \A i, k \in 1 .. Len(Names) : Names[i] = Names[k] => i = k
<1>1. UNCHANGED <<files, payload, bpc, job, pos, builds>>
  BY DEF StartCheck, Checker, HashBefore, Find, Extract, HashAfter, builder
<1>2. \A k : Pending(k)' <=> Pending(k) BY <1>1 DEF Pending
<1>3. files[Image] \in Seq(Sector) /\ Len(files[Image]) \in 0 .. Len(Base) /\ Len(Base) \in Nat
  <2>1. OnDisk(Image)
    BY DEF Types, StartCheck, Checker, HashBefore, Find, Extract, HashAfter
  <2> QED BY <2>1, ImageIsAPath, DiscAssumption DEF Types, BuilderTypes, BuildInv, OnDisk
<1>4. /\ before \in Seq(Sector) /\ after \in Seq(Sector) /\ name \in 1 .. Len(Names)
      /\ got \in [FileNames -> Seq(Cells)]
  BY DEF Types, CheckerTypes, Names
<1>5. \A i \in 1 .. Len(Names) : Names[i] \in FileNames BY FileAssumption DEF FileNames, Names
<1>6. \A i, k \in 1 .. Len(Names) : Names[i] = Names[k] => i = k BY DEF Names
<1> QED BY <1>1, <1>2, <1>3, <1>4, <1>5, <1>6

\* The steps of the checker, one by one.
LEMMA StartCheckKeeps == ASSUME Types, BuildInv, CheckInv, StartCheck PROVE CheckInv'
<1>1. /\ cpc = "idle" /\ cpc' = "before" /\ truncated' = FALSE /\ waited' = (bpc = "done")
      /\ UNCHANGED <<files, payload, bpc, job, pos, builds, before, after, got, name, cur>>
  BY DEF StartCheck, builder
<1>2. before = <<>> /\ after = <<>> BY <1>1 DEF CheckInv, Course
<1>3. Len(files[Image]) \in Nat BY CheckerMoves
<1>4. Course' BY <1>1 DEF CheckInv, Course
<1>5. BeforeInv' BY <1>1, <1>2, <1>3 DEF BeforeInv
<1>6. GotInv' /\ VerdictIsOfTheHash' BY <1>1 DEF GotInv, VerdictIsOfTheHash
<1>7. WaitInv'
  <2>1. Len(before) = 0 /\ \A k \in 1 .. Len(before) : FALSE BY <1>2
  <2>2. waited' => bpc = "done" BY <1>1
  <2>3. Len(before') <= Len(files'[Image]) BY <2>1, <1>1, <1>3
  <2>4. \A k \in 1 .. Len(before') : before'[k] = files'[Image][k] BY <2>1, <1>1
  <2>5. ~truncated' /\ cpc' # "idle" /\ bpc' = bpc BY <1>1
  <2> QED BY <2>2, <2>3, <2>4, <2>5 DEF WaitInv
<1> QED BY <1>4, <1>5, <1>6, <1>7 DEF CheckInv

LEMMA HashBeforeKeeps == ASSUME Types, BuildInv, CheckInv, HashBefore PROVE CheckInv'
<1> USE CheckerMoves DEF Checker
<1>1. /\ cpc = "before" /\ cpc' \in {"before", "find"}
      /\ UNCHANGED <<files, payload, bpc, job, pos, builds, after, got, name, cur, truncated, waited>>
  BY DEF HashBefore, builder
<1>2. Course' BY <1>1 DEF CheckInv, Course
<1>3. after = <<>> /\ name = 1 BY <1>1 DEF CheckInv, Course
<1>4. ASSUME ~truncated
      PROVE  /\ Len(before') <= Len(files[Image])
             /\ \A k \in 1 .. Len(before') :
                  before'[k] = IF k \in 1 .. Len(before) THEN before[k] ELSE files[Image][k]
  <2>1. Len(before) <= Len(files[Image]) BY <1>1, <1>4 DEF CheckInv, BeforeInv
  <2>2. CASE Len(before) < Len(files[Image])
    <3>1. before' = Append(before, files[Image][Len(before) + 1]) BY <2>2 DEF HashBefore
    <3> QED BY <3>1, <2>2
  <2>3. CASE ~(Len(before) < Len(files[Image]))
    <3>1. before' = before BY <2>3 DEF HashBefore
    <3> QED BY <3>1, <2>1
  <2> QED BY <2>2, <2>3
<1>5. BeforeInv'
  <2> SUFFICES ASSUME ~truncated PROVE BeforeInv' BY <1>1 DEF BeforeInv
  <2>1. \A k \in 1 .. Len(before) : before[k] = files[Image][k] \/ ~Pending(k)
    BY <1>1 DEF CheckInv, BeforeInv
  <2>2. \A k \in 1 .. Len(before') : before'[k] = files[Image][k] \/ ~Pending(k)'
    BY <2>1, <1>4
  <2> QED BY <2>2, <1>1, <1>3, <1>4 DEF BeforeInv
<1>6. GotInv' BY <1>1, <1>3 DEF GotInv
<1>7. VerdictIsOfTheHash' BY <1>1 DEF VerdictIsOfTheHash
<1>8. WaitInv'
  <2> SUFFICES ASSUME waited PROVE WaitInv' BY <1>1 DEF WaitInv
  <2>1. /\ bpc = "done" /\ ~truncated
        /\ \A k \in 1 .. Len(before) : before[k] = files[Image][k]
    BY DEF CheckInv, WaitInv
  <2> QED BY <2>1, <1>1, <1>4 DEF WaitInv
<1> QED BY <1>2, <1>5, <1>6, <1>7, <1>8 DEF CheckInv

LEMMA FindKeeps == ASSUME Types, BuildInv, CheckInv, Find PROVE CheckInv'
<1> USE CheckerMoves DEF Checker
<1> DEFINE n == Names[name]
<1>1. /\ cpc = "find" /\ cpc' \in {"extract", "error"}
      /\ UNCHANGED <<files, payload, bpc, job, pos, builds, before, after, got, name, truncated, waited>>
  BY DEF Find, builder
<1>2. Course' BY <1>1 DEF CheckInv, Course
<1>3. BeforeInv' BY <1>1 DEF CheckInv, BeforeInv
<1>4. GotInv'
  <2> SUFFICES ASSUME ~truncated, Len(files[Image]) = Len(before), cpc' = "extract" PROVE GotInv'
    BY <1>1 DEF GotInv
  <2>1. cur' = Extent[n].lba BY DEF Find
  <2>2. got[n] = <<>> BY <1>1 DEF CheckInv, Course
  <2>3. n \in FileNames /\ Extent[n].lba \in Nat /\ User \in Nat BY FileTypes
  <2>4. Len(got[n]) = (cur' - Extent[n].lba) * User BY <2>1, <2>2, <2>3
  <2>5. Extracting(n)' BY <1>1, <2>1, <2>2, <2>3, <2>4 DEF Extracting
  <2>6. \A i \in 1 .. name - 1 : Extracted(Names[i]) BY <1>1 DEF CheckInv, GotInv
  <2>7. \A m : Extracted(m) => Extracted(m)' BY <1>1 DEF Extracted, Faithful
  <2> QED BY <1>1, <2>5, <2>6, <2>7 DEF GotInv
<1>5. VerdictIsOfTheHash' BY <1>1 DEF VerdictIsOfTheHash
<1>6. WaitInv' BY <1>1 DEF CheckInv, WaitInv
<1> QED BY <1>2, <1>3, <1>4, <1>5, <1>6 DEF CheckInv

\* What was faithful stays so while nothing but the extracting moves.
LEMMA StaysFaithful ==
  ASSUME UNCHANGED <<files, bpc, job, pos, before, after>>,
         NEW n, NEW c, Faithful(n, c), got'[n][c] = got[n][c]
  PROVE  Faithful(n, c)'
BY DEF Faithful, Pending

\* A sector read adds its cells where they belong.
LEMMA ExtractReads ==
  ASSUME Types, BuildInv, CheckInv, Extract, ~truncated, Len(files[Image]) = Len(before),
         NEW n, n = Names[name], Len(got[n]) < Extent[n].size
  PROVE  Extracting(n)'
<1> DEFINE g == got[n]
<1>0. /\ UNCHANGED <<files, payload, bpc, job, pos, builds>>
      /\ \A k : Pending(k)' <=> Pending(k)
      /\ Len(files[Image]) \in 0 .. Len(Base) /\ Len(before) \in Nat /\ Len(Base) \in Nat
      /\ name \in 1 .. Len(Names) /\ \A i \in 1 .. Len(Names) : Names[i] \in FileNames
      /\ \A i \in 1 .. Len(Names) : got[Names[i]] \in Seq(Cells)
  BY CheckerMoves DEF Checker
<1>1. /\ cpc = "extract" /\ n \in FileNames /\ g \in Seq(Cells)
      /\ cur' = IF cur <= Len(Base) THEN cur + 1 ELSE cur
      /\ UNCHANGED <<files, bpc, job, pos, before, after>>
  BY <1>0 DEF Extract
<1>2. Extracting(n) BY <1>1 DEF CheckInv, GotInv
<1>3. /\ cur \in Nat /\ Extent[n].lba \in Nat \ {0} /\ User \in Nat \ {0}
      /\ Extent[n].lba <= cur /\ got \in [FileNames -> Seq(Cells)]
  BY <1>1, <1>2, FileTypes DEF Types, CheckerTypes, Extracting
<1>4. Len(g) \in Nat BY <1>1
<1>5. CASE cur <= Len(files[Image])
  <2> DEFINE d == files[Image][cur].user
             i == cur - Extent[n].lba
  <2>1. d \in Seq(Cells) /\ Len(d) = User BY <1>0, <1>1, <1>3, <1>5, ReadTypes
  <2>2. got' = [got EXCEPT ![n] = g \o d] BY <1>5 DEF Extract
  <2>3. got'[n] = g \o d BY <2>2, <1>1, <1>3
  <2>4. Len(g) = i * User /\ i \in Nat /\ cur \in 1 .. Len(before)
    <3>1. cur <= Len(before) BY <1>5
    <3>2. Len(g) = i * User BY <3>1, <1>2 DEF Extracting
    <3>3. i \in Nat /\ cur \in 1 .. Len(before) BY <3>1, <1>0, <1>3
    <3> QED BY <3>2, <3>3
  <2>5. /\ Len(got'[n]) = Len(g) + User
        /\ \A c \in 1 .. Len(g) : got'[n][c] = g[c]
        /\ \A u \in 1 .. User : got'[n][Len(g) + u] = d[u]
    <3> HIDE DEF g, d
    <3>1. Len(g \o d) = Len(g) + Len(d) BY <1>1, <2>1
    <3>2. \A c \in 1 .. Len(g) : (g \o d)[c] = g[c] BY <1>1, <2>1
    <3>3. \A u \in 1 .. Len(d) : (g \o d)[Len(g) + u] = d[u] BY <1>1, <2>1
    <3> QED BY <3>1, <3>2, <3>3, <2>1, <2>3
  <2>6. cur' = cur + 1 BY <1>0, <1>1, <1>3, <1>5
  <2>7. Len(got'[n]) = (cur' - Extent[n].lba) * User
    <3>1. cur' - Extent[n].lba = (cur - Extent[n].lba) + 1
      <4>1. \A p, q \in Int : (p + 1) - q = (p - q) + 1 OBVIOUS
      <4>2. cur \in Int /\ Extent[n].lba \in Int BY <1>3
      <4> QED BY <4>1, <4>2, <2>6
    <3> HIDE DEF i
    <3>2. (i + 1) * User = i * User + 1 * User BY <2>4, <1>3, Distribute
    <3>3. 1 * User = User BY <1>3
    <3>4. Len(got'[n]) = (i + 1) * User BY <3>2, <3>3, <2>4, <2>5
    <3> QED BY <3>1, <3>4 DEF i
  <2>8. ASSUME NEW c \in 1 .. Len(got'[n]) PROVE Faithful(n, c)'
    <3>1. CASE c \in 1 .. Len(g)
      <4>1. Faithful(n, c) BY <3>1, <1>2 DEF Extracting
      <4>2. got'[n][c] = got[n][c] BY <3>1, <2>5
      <4> HIDE DEF g
      <4> QED BY <4>1, <4>2, <1>1, StaysFaithful
    <3>2. CASE c \notin 1 .. Len(g)
      <4>0. PICK q : q = cur OBVIOUS
      <4> DEFINE u == c - Len(g)
      <4>1. u \in 1 .. User /\ c = Len(g) + u
        <5> HIDE DEF g
        <5>1. c \in Int /\ 1 <= c /\ c <= Len(g) + User BY <2>5, <2>8, <1>3, <1>4
        <5> QED BY <5>1, <3>2, <1>3, <1>4
      <4>2. c = i * User + u /\ i \in Int /\ i * User \in Int
        <5>1. Len(g) = i * User /\ i \in Int BY <2>4
        <5> HIDE DEF i, g
        <5>2. i * User \in Int BY <5>1, <1>3
        <5> QED BY <5>1, <5>2, <4>1
      <4> HIDE DEF i, u
      <4>3. (i * User + u - 1) \div User = i /\ CellOf(i * User + u) = u
        BY <4>1, <4>2, PlaceOf, Zenon
      <4>4. c - 1 = i * User + u - 1 BY <4>1, <4>2
      <4>5. CellSector(n, c) = cur /\ CellOf(c) = u
        <5>1. Extent[n].lba + i = cur BY <1>3 DEF i
        <5>2. (c - 1) \div User = i BY <4>3, <4>4
        <5>3. CellOf(c) = u BY <4>2, <4>3
        <5> QED BY <5>1, <5>2, <5>3 DEF CellSector
      <4>6. got'[n][c] = files[Image][cur].user[u] BY <4>1, <2>5
      <4>7. before[cur] = files[Image][cur] \/ ~Pending(cur)
        BY <2>4, <1>1 DEF CheckInv, BeforeInv
      <4>8. Len(after) = 0 BY <1>1 DEF CheckInv, Course
      <4>9. files' = files /\ before' = before /\ after' = after /\ (Pending(q)' <=> Pending(q))
        BY <1>0, <1>1
      <4>10. ~(q <= Len(after)) /\ q \in 1 .. Len(before) BY <4>0, <4>8, <2>4, <1>0
      <4>11. /\ CellSector(n, c) = q /\ CellOf(c) = u /\ got'[n][c] = files[Image][q].user[u]
             /\ before[q] = files[Image][q] \/ ~Pending(q)
        BY <4>0, <4>5, <4>6, <4>7
      <4> HIDE DEF g, d
      <4> QED BY <4>9, <4>10, <4>11 DEF Faithful
    <3> QED BY <3>1, <3>2
  <2>9. Extent[n].lba <= cur' BY <2>6, <1>3
  <2> QED BY <2>7, <2>8, <2>9 DEF Extracting
<1>6. CASE ~(cur <= Len(files[Image]))
  <2>1. got' = got BY <1>6 DEF Extract
  <2>2. Extent[n].lba <= cur' /\ ~(cur' <= Len(before)) /\ before' = before
    BY <1>0, <1>1, <1>3, <1>6
  <2>3. \A c : Faithful(n, c) => Faithful(n, c)' BY <2>1, <1>1, StaysFaithful
  <2> QED BY <2>1, <2>2, <2>3, <1>2 DEF Extracting
<1> QED BY <1>5, <1>6

LEMMA ExtractKeeps == ASSUME Types, BuildInv, CheckInv, Extract PROVE CheckInv'
<1>n. PICK n : n = Names[name] OBVIOUS
<1> DEFINE g == got[n]
           size == Extent[n].size
<1>0. /\ \A k : Pending(k)' <=> Pending(k)
      /\ Len(files[Image]) \in 0 .. Len(Base) /\ Len(before) \in Nat /\ Len(Base) \in Nat
      /\ name \in 1 .. Len(Names) /\ \A i \in 1 .. Len(Names) : Names[i] \in FileNames
      /\ \A i \in 1 .. Len(Names) : got[Names[i]] \in Seq(Cells)
      /\ \A i, k \in 1 .. Len(Names) : Names[i] = Names[k] => i = k
  BY CheckerMoves DEF Checker
<1>1. /\ cpc = "extract" /\ n \in FileNames /\ g \in Seq(Cells) /\ size \in Nat
      /\ UNCHANGED <<files, payload, bpc, job, pos, builds, before, after, truncated, waited>>
      /\ got \in [FileNames -> Seq(Cells)]
      /\ cpc' \in {"extract", "find", "after"}
  BY <1>n, <1>0, FileTypes DEF Extract, builder, Types, CheckerTypes
<1>2. BeforeInv' BY <1>0, <1>1 DEF CheckInv, BeforeInv
<1>3. VerdictIsOfTheHash' BY <1>1 DEF VerdictIsOfTheHash
<1>4. WaitInv' BY <1>1 DEF CheckInv, WaitInv
<1>5. \A i \in name + 1 .. Len(Names) : got'[Names[i]] = <<>>
  <2> SUFFICES ASSUME NEW i \in name + 1 .. Len(Names) PROVE got'[Names[i]] = <<>> OBVIOUS
  <2>1. i \in 1 .. Len(Names) /\ i # name BY <1>0
  <2>2. Names[i] # n BY <1>n, <2>1, <1>0
  <2>3. got'[Names[i]] = got[Names[i]] BY <1>n, <2>2, <1>0, <1>1, <2>1 DEF Extract
  <2> QED BY <2>3, <1>1 DEF CheckInv, Course
<1>6. \A i \in 1 .. name - 1 : got'[Names[i]] = got[Names[i]]
  <2> SUFFICES ASSUME NEW i \in 1 .. name - 1 PROVE got'[Names[i]] = got[Names[i]] OBVIOUS
  <2>1. i \in 1 .. Len(Names) /\ i # name BY <1>0
  <2>2. Names[i] # n BY <1>n, <2>1, <1>0
  <2> QED BY <1>n, <2>2, <1>0, <1>1, <2>1 DEF Extract
<1>7. ASSUME ~truncated, Len(files[Image]) = Len(before), NEW i \in 1 .. name - 1
      PROVE  Extracted(Names[i])'
  <2> DEFINE m == Names[i]
  <2>1. Extracted(m) BY <1>1, <1>7 DEF CheckInv, GotInv
  <2>2. got'[m] = got[m] BY <1>6
  <2> HIDE DEF m
  <2>3. \A c : Faithful(m, c) => Faithful(m, c)' BY <2>2, <1>1, StaysFaithful
  <2>4. Extracted(m)' BY <2>1, <2>2, <2>3 DEF Extracted
  <2> QED BY <2>4 DEF m
<1>8. CASE Len(g) < size
  <2>1. cpc' = "extract" /\ name' = name BY <1>n, <1>1, <1>8 DEF Extract
  <2>2. Course' BY <2>1, <1>1, <1>5 DEF CheckInv, Course
  <2>3. GotInv'
    <3> SUFFICES ASSUME ~truncated, Len(files[Image]) = Len(before) PROVE GotInv'
      BY <1>1 DEF GotInv
    <3>1. Extracting(n)' BY <1>n, <1>8, ExtractReads
    <3>2. Extracting(Names[name])' BY <1>n, <2>1, <3>1
    <3>3. \A i \in 1 .. name' - 1 : Extracted(Names[i])' BY <2>1, <1>7
    <3> QED BY <2>1, <3>2, <3>3 DEF GotInv
  <2> QED BY <2>2, <2>3, <1>2, <1>3, <1>4 DEF CheckInv
<1>9. CASE ~(Len(g) < size)
  <2>1. got' = [got EXCEPT ![n] = SubSeq(g, 1, size)] BY <1>n, <1>9 DEF Extract
  <2>2. /\ got'[n] = SubSeq(g, 1, size) /\ Len(got'[n]) = size
        /\ \A c \in 1 .. size : got'[n][c] = g[c] /\ c \in 1 .. Len(g)
    BY <2>1, <1>1, <1>9
  <2>3. \/ name < Len(Names) /\ name' = name + 1 /\ cpc' = "find"
        \/ name = Len(Names) /\ name' = name /\ cpc' = "after"
    BY <1>n, <1>0, <1>9 DEF Extract
  <2>4. Course'
    <3>1. CASE name < Len(Names) /\ name' = name + 1 /\ cpc' = "find"
      <4>1. /\ name + 1 \in name + 1 .. Len(Names)
            /\ \A i \in (name + 1) + 1 .. Len(Names) : i \in name + 1 .. Len(Names)
        BY <3>1, <1>0
      <4>2. after = <<>> BY <1>1 DEF CheckInv, Course
      <4>3. got'[Names[name']] = <<>> BY <3>1, <4>1, <1>5
      <4>4. \A i \in name' + 1 .. Len(Names) : got'[Names[i]] = <<>> BY <3>1, <4>1, <1>5
      <4> QED BY <3>1, <4>2, <4>3, <4>4, <1>1 DEF Course
    <3>2. CASE name = Len(Names) /\ name' = name /\ cpc' = "after" BY <3>2 DEF Course
    <3> QED BY <2>3, <3>1, <3>2
  <2>5. GotInv'
    <3> SUFFICES ASSUME ~truncated, Len(files[Image]) = Len(before) PROVE GotInv'
      BY <1>1 DEF GotInv
    <3>1. Extracting(n) BY <1>n, <1>1 DEF CheckInv, GotInv
    <3>2. Extracted(n)'
      <4>1. ASSUME NEW c \in 1 .. size PROVE Faithful(n, c)'
        <5>1. Faithful(n, c) BY <3>1, <2>2 DEF Extracting
        <5>2. got'[n][c] = got[n][c] BY <2>2
        <5> HIDE DEF g, size
        <5> QED BY <5>1, <5>2, <1>1, StaysFaithful
      <4> QED BY <4>1, <2>2 DEF Extracted
    <3>3. ASSUME NEW i \in 1 .. name PROVE Extracted(Names[i])'
      <4>1. CASE i \in 1 .. name - 1 BY <4>1, <1>7
      <4>2. CASE i = name BY <1>n, <4>2, <3>2
      <4>3. i \in 1 .. name - 1 \/ i = name BY <1>0
      <4> QED BY <4>1, <4>2, <4>3
    <3>4. \A i \in 1 .. name' - 1 : i \in 1 .. name BY <2>3, <1>0
    <3>5. \A i \in 1 .. name' - 1 : Extracted(Names[i])' BY <3>3, <3>4
    <3>6. cpc' = "after" => Extracted(Names[name])' BY <1>n, <2>3, <3>2
    <3> QED BY <2>3, <3>5, <3>6 DEF GotInv
  <2> QED BY <2>4, <2>5, <1>2, <1>3, <1>4 DEF CheckInv
<1> QED BY <1>8, <1>9

LEMMA HashAfterKeeps == ASSUME Types, BuildInv, CheckInv, HashAfter PROVE CheckInv'
<1>0. /\ \A k : Pending(k)' <=> Pending(k)
      /\ Len(files[Image]) \in Nat /\ Len(before) \in Nat /\ Len(after) \in Nat
      /\ after \in Seq(Sector) /\ name \in 1 .. Len(Names)
      /\ \A i \in 1 .. Len(Names) : got[Names[i]] \in Seq(Cells)
  BY CheckerMoves DEF Checker
<1>1. /\ cpc = "after" /\ cpc' \in {"after", "judged", "changed"} /\ name = Len(Names)
      /\ UNCHANGED <<files, payload, bpc, job, pos, builds, before, got, name, cur, truncated, waited>>
  BY DEF HashAfter, builder, CheckInv, Course
<1>2. Course' BY <1>1 DEF Course
<1>3. WaitInv' BY <1>1 DEF CheckInv, WaitInv
<1>4. CASE Len(after) < Len(files[Image])
  <2> DEFINE new == Len(after) + 1
  <2>1. after' = Append(after, files[Image][new]) /\ cpc' = "after" BY <1>1, <1>4 DEF HashAfter
  <2>2. Len(after') = new /\ \A k \in 1 .. new : k \in 1 .. Len(after) \/ k = new
    BY <2>1, <1>0
  <2>3. after'[new] = files[Image][new] /\ \A k \in 1 .. Len(after) : after'[k] = after[k]
    BY <2>1, <1>0
  <2>4. BeforeInv'
    <3> SUFFICES ASSUME ~truncated PROVE BeforeInv' BY <1>1 DEF BeforeInv
    <3>1. new <= Len(files[Image]) BY <1>0, <1>4
    <3> QED BY <3>1, <2>2, <1>0, <1>1 DEF CheckInv, BeforeInv
  <2>5. ASSUME NEW n, NEW c, Faithful(n, c) PROVE Faithful(n, c)'
    <3> DEFINE k == CellSector(n, c)
               u == CellOf(c)
    <3>1. /\ k \in 1 .. Len(before)
          /\ got[n][c] = before[k].user[u] \/ (got[n][c] = files[Image][k].user[u] /\ ~Pending(k))
          /\ k <= Len(after) /\ after[k] = before[k] => got[n][c] = before[k].user[u]
      BY <2>5 DEF Faithful
    <3> HIDE DEF k, u
    <3>2. ASSUME k <= Len(after'), after'[k] = before[k] PROVE got[n][c] = before[k].user[u]
      <4>1. k \in 1 .. new BY <3>1, <3>2, <2>2, <1>0
      <4>2. CASE k \in 1 .. Len(after) BY <4>2, <3>1, <3>2, <2>3, <1>0
      <4>3. CASE k = new
        <5>1. files[Image][k] = before[k] BY <4>3, <3>2, <2>3
        <5> QED BY <5>1, <3>1
      <4> QED BY <4>1, <4>2, <4>3, <2>2
    <3>3. Pending(k)' <=> Pending(k) BY <1>0
    <3> QED BY <3>1, <3>2, <3>3, <1>1 DEF Faithful, k, u
  <2>6. \A n : Extracted(n) => Extracted(n)' BY <2>5, <1>1 DEF Extracted
  <2>7. GotInv' BY <2>1, <2>6, <1>1 DEF CheckInv, GotInv
  <2>8. VerdictIsOfTheHash' BY <2>1 DEF VerdictIsOfTheHash
  <2> QED BY <2>4, <2>7, <2>8, <1>2, <1>3 DEF CheckInv
<1>5. CASE ~(Len(after) < Len(files[Image]))
  <2>1. after' = after /\ cpc' = (IF after = before THEN "judged" ELSE "changed")
    BY <1>1, <1>5 DEF HashAfter
  <2>2. BeforeInv' BY <2>1, <1>0, <1>1 DEF CheckInv, BeforeInv
  <2>3. GotInv' BY <2>1 DEF GotInv
  <2>4. ASSUME after = before, ~truncated, NEW n \in FileNames
        PROVE  Extent[n].lba + NSec(n) - 1 <= Len(before) /\ got[n] = FileIn(before, n)
    <3>1. Len(before) = Len(files[Image]) BY <2>4, <1>0, <1>1, <1>5 DEF CheckInv, BeforeInv
    <3>2. PICK i \in 1 .. Len(Names) : Names[i] = n BY FileAssumption DEF FileNames, Names
    <3>3. i \in 1 .. name - 1 \/ i = name BY <1>0, <1>1, <3>2
    <3>4. Extracted(n) BY <3>1, <3>2, <3>3, <2>4, <1>1 DEF CheckInv, GotInv
    <3>5. \A c \in 1 .. Extent[n].size :
             /\ CellSector(n, c) <= Len(before)
             /\ got[n][c] = before[CellSector(n, c)].user[CellOf(c)]
      <4>1. ASSUME NEW c \in 1 .. Extent[n].size
            PROVE  /\ CellSector(n, c) <= Len(before)
                   /\ got[n][c] = before[CellSector(n, c)].user[CellOf(c)]
        <5>1. Faithful(n, c) BY <3>4 DEF Extracted
        <5> QED BY <5>1, <2>4, <1>0 DEF Faithful
      <4> QED BY <4>1
    <3>6. got[n] = [c \in 1 .. Extent[n].size |-> got[n][c]]
      <4>1. got[n] \in Seq(Cells) /\ Len(got[n]) = Extent[n].size BY <1>0, <3>2, <3>4 DEF Extracted
      <4> QED BY <4>1
    <3>7. got[n] = FileIn(before, n) BY <3>5, <3>6 DEF FileIn
    <3>8. Extent[n].lba + NSec(n) - 1 <= Len(before)
      <4>1. PICK c \in 1 .. Extent[n].size : CellSector(n, c) = Extent[n].lba + NSec(n) - 1
        BY LastSector
      <4> QED BY <4>1, <3>5
    <3> QED BY <3>7, <3>8
  <2>5. VerdictIsOfTheHash' BY <2>1, <2>4, <1>1 DEF VerdictIsOfTheHash, FileNames
  <2> QED BY <2>2, <2>3, <2>5, <1>2, <1>3 DEF CheckInv
<1> QED BY <1>4, <1>5

\* The checker's invariant, whatever the builds do.
LEMMA CheckHolds == Spec => [](Types /\ BuildInv /\ CheckInv)
<1>1. Init => CheckInv
  <2> SUFFICES ASSUME Init PROVE CheckInv OBVIOUS
  <2>1. /\ cpc = "idle" /\ before = <<>> /\ after = <<>> /\ name = 1 /\ waited = FALSE
        /\ got = [n \in DOMAIN Extent |-> <<>>]
    BY DEF Init
  <2>2. \A i \in 1 .. Len(Names) : got[Names[i]] = <<>>
    BY <2>1, FileAssumption DEF Names
  <2>3. 1 \in 1 .. Len(Names) /\ \A i \in 1 + 1 .. Len(Names) : i \in 1 .. Len(Names) BY DEF Names
  <2>4. Course BY <2>1, <2>2, <2>3 DEF Course
  <2> QED BY <2>1, <2>4 DEF CheckInv, BeforeInv, GotInv, VerdictIsOfTheHash, WaitInv
<1>2. Types /\ BuildInv /\ CheckInv /\ [Next]_vars /\ Types' => CheckInv'
  <2> SUFFICES ASSUME Types, BuildInv, CheckInv, [Next]_vars, Types' PROVE CheckInv' OBVIOUS
  <2>1. CASE BuildStep BY <2>1, BuildKeepsCheck
  <2>2. CASE StartCheck BY <2>2, StartCheckKeeps
  <2>3. CASE Checker
    <3>1. CASE HashBefore BY <3>1, HashBeforeKeeps
    <3>2. CASE Find BY <3>2, FindKeeps
    <3>3. CASE Extract BY <3>3, ExtractKeeps
    <3>4. CASE HashAfter BY <3>4, HashAfterKeeps
    <3> QED BY <2>3, <3>1, <3>2, <3>3, <3>4 DEF Checker
  <2>4. CASE UNCHANGED vars
    <3>1. UNCHANGED <<files, payload, bpc, job, pos, builds, cpc, before, after, got, name, cur,
                      truncated, waited>>
      BY <2>4 DEF vars
    <3>2. Course' /\ VerdictIsOfTheHash' /\ WaitInv'
      BY <3>1 DEF CheckInv, Course, VerdictIsOfTheHash, WaitInv
    <3>3. \A k : Pending(k)' <=> Pending(k) BY <3>1 DEF Pending
    <3>4. BeforeInv' BY <3>1, <3>3 DEF CheckInv, BeforeInv
    <3>5. \A n, c : Faithful(n, c) => Faithful(n, c)' BY <3>1, StaysFaithful
    <3>6. \A n : /\ Extracted(n) => Extracted(n)'
                 /\ Extracting(n) => Extracting(n)'
      BY <3>1, <3>5 DEF Extracted, Extracting
    <3>7. GotInv' BY <3>1, <3>6 DEF CheckInv, GotInv
    <3> QED BY <3>2, <3>4, <3>7 DEF CheckInv
  <2>5. BuildStep \/ StartCheck \/ Checker \/ UNCHANGED vars BY DEF Next, BuildStep
  <2> QED BY <2>1, <2>2, <2>3, <2>4, <2>5
<1> QED BY <1>1, <1>2, BuildHolds, PTL DEF Spec

\* A verdict is a verdict on the image whose hash was printed, whatever a build was doing while
\* the files were read: VerdictIsOfTheHash of every run of DiscBuild.
THEOREM VerdictsAreOfTheHash == Spec => []VerdictIsOfTheHash
<1>1. CheckInv => VerdictIsOfTheHash BY DEF CheckInv
<1> QED BY <1>1, CheckHolds, PTL

\* A check begun after the build ended, with none started meanwhile, judges what was built.
THEOREM WaitingIsEnough == Spec => []WaitedCheckIsOfTheBuild
<1>1. Types /\ BuildInv /\ CheckInv => WaitedCheckIsOfTheBuild
  <2> SUFFICES ASSUME Types, BuildInv, CheckInv, cpc = "judged", waited, NEW n \in FileNames
               PROVE  got[n] = payload[n]
    BY DEF WaitedCheckIsOfTheBuild, FileNames
  <2>1. /\ bpc = "done" /\ ~truncated
        /\ \A k \in 1 .. Len(before) : before[k] = files[Image][k]
    BY DEF CheckInv, WaitInv
  <2>2. Extent[n].lba + NSec(n) - 1 <= Len(before) /\ got[n] = FileIn(before, n)
    BY <2>1 DEF CheckInv, VerdictIsOfTheHash, FileNames
  <2>3. ASSUME NEW c \in 1 .. Extent[n].size PROVE CellSector(n, c) \in 1 .. Len(before)
    <3> DEFINE i == (c - 1) \div User
    <3>1. i \in 0 .. NSec(n) - 1 /\ CellSector(n, c) = Extent[n].lba + i BY Place
    <3>2. Extent[n].lba \in Nat \ {0} /\ NSec(n) \in Nat /\ Len(before) \in Nat
      BY FileTypes DEF Types, CheckerTypes
    <3> HIDE DEF i
    <3> QED BY <3>1, <3>2, <2>2
  <2>4. FileIn(before, n) = FileIn(files[Image], n) BY <2>1, <2>3 DEF FileIn
  <2> QED BY <2>1, <2>2, <2>4, DoneImage
<1> QED BY <1>1, CheckHolds, PTL
=============================================================================
