--------------------------- MODULE TextCodecProofs ---------------------------
(***************************************************************************)
(* For any symbols, frequencies, texts and streams: both builders lay out  *)
(* what the engine walks, and the one from frequencies the cheapest tree   *)
(* there is; whatever is read is what was written, and every string start  *)
(* stays where it was when the code lengths do.                            *)
(*                                                                         *)
(* The bits read so far are the codes of the symbols read and the address  *)
(* of the node the reader is at (Reads).  Canonical codes are spans of the *)
(* numbers of the longest length: Kraft's equality says that they fill     *)
(* them, so that they make a tree again (CanonicalIsFull, NumberedIs).     *)
(*                                                                         *)
(* For the cheapest tree, lengths are exchanged until the two lightest     *)
(* items are siblings (Siblings), so that some cheapest tree has them      *)
(* under one node (CheaperMerged); what the heap keeps is that what was    *)
(* merged has cost no more than it must (Cheapest).                        *)
(***************************************************************************)
EXTENDS TextCodec, NaturalLemmas, FiniteSetTheorems, SequenceTheorems

----------------------------------------------------------------------------
(* Sets in an order. *)

\* Irreflexive, total and transitive on a set.
StrictOrder(S, R) ==
  /\ \A x \in S : <<x, x>> \notin R
  /\ \A x, y \in S : x # y => <<x, y>> \in R \/ <<y, x>> \in R
  /\ \A x, y, z \in S : <<x, y>> \in R /\ <<y, z>> \in R => <<x, z>> \in R

\* Of two members of a finite set the later has more before it, and each place is taken.
LEMMA Places ==
  ASSUME NEW S, IsFiniteSet(S), NEW R, StrictOrder(S, R)
  PROVE  /\ Cardinality(S) \in Nat
         /\ \A x \in S : Place(S, x, R) \in 0 .. Cardinality(S) - 1
         /\ \A x, y \in S : <<x, y>> \in R <=> Place(S, x, R) < Place(S, y, R)
         /\ \A x, y \in S : Place(S, x, R) = Place(S, y, R) => x = y
         /\ \A k \in 0 .. Cardinality(S) - 1 : \E x \in S : Place(S, x, R) = k
<1> DEFINE n == Cardinality(S)
           B(x) == {y \in S : <<y, x>> \in R}
           P(x) == Place(S, x, R)
<1>1. n \in Nat BY FS_CardinalityType
<1>2. \A x : P(x) = Cardinality(B(x)) BY DEF Place
<1>3. ASSUME NEW x \in S PROVE IsFiniteSet(B(x)) /\ P(x) \in 0 .. n - 1 /\ x \notin B(x)
  <2>1. x \notin B(x) BY DEF StrictOrder
  <2>2. B(x) \in SUBSET S /\ B(x) # S BY <2>1
  <2> HIDE DEF B
  <2>3. IsFiniteSet(B(x)) /\ Cardinality(B(x)) <= n /\ Cardinality(B(x)) # n BY <2>2, FS_Subset
  <2>4. Cardinality(B(x)) \in Nat BY <2>3, FS_CardinalityType
  <2> HIDE DEF n, P
  <2> QED BY <2>1, <2>3, <2>4, <1>1, <1>2
<1>4. ASSUME NEW x \in S, NEW y \in S, <<x, y>> \in R PROVE P(x) < P(y)
  <2>1. B(x) \cup {x} \in SUBSET B(y) BY <1>4 DEF StrictOrder
  <2>2. IsFiniteSet(B(x)) /\ x \notin B(x) /\ IsFiniteSet(B(y)) BY <1>3
  <2> HIDE DEF B
  <2>3. Cardinality(B(x) \cup {x}) = Cardinality(B(x)) + 1 BY <2>2, FS_AddElement
  <2>4. Cardinality(B(x) \cup {x}) <= Cardinality(B(y)) BY <2>1, <2>2, FS_Subset
  <2>5. Cardinality(B(x)) \in Nat /\ Cardinality(B(y)) \in Nat BY <2>2, FS_CardinalityType
  <2> HIDE DEF P
  <2> QED BY <2>3, <2>4, <2>5, <1>2
<1>5. ASSUME NEW x \in S, NEW y \in S, P(x) < P(y) PROVE <<x, y>> \in R
  <2>1. P(x) \in Nat /\ P(y) \in Nat
    <3> HIDE DEF n, P, B
    <3> QED BY <1>1, <1>3
  <2>2. x # y BY <1>5, <2>1
  <2>3. ~(P(y) < P(x)) BY <1>5, <2>1
  <2> QED BY <2>2, <2>3, <1>4 DEF StrictOrder
<1>6. ASSUME NEW x \in S, NEW y \in S, P(x) = P(y) PROVE x = y
  <2>1. P(x) \in Nat /\ P(y) \in Nat
    <3> HIDE DEF n, P, B
    <3> QED BY <1>1, <1>3
  <2>2. ~(P(x) < P(y)) /\ ~(P(y) < P(x)) BY <1>6, <2>1
  <2> QED BY <2>2, <1>4 DEF StrictOrder
<1>7. ASSUME NEW k \in 0 .. n - 1 PROVE \E x \in S : P(x) = k
  <2> DEFINE f == [x \in S |-> P(x)]
             T == 0 .. n - 1
  <2>1. f \in [S -> T] BY <1>3
  <2>2. \A x, y \in S : f[x] = f[y] => x = y BY <1>6
  <2>3. IsFiniteSet(T) /\ Cardinality(T) = n
    <3>1. 0 \in Int /\ n - 1 \in Int BY <1>1
    <3>2. IsFiniteSet(0 .. n - 1) /\ Cardinality(0 .. n - 1) = IF 0 > n - 1 THEN 0 ELSE (n - 1) - 0 + 1
      BY <3>1, FS_Interval
    <3> HIDE DEF n
    <3> QED BY <3>2, <1>1
  <2>4. f[CHOOSE x \in S : TRUE] = f[CHOOSE x \in S : TRUE] OBVIOUS
  <2>5. \A x \in S : f[x] = P(x) OBVIOUS
  <2>6. k \in T OBVIOUS
  <2> HIDE DEF f, T, P, n
  <2>7. f \in Injection(S, T) BY <2>1, <2>2 DEF Injection, IsInjective
  <2>8. Cardinality(S) = Cardinality(T) BY <2>3 DEF n
  <2>9. f \in Surjection(S, T) BY <2>3, <2>7, <2>8, FS_Injection
  <2> QED BY <2>5, <2>6, <2>9 DEF Surjection
<1> QED BY <1>1, <1>3, <1>4, <1>5, <1>6, <1>7

\* The set in its order.
LEMMA SortedIs ==
  ASSUME NEW S, IsFiniteSet(S), NEW R, StrictOrder(S, R)
  PROVE  /\ Sorted(S, R) \in Seq(S) /\ Len(Sorted(S, R)) = Cardinality(S)
         /\ DOMAIN Sorted(S, R) = 1 .. Cardinality(S)
         /\ \A k \in 1 .. Cardinality(S) : Sorted(S, R)[k] \in S /\ Place(S, Sorted(S, R)[k], R) = k - 1
         /\ \A x \in S : Place(S, x, R) + 1 \in 1 .. Cardinality(S) /\ Sorted(S, R)[Place(S, x, R) + 1] = x
<1> DEFINE n == Cardinality(S)
           F == Sorted(S, R)
<1>1. F = [k \in 1 .. n |-> CHOOSE x \in S : Place(S, x, R) = k - 1] BY DEF Sorted
<1>2. n \in Nat /\ \A k \in 0 .. n - 1 : \E x \in S : Place(S, x, R) = k BY Places
<1> HIDE DEF F, n
<1>3. ASSUME NEW k \in 1 .. n PROVE F[k] \in S /\ Place(S, F[k], R) = k - 1
  <2>1. k - 1 \in 0 .. n - 1 BY <1>2
  <2>2. \E x \in S : Place(S, x, R) = k - 1 BY <2>1, <1>2
  <2> QED BY <2>2, <1>1
<1>4. DOMAIN F = 1 .. n BY <1>1
<1>5. F \in [1 .. n -> S] BY <1>1, <1>3
<1>6. F \in Seq(S) /\ Len(F) = n BY <1>2, <1>5
<1>7. ASSUME NEW x \in S PROVE Place(S, x, R) + 1 \in 1 .. n /\ F[Place(S, x, R) + 1] = x
  <2> DEFINE k == Place(S, x, R) + 1
  <2>1. Place(S, x, R) \in 0 .. n - 1 BY Places DEF n
  <2>2. k \in 1 .. n /\ k - 1 = Place(S, x, R) BY <2>1, <1>2
  <2> HIDE DEF k
  <2>3. F[k] \in S /\ Place(S, F[k], R) = Place(S, x, R) BY <2>2, <1>3
  <2>4. F[k] = x BY <2>3, Places
  <2> QED BY <2>2, <2>4 DEF k
<1> QED BY <1>3, <1>4, <1>6, <1>7 DEF F, n

----------------------------------------------------------------------------
(* Words. *)

\* The pages: three at least below the bit of a node.
LEMMA PagesAre ==
  /\ Page \in Nat \ {0} /\ NodeBit \in Nat /\ NodeBit \div Page \in Nat /\ NodeBit \div Page >= 3
  /\ CtrlPage = NodeBit \div Page - 1 /\ DictPage = NodeBit \div Page - 2
  /\ (CtrlPage + 1) * Page = NodeBit /\ DictPage * Page <= NodeBit /\ (DictPage + 1) * Page <= NodeBit
<1> DEFINE q == NodeBit \div Page
<1>1. Page \in Nat \ {0} /\ NodeBit \in Nat /\ NodeBit % Page = 0 /\ NodeBit >= 3 * Page
  BY WordAssumption
<1>2. q \in Int /\ NodeBit = q * Page + (NodeBit % Page) BY <1>1, DivMod
<1>3. q * Page = NodeBit BY <1>1, <1>2
<1>4. CtrlPage = q - 1 /\ DictPage = q - 2 BY DEF CtrlPage, DictPage
<1> HIDE DEF q
<1>5. q >= 3
  <2> SUFFICES ASSUME q <= 2 PROVE FALSE BY <1>2
  <2>1. q * Page <= 2 * Page BY <1>1, <1>2, TimesMonotone
  <2>2. 2 * Page < 3 * Page BY <1>1
  <2> QED BY <2>1, <2>2, <1>1, <1>3
<1>6. (q - 2) * Page <= q * Page /\ (q - 1) * Page <= q * Page
  <2>1. q - 2 \in Int /\ q - 1 \in Int /\ q - 2 <= q /\ q - 1 <= q /\ Page \in Nat BY <1>1, <1>2
  <2> QED BY <2>1, <1>2, TimesMonotone
<1>7. (q - 1) + 1 = q /\ (q - 2) + 1 = q - 1 BY <1>2
<1> QED BY <1>1, <1>2, <1>3, <1>4, <1>5, <1>6, <1>7 DEF q

\* The word of a symbol stands for that symbol.
LEMMA SymbolIsKept ==
  ASSUME NEW s \in Symbols
  PROVE  /\ Descriptor(s) \in 0 .. NodeBit - 1 /\ Entry(Descriptor(s)) = s
         /\ s.kind \in Kinds /\ s = [kind |-> s.kind, value |-> s.value] /\ s.kind # "NODE"
<1>1. s \in [kind : Kinds, value : Nat]
  <2> DEFINE R == [kind : Kinds, value : Nat]
  <2>1. Order \in Seq(R) BY SymbolAssumption
  <2>2. PICK k \in DOMAIN Order : s = Order[k] BY DEF Symbols
  <2>3. s \in R
    <3> HIDE DEF R
    <3> QED BY <2>1, <2>2
  <2> QED BY <2>3
<1>2. s = [kind |-> s.kind, value |-> s.value] /\ s.kind \in Kinds /\ s.value \in Nat BY <1>1
<1>3. /\ Page \in Nat \ {0} /\ NodeBit \in Nat /\ CtrlPage \in Int /\ DictPage \in Int
      /\ (CtrlPage + 1) * Page = NodeBit /\ DictPage * Page <= NodeBit /\ (DictPage + 1) * Page <= NodeBit
      /\ DictPage < CtrlPage /\ DictPage > 0 /\ CtrlPage > 0
  BY PagesAre
<1>4. \A x \in Int : x = (x \div Page) * Page + (x % Page) /\ x \div Page \in Int /\ x % Page \in 0 .. Page - 1
  BY <1>3, DivMod
<1>5. \A x \in Nat : x < Page => x \div Page = 0
  <2> SUFFICES ASSUME NEW x \in Nat, x < Page PROVE x \div Page = 0 OBVIOUS
  <2>1. x = 0 * Page + x /\ x \in 0 .. Page - 1 BY <1>3
  <2> QED BY <2>1, <1>3, DivModUnique
<1>6. CASE s.kind = "CTRL" /\ s.value \div Page = CtrlPage
  <2>1. s.value < NodeBit
    <3>1. s.value = CtrlPage * Page + (s.value % Page) /\ s.value % Page < Page
      <4>1. PICK x \in Nat : x = s.value BY <1>2
      <4>2. x = (x \div Page) * Page + (x % Page) /\ x \div Page \in Int /\ x % Page \in 0 .. Page - 1 BY <1>4
      <4>3. x \div Page = CtrlPage BY <4>1, <1>6
      <4>4. x % Page < Page BY <4>2, <1>3
      <4> QED BY <4>1, <4>2, <4>3, <4>4
    <3>2. (CtrlPage + 1) * Page = CtrlPage * Page + 1 * Page BY <1>3, Distribute
    <3>3. CtrlPage * Page \in Int BY <1>3, Distribute
    <3>4. 1 * Page = Page BY <1>3
    <3>5. s.value % Page \in Int BY <1>2, <1>4
    <3> QED BY <3>1, <3>2, <3>3, <3>4, <3>5, <1>3
  <2>2. Descriptor(s) = s.value BY <1>6 DEF Descriptor
  <2>3. Entry(s.value) = [kind |-> "CTRL", value |-> s.value]
    <3>1. ~(s.value >= NodeBit) /\ s.value \div Page # DictPage BY <2>1, <1>2, <1>3, <1>6
    <3>2. s.value # 0 BY <1>3, <1>5, <1>6
    <3> QED BY <3>1, <3>2, <1>6 DEF Entry
  <2> QED BY <2>1, <2>2, <2>3, <1>2, <1>3, <1>6
<1>7. CASE s.kind = "DICT" /\ s.value \div Page = DictPage
  <2>1. s.value < NodeBit
    <3>1. s.value = DictPage * Page + (s.value % Page) /\ s.value % Page < Page
      <4>1. PICK x \in Nat : x = s.value BY <1>2
      <4>2. x = (x \div Page) * Page + (x % Page) /\ x \div Page \in Int /\ x % Page \in 0 .. Page - 1 BY <1>4
      <4>3. x \div Page = DictPage BY <4>1, <1>7
      <4>4. x % Page < Page BY <4>2, <1>3
      <4> QED BY <4>1, <4>2, <4>3, <4>4
    <3>2. (DictPage + 1) * Page = DictPage * Page + 1 * Page BY <1>3, Distribute
    <3>3. DictPage * Page \in Int BY <1>3, Distribute
    <3>4. 1 * Page = Page BY <1>3
    <3>5. s.value % Page \in Int BY <1>2, <1>4
    <3> QED BY <3>1, <3>2, <3>3, <3>4, <3>5, <1>3
  <2>2. Descriptor(s) = s.value BY <1>7 DEF Descriptor
  <2>3. Entry(s.value) = [kind |-> "DICT", value |-> s.value]
    <3>1. ~(s.value >= NodeBit) /\ s.value \div Page # CtrlPage BY <2>1, <1>2, <1>3, <1>7
    <3>2. s.value # 0 BY <1>3, <1>5, <1>7
    <3> QED BY <3>1, <3>2, <1>7 DEF Entry
  <2> QED BY <2>1, <2>2, <2>3, <1>2, <1>3, <1>7
<1>8. CASE s.kind = "END" /\ s.value = 0
  <2>1. Descriptor(s) = 0 BY <1>8 DEF Descriptor
  <2>2. 0 \div Page = 0 BY <1>3, <1>5
  <2>3. ~(0 >= NodeBit) BY PagesAre, WordAssumption
  <2>4. Entry(0) = [kind |-> "END", value |-> 0] BY <2>2, <2>3, <1>3 DEF Entry
  <2> QED BY <2>1, <2>3, <2>4, <1>2, <1>3, <1>8
<1>9. CASE s.kind = "SJIS" /\ s.value - NodeBit \in 1 .. DictPage * Page - 1
  <2> DEFINE w == s.value - NodeBit
  <2>1. w \in Nat /\ w >= 1 /\ w < DictPage * Page
    <3>1. DictPage * Page \in Int BY <1>3, Distribute
    <3> QED BY <3>1, <1>9
  <2>2. Descriptor(s) = w BY <1>9 DEF Descriptor
  <2>3. w < NodeBit
    <3>1. DictPage * Page \in Int BY <1>3, Distribute
    <3> HIDE DEF w
    <3> QED BY <3>1, <2>1, <1>3
  <2>4. w \div Page \in 0 .. DictPage - 1
    <3> HIDE DEF w
    <3>1. 0 * Page <= w BY <2>1, <1>3
    <3>2. w \in Int /\ 0 \in Int BY <2>1
    <3> QED BY <3>1, <3>2, <2>1, <1>3, DivBetween
  <2>5. w + NodeBit = s.value BY <1>2, <1>3
  <2> HIDE DEF w
  <2>6. Entry(w) = [kind |-> "SJIS", value |-> w + NodeBit]
    <3>1. ~(w >= NodeBit) /\ w \div Page # CtrlPage /\ w \div Page # DictPage /\ w # 0
      BY <2>1, <2>3, <2>4, <1>3
    <3> QED BY <3>1 DEF Entry
  <2> QED BY <2>1, <2>2, <2>3, <2>5, <2>6, <1>2, <1>3, <1>9
<1>10. \/ s.kind = "CTRL" /\ s.value \div Page = CtrlPage
       \/ s.kind = "DICT" /\ s.value \div Page = DictPage
       \/ s.kind = "END" /\ s.value = 0
       \/ s.kind = "SJIS" /\ s.value - NodeBit \in 1 .. DictPage * Page - 1
  BY SymbolAssumption
<1>11. s.kind # "NODE" BY <1>2 DEF Kinds
<1> QED BY <1>2, <1>6, <1>7, <1>8, <1>9, <1>10, <1>11

\* And so does the word of a node.
LEMMA NodeIsKept ==
  ASSUME NEW v \in Nat
  PROVE  /\ Descriptor(Node(v)) = NodeBit + v /\ Entry(NodeBit + v) = Node(v)
         /\ Node(v).kind = "NODE" /\ Node(v).value = v /\ Node(v) \notin Symbols
<1>1. NodeBit \in Nat BY WordAssumption
<1>2. NodeBit + v >= NodeBit /\ (NodeBit + v) - NodeBit = v BY <1>1
<1>3. Node(v).kind = "NODE" /\ Node(v).value = v BY DEF Node
<1>4. Node(v) \notin Symbols BY <1>3, SymbolIsKept
<1>5. Descriptor(Node(v)) = NodeBit + v BY <1>3 DEF Descriptor
<1>6. Entry(NodeBit + v) = Node(v)
  <2> DEFINE w == NodeBit + v
  <2>1. w >= NodeBit /\ w - NodeBit = v BY <1>2
  <2> HIDE DEF w
  <2>2. w \div Page # CtrlPage /\ w \div Page # DictPage /\ w # 0
    <3> DEFINE d == w \div Page
    <3>1. /\ Page \in Nat \ {0} /\ NodeBit > 0 /\ CtrlPage \in Int /\ DictPage < CtrlPage
          /\ (CtrlPage + 1) * Page = NodeBit
      BY PagesAre, WordAssumption
    <3>2. w \in Nat BY <1>1 DEF w
    <3>3. d \in Int /\ w = d * Page + (w % Page) /\ w % Page \in 0 .. Page - 1 BY <3>1, <3>2, DivMod
    <3> HIDE DEF d
    <3>4. d > CtrlPage
      <4> SUFFICES ASSUME d + 1 <= CtrlPage + 1 PROVE FALSE BY <3>1, <3>3
      <4>1. (d + 1) * Page <= (CtrlPage + 1) * Page BY <3>1, <3>3, TimesMonotone
      <4>2. (d + 1) * Page = d * Page + 1 * Page /\ d * Page \in Int BY <3>1, <3>3, Distribute
      <4>3. 1 * Page = Page BY <3>1
      <4> HIDE DEF w
      <4> QED BY <4>1, <4>2, <4>3, <3>1, <3>2, <3>3, <2>1
    <3> HIDE DEF w
    <3> QED BY <3>1, <3>2, <3>3, <3>4, <2>1, <1>1 DEF d
  <2>3. Entry(w) = Node(v) BY <2>1, <2>2 DEF Entry
  <2> QED BY <2>3 DEF w
<1> QED BY <1>3, <1>4, <1>5, <1>6

\* There are no more symbols than words below the first node.
LEMMA SymbolsAreFew ==
  /\ IsFiniteSet(Symbols) /\ Cardinality(Symbols) \in Nat
  /\ Cardinality(Symbols) <= NodeBit /\ Cardinality(Symbols) <= Len(Order)
  /\ Len(Order) \in Nat
<1> DEFINE f == [s \in Symbols |-> Descriptor(s)]
           T == 0 .. NodeBit - 1
           n == Len(Order)
           g == [k \in 1 .. n |-> Order[k]]
<1>1. Order \in Seq([kind : Kinds, value : Nat]) BY SymbolAssumption
<1>2. n \in Nat /\ DOMAIN Order = 1 .. n BY <1>1
<1>3. NodeBit \in Nat BY WordAssumption
<1>4. f \in [Symbols -> T] BY SymbolIsKept
<1>5. \A x, y \in Symbols : f[x] = f[y] => x = y
  <2> SUFFICES ASSUME NEW x \in Symbols, NEW y \in Symbols, f[x] = f[y] PROVE x = y OBVIOUS
  <2>1. Entry(Descriptor(x)) = x /\ Entry(Descriptor(y)) = y BY SymbolIsKept
  <2> QED BY <2>1
<1> HIDE DEF f
<1>6. IsFiniteSet(T) /\ Cardinality(T) = NodeBit
  <2>1. 0 \in Int /\ NodeBit - 1 \in Int BY <1>3
  <2>2. IsFiniteSet(T) /\ Cardinality(T) = IF 0 > NodeBit - 1 THEN 0 ELSE (NodeBit - 1) - 0 + 1
    BY <2>1, FS_Interval
  <2> HIDE DEF T
  <2> QED BY <2>2, <1>3
<1> HIDE DEF T
<1>7. f \in Injection(Symbols, T) BY <1>4, <1>5 DEF Injection, IsInjective
<1>8. IsFiniteSet(Symbols) /\ Cardinality(Symbols) <= NodeBit BY <1>6, <1>7, FS_Injection
<1>9. g \in Surjection(1 .. n, Symbols)
  <2>1. Symbols = {Order[k] : k \in 1 .. n} BY <1>2 DEF Symbols
  <2> HIDE DEF n
  <2>2. g \in [1 .. n -> Symbols] /\ \A y \in Symbols : \E k \in 1 .. n : g[k] = y BY <2>1
  <2> HIDE DEF g
  <2> QED BY <2>2 DEF Surjection
<1>10. IsFiniteSet(1 .. n) /\ Cardinality(1 .. n) = n
  <2> HIDE DEF n
  <2>1. 1 \in Int /\ n \in Int BY <1>2
  <2>2. IsFiniteSet(1 .. n) /\ Cardinality(1 .. n) = IF 1 > n THEN 0 ELSE n - 1 + 1 BY <2>1, FS_Interval
  <2> QED BY <2>2, <1>2
<1> HIDE DEF g, n
<1>11. Cardinality(Symbols) <= n BY <1>9, <1>10, FS_Surjection
<1>12. Cardinality(Symbols) \in Nat BY <1>8, FS_CardinalityType
<1> QED BY <1>2, <1>8, <1>11, <1>12 DEF n

----------------------------------------------------------------------------
(* Trees. *)

\* What may hang at a node: a symbol, or a node that was made before it.
Hangs(c, n) == c \in Symbols \/ \E v \in 0 .. n - 1 : c = Node(v)

\* An array the engine can walk: nothing is in two slots, every node but the root is in one.
Tree(t) ==
  /\ t.m \in Nat \ {0} /\ t.root = t.m - 1
  /\ DOMAIN t.pairs = 0 .. 2 * t.m /\ t.pairs[2 * t.m] = 0
  /\ \A i \in 0 .. 2 * t.m : t.pairs[i] \in Nat
  /\ \A n \in 0 .. t.m - 1 : \A b \in {0, 1} : Hangs(Child(t, n, b), n)
  /\ \A n, k \in 0 .. t.m - 1 : \A b, d \in {0, 1} : Child(t, n, b) = Child(t, k, d) => n = k /\ b = d
  /\ \A v \in 0 .. t.m - 2 : \E n \in 0 .. t.m - 1 : \E b \in {0, 1} : Child(t, n, b) = Node(v)

\* The same of the nodes as a builder has them.
Kid(c, n, b) == c[n + 1][b + 1]
\* What hangs at a node came before it, and hangs nowhere else.
Woven(c) ==
  /\ Len(c) \in Nat
  /\ \A n \in 0 .. Len(c) - 1 : \A b \in {0, 1} : Hangs(Kid(c, n, b), n)
  /\ \A n, k \in 0 .. Len(c) - 1 : \A b, d \in {0, 1} : Kid(c, n, b) = Kid(c, k, d) => n = k /\ b = d
Proper(c) ==
  /\ Woven(c) /\ Len(c) # 0
  /\ \A v \in 0 .. Len(c) - 2 : \E n \in 0 .. Len(c) - 1 : \E b \in {0, 1} : Kid(c, n, b) = Node(v)

\* An entry gives back what it was made of.
LEMMA HangsIs ==
  ASSUME NEW n \in Nat, NEW c, Hangs(c, n)
  PROVE  Descriptor(c) \in Nat /\ Entry(Descriptor(c)) = c
<1>1. CASE c \in Symbols BY <1>1, SymbolIsKept
<1>2. ASSUME NEW v \in 0 .. n - 1, c = Node(v) PROVE Descriptor(c) \in Nat /\ Entry(Descriptor(c)) = c
  <2>1. v \in Nat OBVIOUS
  <2>2. Descriptor(c) = NodeBit + v /\ Entry(NodeBit + v) = c BY <2>1, <1>2, NodeIsKept
  <2> QED BY <2>1, <2>2, WordAssumption
<1> QED BY <1>1, <1>2 DEF Hangs

\* Nodes that all hang below the last one are laid out as a tree, each with its own children.
LEMMA LaidOut ==
  ASSUME NEW c, Proper(c)
  PROVE  /\ Tree(LayOut(c)) /\ LayOut(c).m = Len(c) /\ LayOut(c) # NoTree
         /\ \A n \in 0 .. Len(c) - 1 : \A b \in {0, 1} : Child(LayOut(c), n, b) = Kid(c, n, b)
<1> DEFINE m == Len(c)
           t == LayOut(c)
           At(i) == c[(i % m) + 1][IF i < m THEN 1 ELSE 2]
<1>1. /\ m \in Nat \ {0}
      /\ \A n \in 0 .. m - 1 : \A b \in {0, 1} : Hangs(Kid(c, n, b), n)
      /\ \A n, k \in 0 .. m - 1 : \A b, d \in {0, 1} : Kid(c, n, b) = Kid(c, k, d) => n = k /\ b = d
      /\ \A v \in 0 .. m - 2 : \E n \in 0 .. m - 1 : \E b \in {0, 1} : Kid(c, n, b) = Node(v)
  BY DEF Proper, Woven
<1>2. t = [m |-> m, root |-> m - 1,
           pairs |-> [i \in 0 .. 2 * m |-> IF i = 2 * m THEN 0 ELSE Descriptor(At(i))]]
  BY DEF LayOut
<1>3. ASSUME NEW n \in 0 .. m - 1, NEW b \in {0, 1}
      PROVE  /\ Slot(t, n, b) \in 0 .. 2 * m - 1 /\ At(Slot(t, n, b)) = Kid(c, n, b)
             /\ t.pairs[Slot(t, n, b)] = Descriptor(Kid(c, n, b))
  <2> HIDE DEF m, t
  <2>1. CASE b = 0
    <3>1. Slot(t, n, b) = n BY <2>1 DEF Slot
    <3>2. n = 0 * m + n /\ n \in Int BY <1>1
    <3>3. n % m = n BY <3>2, <1>1, DivModUnique
    <3>4. n < m /\ n \in 0 .. 2 * m - 1 /\ n # 2 * m /\ n \in 0 .. 2 * m BY <1>1
    <3>5. At(n) = Kid(c, n, b) BY <2>1, <3>3, <3>4 DEF Kid
    <3> HIDE DEF At
    <3> QED BY <3>1, <3>4, <3>5, <1>2
  <2>2. CASE b = 1
    <3> DEFINE i == m + n
    <3>1. Slot(t, n, b) = i BY <2>2, <1>2 DEF Slot
    <3>2. i = 1 * m + n /\ i \in Int BY <1>1
    <3>4. ~(i < m) /\ i \in 0 .. 2 * m - 1 /\ i # 2 * m /\ i \in 0 .. 2 * m BY <1>1
    <3> HIDE DEF i
    <3>3. i % m = n BY <3>2, <1>1, DivModUnique
    <3>5. At(i) = Kid(c, n, b) BY <2>2, <3>3, <3>4 DEF Kid
    <3> HIDE DEF At
    <3> QED BY <3>1, <3>4, <3>5, <1>2
  <2> QED BY <2>1, <2>2
<1> HIDE DEF At
<1>4. t.m = m /\ t.root = m - 1 /\ DOMAIN t.pairs = 0 .. 2 * m /\ t.pairs[2 * m] = 0
  BY <1>1, <1>2
<1>5. ASSUME NEW n \in 0 .. m - 1, NEW b \in {0, 1} PROVE Child(t, n, b) = Kid(c, n, b)
  <2>1. Hangs(Kid(c, n, b), n) /\ n \in Nat BY <1>1
  <2>2. Entry(Descriptor(Kid(c, n, b))) = Kid(c, n, b) BY <2>1, HangsIs
  <2> HIDE DEF m, t
  <2> QED BY <2>2, <1>3 DEF Child
<1>6. ASSUME NEW i \in 0 .. 2 * m PROVE t.pairs[i] \in Nat
  <2> HIDE DEF m, t
  <2>1. CASE i = 2 * m BY <2>1, <1>4
  <2>2. CASE i < m
    <3>1. i \in 0 .. m - 1 /\ Slot(t, i, 0) = i BY <2>2, <1>1 DEF Slot
    <3>2. Hangs(Kid(c, i, 0), i) /\ i \in Nat BY <3>1, <1>1
    <3> QED BY <3>1, <3>2, <1>3, HangsIs
  <2>3. CASE i >= m /\ i # 2 * m
    <3> DEFINE n == i - m
    <3>1. n \in 0 .. m - 1 /\ Slot(t, n, 1) = i BY <2>3, <1>1, <1>4 DEF Slot
    <3> HIDE DEF n
    <3>2. Hangs(Kid(c, n, 1), n) /\ n \in Nat BY <3>1, <1>1
    <3> QED BY <3>1, <3>2, <1>3, HangsIs
  <2> QED BY <2>1, <2>2, <2>3, <1>1
<1>7. t # NoTree
  <2>1. NoTree.m = 0 BY DEF NoTree
  <2> HIDE DEF m, t
  <2> QED BY <2>1, <1>1, <1>4
<1>8. Tree(t)
  <2> HIDE DEF m, t
  <2>1. \A n \in 0 .. m - 1 : \A b \in {0, 1} : Hangs(Child(t, n, b), n) BY <1>1, <1>5
  <2>2. \A n, k \in 0 .. m - 1 : \A b, d \in {0, 1} : Child(t, n, b) = Child(t, k, d) => n = k /\ b = d
    BY <1>1, <1>5
  <2>3. \A v \in 0 .. m - 2 : \E n \in 0 .. m - 1 : \E b \in {0, 1} : Child(t, n, b) = Node(v)
    BY <1>1, <1>5
  <2> QED BY <2>1, <2>2, <2>3, <1>1, <1>4, <1>6 DEF Tree
<1> QED BY <1>4, <1>5, <1>7, <1>8

----------------------------------------------------------------------------
(* The paths from the root. *)

\* The address of a node: the bits from the root to it.
Addresses(t, A) ==
  /\ A \in [0 .. t.m - 1 -> Seq({0, 1})] /\ A[t.m - 1] = <<>>
  /\ \A n, v \in 0 .. t.m - 1 : \A b \in {0, 1} : Child(t, n, b) = Node(v) => A[v] = Append(A[n], b)

\* Different nodes have different names.
LEMMA NodesDiffer == ASSUME NEW v, NEW w, Node(v) = Node(w) PROVE v = w
<1>1. Node(v).value = v /\ Node(w).value = w BY DEF Node
<1> QED BY <1>1

\* A node hangs at a later one, and at no other.
LEMMA ParentIs ==
  ASSUME NEW t, Tree(t)
  PROVE  /\ t.m \in Nat \ {0}
         /\ \A n \in 0 .. t.m - 1 : \A b \in {0, 1} : \A v \in Nat : Child(t, n, b) = Node(v) => v < n
         /\ \A v \in 0 .. t.m - 2 : \E n \in 0 .. t.m - 1 : \E b \in {0, 1} : Child(t, n, b) = Node(v) /\ v < n
         /\ \A n \in 0 .. t.m - 1 : \A b \in {0, 1} :
              Child(t, n, b) \in Symbols \/ \E v \in 0 .. t.m - 2 : v < n /\ Child(t, n, b) = Node(v)
<1>1. t.m \in Nat \ {0} BY DEF Tree
<1>2. ASSUME NEW n \in 0 .. t.m - 1, NEW b \in {0, 1}, NEW v \in Nat, Child(t, n, b) = Node(v) PROVE v < n
  <2>1. Hangs(Child(t, n, b), n) BY DEF Tree
  <2>2. Node(v) \notin Symbols BY NodeIsKept
  <2>3. PICK w \in 0 .. n - 1 : Child(t, n, b) = Node(w) BY <2>1, <2>2, <1>2 DEF Hangs
  <2>4. v = w BY <2>3, <1>2, NodesDiffer
  <2> QED BY <2>3, <2>4, <1>1
<1>3. \A v \in 0 .. t.m - 2 : \E n \in 0 .. t.m - 1 : \E b \in {0, 1} : Child(t, n, b) = Node(v) BY DEF Tree
<1>4. \A v \in 0 .. t.m - 2 : v \in Nat BY <1>1
<1>5. ASSUME NEW n \in 0 .. t.m - 1, NEW b \in {0, 1}
      PROVE  Child(t, n, b) \in Symbols \/ \E v \in 0 .. t.m - 2 : v < n /\ Child(t, n, b) = Node(v)
  <2>1. Hangs(Child(t, n, b), n) BY DEF Tree
  <2>2. \A v \in 0 .. n - 1 : v \in 0 .. t.m - 2 /\ v < n BY <1>1
  <2> QED BY <2>1, <2>2 DEF Hangs
<1> QED BY <1>1, <1>2, <1>3, <1>4, <1>5

\* Every node of a tree has an address: from the root down, each node's parent has one.
LEMMA AddressesExist ==
  ASSUME NEW t, Tree(t)
  PROVE  \E A : Addresses(t, A)
<1> DEFINE m == t.m
           S == Seq({0, 1})
           C(n, b) == Child(t, n, b)
           Upto(A, k) == /\ A \in [0 .. m - 1 -> S] /\ A[m - 1] = <<>>
                         /\ \A n, v \in 0 .. m - 1 : \A b \in {0, 1} :
                              v >= m - 1 - k /\ C(n, b) = Node(v) => A[v] = Append(A[n], b)
           T == {k \in Nat : k < m => \E A : Upto(A, k)}
<1>1. /\ m \in Nat \ {0}
      /\ \A n \in 0 .. m - 1 : \A b \in {0, 1} : \A v \in Nat : C(n, b) = Node(v) => v < n
      /\ \A v \in 0 .. m - 2 : \E n \in 0 .. m - 1 : \E b \in {0, 1} : C(n, b) = Node(v) /\ v < n
      /\ \A n, k \in 0 .. m - 1 : \A b, d \in {0, 1} : C(n, b) = C(k, d) => n = k /\ b = d
  BY ParentIs DEF Tree
<1>2. <<>> \in S OBVIOUS
<1>3. \A s \in S : \A b \in {0, 1} : Append(s, b) \in S OBVIOUS
<1> HIDE DEF m, S, C
<1>4. 0 \in T
  <2> DEFINE A == [n \in 0 .. m - 1 |-> <<>>]
  <2>1. A \in [0 .. m - 1 -> S] /\ A[m - 1] = <<>> BY <1>1, <1>2
  <2>2. \A n, v \in 0 .. m - 1 : \A b \in {0, 1} : ~(v >= m - 1 - 0 /\ C(n, b) = Node(v)) BY <1>1
  <2> HIDE DEF A
  <2>3. Upto(A, 0) BY <2>1, <2>2
  <2> QED BY <2>3
<1>5. ASSUME NEW k \in Nat, k \in T PROVE k + 1 \in T
  <2> SUFFICES ASSUME k + 1 < m PROVE \E A : Upto(A, k + 1) OBVIOUS
  <2>1. PICK A : Upto(A, k) BY <1>1, <1>5
  <2> DEFINE v0 == m - 1 - (k + 1)
  <2>2. v0 \in 0 .. m - 2 /\ v0 \in 0 .. m - 1 /\ v0 # m - 1 BY <1>1
  <2>3. PICK p \in 0 .. m - 1, d \in {0, 1} : C(p, d) = Node(v0) /\ v0 < p BY <1>1, <2>2
  <2> DEFINE B == [n \in 0 .. m - 1 |-> IF n = v0 THEN Append(A[p], d) ELSE A[n]]
  <2>4. B \in [0 .. m - 1 -> S] BY <2>1, <1>3
  <2>5. B[m - 1] = <<>> BY <2>1, <2>2, <1>1
  <2>6. ASSUME NEW n \in 0 .. m - 1, NEW v \in 0 .. m - 1, NEW b \in {0, 1}, v >= v0, C(n, b) = Node(v)
        PROVE  B[v] = Append(B[n], b)
    <3>1. v < n /\ n # v0 BY <1>1, <2>2, <2>6
    <3>2. B[n] = A[n] BY <3>1
    <3>3. CASE v = v0
      <4>1. n = p /\ b = d BY <1>1, <2>3, <2>6, <3>3
      <4>2. B[v] = Append(A[p], d) BY <3>3
      <4> HIDE DEF B
      <4> QED BY <3>2, <4>1, <4>2
    <3>4. CASE v # v0
      <4>1. B[v] = A[v] BY <3>4
      <4>2. v >= m - 1 - k BY <3>4, <2>6, <1>1
      <4>3. A[v] = Append(A[n], b) BY <2>1, <2>6, <4>2
      <4> HIDE DEF B
      <4> QED BY <3>2, <4>1, <4>3
    <3> QED BY <3>3, <3>4
  <2> HIDE DEF B
  <2>7. Upto(B, k + 1) BY <2>4, <2>5, <2>6
  <2> QED BY <2>7
<1> HIDE DEF T
<1>6. Nat \subseteq T BY <1>4, <1>5, Inductive
<1>7. m - 1 \in T /\ m - 1 \in Nat BY <1>1, <1>6
<1>8. PICK A : Upto(A, m - 1) BY <1>1, <1>7 DEF T
<1>9. \A v \in 0 .. m - 1 : v >= m - 1 - (m - 1) BY <1>1
<1>10. A \in [0 .. m - 1 -> S] /\ A[m - 1] = <<>>
       /\ \A n, v \in 0 .. m - 1 : \A b \in {0, 1} : C(n, b) = Node(v) => A[v] = Append(A[n], b)
  BY <1>8, <1>9
<1> QED BY <1>10 DEF Addresses, m, S, C

\* Writing sequences one behind the other does not depend on grouping.
LEMMA Regroup == \A a, b, c \in Seq({0, 1}) : (a \o b) \o c = a \o (b \o c)
BY ConcatAssociative

\* Beginnings of sequences.
LEMMA Beginnings ==
  ASSUME NEW S, NEW s \in Seq(S), NEW j \in 0 .. Len(s)
  PROVE  /\ SubSeq(s, 1, j) \in Seq(S) /\ Len(SubSeq(s, 1, j)) = j
         /\ \A i \in 1 .. j : SubSeq(s, 1, j)[i] = s[i]
         /\ \A e \in S : SubSeq(Append(s, e), 1, j) = SubSeq(s, 1, j)
<1>1. Len(s) \in Nat /\ j \in Nat /\ \A i \in 1 .. j : s[i] \in S BY ElementOfSeq, LenProperties
<1>2. /\ SubSeq(s, 1, j) \in Seq(S) /\ Len(SubSeq(s, 1, j)) = IF 1 <= j THEN j - 1 + 1 ELSE 0
      /\ \A i \in 1 .. j - 1 + 1 : SubSeq(s, 1, j)[i] = s[1 + i - 1]
  BY <1>1, SubSeqProperties
<1>3. Len(SubSeq(s, 1, j)) = j BY <1>1, <1>2
<1>4. ASSUME NEW i \in 1 .. j PROVE SubSeq(s, 1, j)[i] = s[i]
  <2>1. i \in 1 .. j - 1 + 1 /\ 1 + i - 1 = i BY <1>1
  <2> QED BY <2>1, <1>2
<1>5. ASSUME NEW e \in S PROVE SubSeq(Append(s, e), 1, j) = SubSeq(s, 1, j)
  <2> DEFINE u == Append(s, e)
  <2>1. \A i \in 1 .. j : u[i] = s[i] BY <1>1, AppendProperties
  <2> HIDE DEF u
  <2>2. \A i \in 1 .. j : u[i] \in S BY <2>1, <1>1
  <2>3. /\ SubSeq(u, 1, j) \in Seq(S) /\ Len(SubSeq(u, 1, j)) = IF 1 <= j THEN j - 1 + 1 ELSE 0
        /\ \A i \in 1 .. j - 1 + 1 : SubSeq(u, 1, j)[i] = u[1 + i - 1]
    BY <1>1, <2>2, SubSeqProperties
  <2>4. ASSUME NEW i \in 1 .. j PROVE SubSeq(u, 1, j)[i] = SubSeq(s, 1, j)[i]
    <3>1. i \in 1 .. j - 1 + 1 /\ 1 + i - 1 = i BY <1>1
    <3> QED BY <3>1, <2>1, <2>3, <1>4
  <2>5. Len(SubSeq(u, 1, j)) = j BY <1>1, <2>3
  <2> QED BY <2>3, <2>4, <2>5, <1>2, <1>3, SeqEqual DEF u
<1> QED BY <1>2, <1>3, <1>4, <1>5

\* No two nodes have one path, and where a path begins there is a node.
LEMMA AddressesAre ==
  ASSUME NEW t, Tree(t), NEW A, Addresses(t, A)
  PROVE  /\ \A n \in 0 .. t.m - 1 : A[n] \in Seq({0, 1}) /\ Len(A[n]) \in Nat
         /\ \A n, k \in 0 .. t.m - 1 : A[n] = A[k] => n = k
         /\ \A n, v \in 0 .. t.m - 1 : \A b \in {0, 1} : A[v] = Append(A[n], b) => Child(t, n, b) = Node(v)
         /\ \A n \in 0 .. t.m - 1 : \A j \in 0 .. Len(A[n]) : \E k \in 0 .. t.m - 1 : A[k] = SubSeq(A[n], 1, j)
<1> DEFINE m == t.m
           S == Seq({0, 1})
           C(n, b) == Child(t, n, b)
           N == 0 .. m - 1
<1>1. /\ m \in Nat \ {0}
      /\ \A n \in N : \A b \in {0, 1} : \A v \in Nat : C(n, b) = Node(v) => v < n
      /\ \A v \in 0 .. m - 2 : \E n \in N : \E b \in {0, 1} : C(n, b) = Node(v) /\ v < n
      /\ \A n, k \in N : \A b, d \in {0, 1} : C(n, b) = C(k, d) => n = k /\ b = d
  BY ParentIs DEF Tree
<1>2. /\ \A n \in N : A[n] \in S
      /\ A[m - 1] = <<>>
      /\ \A n, v \in N : \A b \in {0, 1} : C(n, b) = Node(v) => A[v] = Append(A[n], b)
  BY DEF Addresses
<1>3. \A n \in N : Len(A[n]) \in Nat BY <1>2, LenProperties
<1>4. \A n \in N : \A b \in {0, 1} : Append(A[n], b) # <<>> BY <1>2, AppendProperties
<1>5. \A n, k \in N : \A b, d \in {0, 1} : Append(A[n], b) = Append(A[k], d) => A[n] = A[k] /\ b = d
  <2> SUFFICES ASSUME NEW n \in N, NEW k \in N, NEW b \in {0, 1}, NEW d \in {0, 1}, Append(A[n], b) = Append(A[k], d)
               PROVE A[n] = A[k] /\ b = d
    OBVIOUS
  <2> DEFINE s == A[n]
             u == A[k]
  <2>1. s \in Seq({0, 1}) /\ u \in Seq({0, 1}) /\ Append(s, b) = Append(u, d) BY <1>2
  <2> HIDE DEF s, u
  <2>2. s = u /\ b = d BY <2>1, AppendInjective
  <2> QED BY <2>2 DEF s, u
<1> HIDE DEF m, S, C
<1>6. ASSUME NEW v \in N, v # m - 1
      PROVE  \E p \in N : \E d \in {0, 1} : C(p, d) = Node(v) /\ v < p /\ A[v] = Append(A[p], d)
  <2>1. v \in 0 .. m - 2 BY <1>1, <1>6
  <2> QED BY <2>1, <1>1, <1>2
<1>7. \A n, k \in N : A[n] = A[k] => n = k
  <2> DEFINE T == {k \in Nat : \A n \in N : n >= m - 1 - k => \A j \in N : A[n] = A[j] => n = j}
  <2>1. 0 \in T
    <3> SUFFICES ASSUME NEW n \in N, n >= m - 1 - 0, NEW j \in N, A[n] = A[j] PROVE n = j OBVIOUS
    <3>1. n = m - 1 BY <1>1
    <3>2. A[j] = <<>> BY <3>1, <1>2
    <3>3. j = m - 1 BY <3>2, <1>4, <1>6
    <3> QED BY <3>1, <3>3
  <2>2. ASSUME NEW k \in Nat, k \in T PROVE k + 1 \in T
    <3> SUFFICES ASSUME NEW n \in N, n >= m - 1 - (k + 1), NEW j \in N, A[n] = A[j] PROVE n = j OBVIOUS
    <3>1. CASE n = m - 1
      <4>1. A[j] = <<>> BY <3>1, <1>2
      <4>2. j = m - 1 BY <4>1, <1>4, <1>6
      <4> QED BY <3>1, <4>2
    <3>2. CASE n # m - 1
      <4>1. PICK p \in N, d \in {0, 1} : C(p, d) = Node(n) /\ n < p /\ A[n] = Append(A[p], d)
        BY <3>2, <1>6
      <4>2. j # m - 1
        <5>1. A[n] # <<>> BY <4>1, <1>4
        <5>2. A[j] # <<>> BY <5>1
        <5> QED BY <5>2, <1>2
      <4>3. PICK q \in N, e \in {0, 1} : C(q, e) = Node(j) /\ A[j] = Append(A[q], e)
        BY <4>2, <1>6
      <4>4. A[p] = A[q] /\ d = e
        <5>1. Append(A[p], d) = Append(A[q], e) BY <4>1, <4>3
        <5> QED BY <5>1, <1>5
      <4>5. p >= m - 1 - k BY <4>1, <1>1
      <4>6. p = q BY <4>4, <4>5, <2>2
      <4>7. Node(n) = Node(j) BY <4>1, <4>3, <4>4, <4>6
      <4> QED BY <4>7, NodesDiffer
    <3> QED BY <3>1, <3>2
  <2> HIDE DEF T
  <2>3. Nat \subseteq T BY <2>1, <2>2, Inductive
  <2>4. m - 1 \in T /\ \A n \in N : n >= m - 1 - (m - 1) BY <2>3, <1>1
  <2> QED BY <2>4 DEF T
<1>8. ASSUME NEW n \in N, NEW v \in N, NEW b \in {0, 1}, A[v] = Append(A[n], b) PROVE C(n, b) = Node(v)
  <2>1. v # m - 1 BY <1>2, <1>4, <1>8
  <2>2. PICK p \in N, d \in {0, 1} : C(p, d) = Node(v) /\ A[v] = Append(A[p], d) BY <2>1, <1>6
  <2>3. A[p] = A[n] /\ d = b BY <2>2, <1>5, <1>8
  <2>4. p = n BY <2>3, <1>7
  <2> QED BY <2>2, <2>3, <2>4
<1>9. \A n \in N : \A j \in 0 .. Len(A[n]) : \E k \in N : A[k] = SubSeq(A[n], 1, j)
  <2> DEFINE T == {k \in Nat : \A n \in N : n >= m - 1 - k =>
                     \A j \in 0 .. Len(A[n]) : \E i \in N : A[i] = SubSeq(A[n], 1, j)}
  <2>1. \A n \in N : SubSeq(A[n], 1, Len(A[n])) = A[n] BY <1>2, SubSeqFull DEF S
  <2>2. 0 \in T
    <3> SUFFICES ASSUME NEW n \in N, n >= m - 1 - 0, NEW j \in 0 .. Len(A[n])
                 PROVE \E i \in N : A[i] = SubSeq(A[n], 1, j)
      OBVIOUS
    <3>1. n = m - 1 /\ Len(A[n]) = 0 BY <1>1, <1>2
    <3>2. j = Len(A[n]) BY <3>1
    <3> QED BY <3>2, <2>1
  <2>3. ASSUME NEW k \in Nat, k \in T PROVE k + 1 \in T
    <3> SUFFICES ASSUME NEW n \in N, n >= m - 1 - (k + 1), NEW j \in 0 .. Len(A[n])
                 PROVE \E i \in N : A[i] = SubSeq(A[n], 1, j)
      OBVIOUS
    <3>1. CASE j = Len(A[n]) BY <3>1, <2>1
    <3>2. CASE n = m - 1 /\ j # Len(A[n])
      <4>1. Len(A[n]) = 0 BY <3>2, <1>2
      <4> QED BY <4>1, <3>2
    <3>3. CASE n # m - 1 /\ j # Len(A[n])
      <4>1. PICK p \in N, d \in {0, 1} : C(p, d) = Node(n) /\ n < p /\ A[n] = Append(A[p], d)
        BY <3>3, <1>6
      <4>2. A[p] \in S /\ Len(A[p]) \in Nat BY <1>2, <1>3
      <4>3. Len(A[n]) = Len(A[p]) + 1 BY <4>1, <4>2, AppendProperties DEF S
      <4>4. j \in 0 .. Len(A[p]) BY <4>2, <4>3, <3>3
      <4>5. SubSeq(A[n], 1, j) = SubSeq(A[p], 1, j) BY <4>1, <4>2, <4>4, Beginnings DEF S
      <4>6. p >= m - 1 - k BY <4>1, <1>1
      <4> QED BY <4>4, <4>5, <4>6, <2>3
    <3> QED BY <3>1, <3>2, <3>3
  <2> HIDE DEF T
  <2>4. Nat \subseteq T BY <2>2, <2>3, Inductive
  <2>5. m - 1 \in T /\ \A n \in N : n >= m - 1 - (m - 1) BY <2>4, <1>1
  <2> QED BY <2>5 DEF T
<1> QED BY <1>2, <1>3, <1>7, <1>8, <1>9 DEF m, S, C

----------------------------------------------------------------------------
(* The codes of a tree. *)

\* What walk finds at one side of a node, given what it finds under the nodes below.
Found(t, f, n, side) ==
  LET c == Child(t, n, side) IN
    IF c.kind = "NODE"
      THEN {[leaf EXCEPT !.code = <<side>> \o @] : leaf \in f[c.value]}
      ELSE {[symbol |-> c, code |-> <<side>>]}

\* The walk, unfolded: what is found at a node is found on either side of it.
LEMMA LeavesAre ==
  ASSUME NEW t, Tree(t)
  PROVE  \E f : /\ Leaves(t) = f[t.m - 1]
                /\ \A n \in 0 .. t.m - 1 : f[n] = UNION {Found(t, f, n, side) : side \in {0, 1}}
<1> DEFINE m == t.m
           G(f, n) == UNION {Found(t, f, n, side) : side \in {0, 1}}
           E(f) == [n \in 0 .. m - 1 |-> G(f, n)]
           T == {k \in Nat : k <= m => \E f : \A n \in 0 .. k - 1 : f[n] = G(f, n)}
<1>1. m \in Nat \ {0} /\ t.root = m - 1 BY DEF Tree
<1>2. ASSUME NEW f, NEW g, NEW n \in 0 .. m - 1, \A v \in 0 .. n - 1 : f[v] = g[v] PROVE G(f, n) = G(g, n)
  <2>1. ASSUME NEW side \in {0, 1} PROVE Found(t, f, n, side) = Found(t, g, n, side)
    <3>1. CASE Child(t, n, side) \in Symbols
      <4>1. Child(t, n, side).kind # "NODE" BY <3>1, SymbolIsKept
      <4> QED BY <4>1 DEF Found
    <3>2. ASSUME NEW v \in 0 .. t.m - 2, v < n, Child(t, n, side) = Node(v)
          PROVE  Found(t, f, n, side) = Found(t, g, n, side)
      <4>1. v \in Nat BY <1>1
      <4>2. Child(t, n, side).value = v BY <3>2, <4>1, NodeIsKept
      <4>3. v \in 0 .. n - 1 BY <3>2, <4>1
      <4>4. f[v] = g[v] BY <4>3, <1>2
      <4> QED BY <4>2, <4>4 DEF Found
    <3> QED BY <3>1, <3>2, ParentIs
  <2> QED BY <2>1
<1> HIDE DEF G, m
<1>3. 0 \in T
  <2>1. \A n \in 0 .. 0 - 1 : FALSE OBVIOUS
  <2> QED BY <2>1
<1>4. ASSUME NEW k \in Nat, k \in T PROVE k + 1 \in T
  <2> SUFFICES ASSUME k + 1 <= m PROVE \E f : \A n \in 0 .. (k + 1) - 1 : f[n] = G(f, n) OBVIOUS
  <2>1. PICK f : \A n \in 0 .. k - 1 : f[n] = G(f, n) BY <1>1, <1>4
  <2> DEFINE g == [n \in 0 .. k |-> IF n = k THEN G(f, k) ELSE f[n]]
  <2>2. \A n \in 0 .. k - 1 : g[n] = f[n] OBVIOUS
  <2>3. g[k] = G(f, k) OBVIOUS
  <2> HIDE DEF g
  <2>4. ASSUME NEW n \in 0 .. (k + 1) - 1 PROVE g[n] = G(g, n)
    <3>1. n \in 0 .. m - 1 /\ \A v \in 0 .. n - 1 : v \in 0 .. k - 1 BY <1>1
    <3>2. G(f, n) = G(g, n) BY <3>1, <2>2, <1>2
    <3>3. CASE n = k BY <3>2, <3>3, <2>3
    <3>4. CASE n # k
      <4>1. n \in 0 .. k - 1 BY <3>4
      <4> QED BY <4>1, <3>2, <2>1, <2>2
    <3> QED BY <3>3, <3>4
  <2> QED BY <2>4
<1> HIDE DEF T
<1>5. m \in T BY <1>1, <1>3, <1>4, Inductive
<1>6. PICK f : \A n \in 0 .. m - 1 : f[n] = G(f, n) BY <1>1, <1>5 DEF T
<1> DEFINE g == [n \in 0 .. m - 1 |-> f[n]]
<1>7. \A n \in 0 .. m - 1 : g[n] = f[n] OBVIOUS
<1>8. \A n \in 0 .. m - 1 : g[n] = G(g, n)
  <2> HIDE DEF g
  <2> TAKE n \in 0 .. m - 1
  <2>1. \A v \in 0 .. n - 1 : v \in 0 .. m - 1 BY <1>1
  <2>2. G(f, n) = G(g, n) BY <2>1, <1>7, <1>2
  <2> QED BY <2>2, <1>6, <1>7
<1>9. g = E(g)
  <2>1. g = [n \in 0 .. m - 1 |-> G(g, n)] BY <1>8
  <2> HIDE DEF g
  <2> QED BY <2>1
<1> DEFINE U == CHOOSE h : h = E(h)
<1>10. U = E(U)
  <2> HIDE DEF g, E
  <2> QED BY <1>9
<1>11. Leaves(t) = U[t.root] BY DEF Leaves, U, G, m, Found
<1> HIDE DEF U
<1>12. \A n \in 0 .. m - 1 : U[n] = G(U, n) BY <1>10
<1>13. Leaves(t) = U[m - 1] BY <1>11, <1>1
<1> QED BY <1>12, <1>13 DEF m, G

\* The code of a symbol is the way to its slot.
LEMMA CodesAre ==
  ASSUME NEW t, Tree(t), NEW A, Addresses(t, A)
  PROVE  /\ \A n \in 0 .. t.m - 1 : \A b \in {0, 1} : Child(t, n, b) \in Symbols =>
              Child(t, n, b) \in DOMAIN Codes(t) /\ Codes(t)[Child(t, n, b)] = Append(A[n], b)
         /\ \A s \in DOMAIN Codes(t) : s \in Symbols /\ \E n \in 0 .. t.m - 1 : \E b \in {0, 1} :
              Child(t, n, b) = s /\ Codes(t)[s] = Append(A[n], b)
<1> DEFINE m == t.m
           N == 0 .. m - 1
           S == Seq({0, 1})
           C(n, b) == Child(t, n, b)
<1>1. /\ m \in Nat \ {0}
      /\ \A n \in N : \A b \in {0, 1} : \A v \in Nat : C(n, b) = Node(v) => v < n
      /\ \A v \in 0 .. m - 2 : \E n \in N : \E b \in {0, 1} : C(n, b) = Node(v) /\ v < n
      /\ \A n \in N : \A b \in {0, 1} : C(n, b) \in Symbols \/ \E v \in 0 .. m - 2 : v < n /\ C(n, b) = Node(v)
      /\ \A n, k \in N : \A b, d \in {0, 1} : C(n, b) = C(k, d) => n = k /\ b = d
  BY ParentIs DEF Tree
<1>2. /\ \A n \in N : A[n] \in S
      /\ A[m - 1] = <<>>
      /\ \A n, v \in N : \A b \in {0, 1} : C(n, b) = Node(v) => A[v] = Append(A[n], b)
  BY DEF Addresses
<1>3. PICK f : /\ Leaves(t) = f[m - 1]
               /\ \A n \in N : f[n] = UNION {Found(t, f, n, side) : side \in {0, 1}}
  BY LeavesAre
<1>4. ASSUME NEW n \in N, NEW b \in {0, 1}, C(n, b) \in Symbols
      PROVE  Found(t, f, n, b) = {[symbol |-> C(n, b), code |-> <<b>>]}
  <2>1. C(n, b).kind # "NODE" BY <1>4, SymbolIsKept
  <2> QED BY <2>1 DEF Found
<1>5. ASSUME NEW n \in N, NEW b \in {0, 1}, NEW v \in 0 .. m - 2, C(n, b) = Node(v)
      PROVE  Found(t, f, n, b) = {[leaf EXCEPT !.code = <<b>> \o @] : leaf \in f[v]}
  <2>1. v \in Nat BY <1>1
  <2>2. C(n, b).kind = "NODE" /\ C(n, b).value = v BY <1>5, <2>1, NodeIsKept
  <2> QED BY <2>2 DEF Found
<1> DEFINE Way(n, leaf) ==
             \E k \in N : \E b \in {0, 1} : \E r \in S :
               C(k, b) \in Symbols /\ leaf = [symbol |-> C(k, b), code |-> r] /\ A[n] \o r = Append(A[k], b)
           P == {k \in Nat : \A n \in N : n < k => \A leaf \in f[n] : Way(n, leaf)}
<1> HIDE DEF m, C, Way
<1>6. 0 \in P BY <1>1
<1>7. ASSUME NEW k \in Nat, k \in P PROVE k + 1 \in P
  <2> SUFFICES ASSUME NEW n \in N, n < k + 1, NEW leaf \in f[n] PROVE Way(n, leaf) OBVIOUS
  <2>1. PICK d \in {0, 1} : leaf \in Found(t, f, n, d) BY <1>3
  <2>2. CASE C(n, d) \in Symbols
    <3>1. leaf = [symbol |-> C(n, d), code |-> <<d>>] BY <2>1, <2>2, <1>4
    <3>2. <<d>> \in S BY DEF S
    <3>3. A[n] \o <<d>> = Append(A[n], d) BY <1>2, AppendIsConcat DEF S
    <3> QED BY <2>2, <3>1, <3>2, <3>3 DEF Way
  <2>3. ASSUME NEW v \in 0 .. m - 2, v < n, C(n, d) = Node(v) PROVE Way(n, leaf)
    <3>1. v \in N /\ v < k BY <1>1, <2>3
    <3>2. PICK l \in f[v] : leaf = [l EXCEPT !.code = <<d>> \o @] BY <2>1, <2>3, <1>5
    <3>3. Way(v, l) BY <3>1, <3>2, <1>7
    <3>4. PICK j \in N, b \in {0, 1}, r \in S :
            C(j, b) \in Symbols /\ l = [symbol |-> C(j, b), code |-> r] /\ A[v] \o r = Append(A[j], b)
      BY <3>3 DEF Way
    <3>5. leaf = [symbol |-> C(j, b), code |-> <<d>> \o r] BY <3>2, <3>4
    <3>6. <<d>> \in S /\ <<d>> \o r \in S BY DEF S
    <3>7. A[v] = Append(A[n], d) BY <2>3, <3>1, <1>2
    <3>8. A[n] \o (<<d>> \o r) = A[v] \o r
      <4>1. A[n] \o <<d>> = Append(A[n], d) BY <1>2, AppendIsConcat DEF S
      <4>2. (A[n] \o <<d>>) \o r = A[n] \o (<<d>> \o r)
        <5> DEFINE a == A[n]
                   q == <<d>>
        <5>1. a \in Seq({0, 1}) /\ q \in Seq({0, 1}) /\ r \in Seq({0, 1}) BY <1>2, <3>6
        <5> HIDE DEF a, q, S
        <5>2. (a \o q) \o r = a \o (q \o r) BY <5>1, Regroup, Zenon
        <5> QED BY <5>2 DEF a, q
      <4> QED BY <3>7, <4>1, <4>2
    <3> HIDE DEF S
    <3> QED BY <3>4, <3>5, <3>6, <3>8 DEF Way
  <2> QED BY <2>2, <2>3, <1>1
<1> HIDE DEF P
<1>8. m \in P BY <1>1, <1>6, <1>7, Inductive
<1>9. m - 1 \in N /\ \A n \in N : n < m BY <1>1
<1>10. ASSUME NEW leaf \in Leaves(t)
       PROVE  \E k \in N : \E b \in {0, 1} : C(k, b) \in Symbols /\ leaf = [symbol |-> C(k, b), code |-> Append(A[k], b)]
  <2>1. Way(m - 1, leaf) BY <1>3, <1>8, <1>9 DEF P
  <2>2. PICK j \in N, b \in {0, 1}, r \in S :
          C(j, b) \in Symbols /\ leaf = [symbol |-> C(j, b), code |-> r] /\ A[m - 1] \o r = Append(A[j], b)
    BY <2>1 DEF Way
  <2>3. <<>> \o r = r BY ConcatEmptySeq DEF S
  <2>4. r = Append(A[j], b) BY <2>2, <2>3, <1>2
  <2> QED BY <2>2, <2>4
<1> DEFINE Q == {k \in Nat : \A n \in N : n >= m - 1 - k => \A leaf \in f[n] : \E l \in Leaves(t) : l.symbol = leaf.symbol}
<1>11. 0 \in Q
  <2>1. \A n \in N : n >= m - 1 - 0 => n = m - 1 BY <1>1
  <2> QED BY <2>1, <1>3
<1>12. ASSUME NEW k \in Nat, k \in Q PROVE k + 1 \in Q
  <2> SUFFICES ASSUME NEW n \in N, n >= m - 1 - (k + 1), NEW leaf \in f[n]
               PROVE \E l \in Leaves(t) : l.symbol = leaf.symbol
    OBVIOUS
  <2>1. CASE n = m - 1 BY <2>1, <1>3
  <2>2. CASE n # m - 1
    <3>1. n \in 0 .. m - 2 BY <2>2, <1>1
    <3>2. PICK p \in N, d \in {0, 1} : C(p, d) = Node(n) /\ n < p BY <3>1, <1>1
    <3> DEFINE l == [leaf EXCEPT !.code = <<d>> \o @]
    <3>3. l \in Found(t, f, p, d)
      <4>1. Found(t, f, p, d) = {[w EXCEPT !.code = <<d>> \o @] : w \in f[n]} BY <3>1, <3>2, <1>5
      <4> QED BY <4>1, Zenon
    <3>4. l \in f[p] BY <3>3, <1>3
    <3>5. p >= m - 1 - k BY <3>2, <1>1
    <3>6. \E w \in Leaves(t) : w.symbol = l.symbol
      <4> HIDE DEF l
      <4> QED BY <3>4, <3>5, <1>12
    <3>7. n < m /\ n \in N BY <1>9
    <3>8. Way(n, leaf) BY <3>7, <1>8 DEF P
    <3>9. leaf.symbol = l.symbol
      <4>1. \E s, r : leaf = [symbol |-> s, code |-> r] BY <3>8 DEF Way
      <4> QED BY <4>1
    <3> QED BY <3>6, <3>9
  <2> QED BY <2>1, <2>2
<1> HIDE DEF Q
<1>13. m - 1 \in Q /\ m - 1 \in Nat BY <1>1, <1>11, <1>12, Inductive
<1>14. \A n \in N : n >= m - 1 - (m - 1) BY <1>1
<1>15. \A n \in N : \A leaf \in f[n] : \E l \in Leaves(t) : l.symbol = leaf.symbol BY <1>13, <1>14 DEF Q
<1> DEFINE K == Codes(t)
<1>16. /\ DOMAIN K = {leaf.symbol : leaf \in Leaves(t)}
       /\ \A s \in DOMAIN K : K[s] = (CHOOSE leaf \in Leaves(t) : leaf.symbol = s).code
  BY DEF Codes
<1> HIDE DEF K
<1>17. ASSUME NEW n \in N, NEW b \in {0, 1}, C(n, b) \in Symbols
       PROVE  C(n, b) \in DOMAIN K /\ K[C(n, b)] = Append(A[n], b)
  <2> DEFINE leaf == [symbol |-> C(n, b), code |-> <<b>>]
  <2>1. leaf \in f[n] BY <1>3, <1>4, <1>17
  <2>2. leaf.symbol = C(n, b) OBVIOUS
  <2> HIDE DEF leaf
  <2>3. PICK l \in Leaves(t) : l.symbol = C(n, b) BY <2>1, <2>2, <1>15
  <2> DEFINE c == CHOOSE x \in Leaves(t) : x.symbol = C(n, b)
  <2>4. c \in Leaves(t) /\ c.symbol = C(n, b) BY <2>3
  <2>5. C(n, b) \in DOMAIN K /\ K[C(n, b)] = c.code BY <2>3, <1>16
  <2> HIDE DEF c
  <2>6. PICK k \in N, d \in {0, 1} : C(k, d) \in Symbols /\ c = [symbol |-> C(k, d), code |-> Append(A[k], d)]
    BY <2>4, <1>10
  <2>7. C(k, d) = C(n, b) /\ c.code = Append(A[k], d) BY <2>4, <2>6
  <2>8. k = n /\ d = b BY <2>7, <1>1
  <2> QED BY <2>5, <2>7, <2>8
<1>18. ASSUME NEW s \in DOMAIN K
       PROVE  s \in Symbols /\ \E n \in N : \E b \in {0, 1} : C(n, b) = s /\ K[s] = Append(A[n], b)
  <2>1. PICK leaf \in Leaves(t) : s = leaf.symbol BY <1>16
  <2>2. PICK k \in N, b \in {0, 1} : C(k, b) \in Symbols /\ leaf = [symbol |-> C(k, b), code |-> Append(A[k], b)]
    BY <1>10
  <2>3. s = C(k, b) BY <2>1, <2>2
  <2> QED BY <2>2, <2>3, <1>17
<1> QED BY <1>17, <1>18 DEF m, C, K

\* The beginning of a beginning is a beginning.
LEMMA BeginningsNest ==
  ASSUME NEW S, NEW s \in Seq(S), NEW j \in 0 .. Len(s), NEW i \in 0 .. j
  PROVE  SubSeq(SubSeq(s, 1, j), 1, i) = SubSeq(s, 1, i)
<1> DEFINE u == SubSeq(s, 1, j)
<1>1. Len(s) \in Nat BY LenProperties
<1>2. u \in Seq(S) /\ Len(u) = j /\ \A k \in 1 .. j : u[k] = s[k] BY Beginnings
<1> HIDE DEF u
<1>3. i \in 0 .. Len(u) /\ i \in 0 .. Len(s) BY <1>1, <1>2
<1>4. SubSeq(u, 1, i) \in Seq(S) /\ Len(SubSeq(u, 1, i)) = i /\ \A k \in 1 .. i : SubSeq(u, 1, i)[k] = u[k]
  BY <1>2, <1>3, Beginnings
<1>5. SubSeq(s, 1, i) \in Seq(S) /\ Len(SubSeq(s, 1, i)) = i /\ \A k \in 1 .. i : SubSeq(s, 1, i)[k] = s[k]
  BY <1>3, Beginnings
<1>6. \A k \in 1 .. i : k \in 1 .. j BY <1>1
<1>7. \A k \in 1 .. i : SubSeq(u, 1, i)[k] = SubSeq(s, 1, i)[k] BY <1>2, <1>4, <1>5, <1>6
<1>8. SubSeq(u, 1, i) = SubSeq(s, 1, i) BY <1>4, <1>5, <1>7, SeqEqual
<1> QED BY <1>8 DEF u

\* One more: what ends a beginning.
LEMMA BeginningGrows ==
  ASSUME NEW S, NEW s \in Seq(S), NEW j \in 0 .. Len(s) - 1
  PROVE  /\ j \in 0 .. Len(s) /\ j + 1 \in 0 .. Len(s) /\ j + 1 \in 1 .. Len(s) /\ s[j + 1] \in S
         /\ SubSeq(s, 1, j + 1) = Append(SubSeq(s, 1, j), s[j + 1])
<1>1. Len(s) \in Nat BY LenProperties
<1>2. j \in 0 .. Len(s) /\ j + 1 \in 0 .. Len(s) /\ j + 1 \in 1 .. Len(s) BY <1>1
<1>3. s[j + 1] \in S BY <1>2, ElementOfSeq
<1> DEFINE e == s[j + 1]
           u == SubSeq(s, 1, j)
           w == SubSeq(s, 1, j + 1)
<1>4. u \in Seq(S) /\ Len(u) = j /\ \A k \in 1 .. j : u[k] = s[k] BY <1>2, Beginnings
<1>5. w \in Seq(S) /\ Len(w) = j + 1 /\ \A k \in 1 .. j + 1 : w[k] = s[k] BY <1>2, Beginnings
<1> HIDE DEF u, w
<1>6. Append(u, e) \in Seq(S) /\ Len(Append(u, e)) = j + 1 /\ (\A k \in 1 .. j : Append(u, e)[k] = u[k])
      /\ Append(u, e)[j + 1] = e
  BY <1>3, <1>4, AppendProperties
<1>7. \A k \in 1 .. j + 1 : k \in 1 .. j \/ k = j + 1 BY <1>1
<1>8. \A k \in 1 .. j + 1 : Append(u, e)[k] = w[k] BY <1>4, <1>5, <1>6, <1>7
<1>9. Append(u, e) = w BY <1>5, <1>6, <1>8, SeqEqual
<1> QED BY <1>2, <1>3, <1>9 DEF u, w

\* Codes are not empty, and there is one below every node.
LEMMA CodesBelow ==
  ASSUME NEW t, Tree(t), NEW A, Addresses(t, A)
  PROVE  /\ \A s \in DOMAIN Codes(t) : Codes(t)[s] \in Seq({0, 1}) /\ Len(Codes(t)[s]) \in Nat \ {0}
         /\ \A n \in 0 .. t.m - 1 : A[n] \in Inner(Codes(t))
<1> DEFINE m == t.m
           N == 0 .. m - 1
           K == Codes(t)
           C(n, b) == Child(t, n, b)
<1>1. /\ m \in Nat \ {0}
      /\ \A n \in N : \A b \in {0, 1} : C(n, b) \in Symbols \/ \E v \in 0 .. m - 2 : v < n /\ C(n, b) = Node(v)
  BY ParentIs
<1>2. /\ \A n \in N : A[n] \in Seq({0, 1})
      /\ \A n, v \in N : \A b \in {0, 1} : C(n, b) = Node(v) => A[v] = Append(A[n], b)
  BY DEF Addresses
<1>3. /\ \A n \in N : \A b \in {0, 1} : C(n, b) \in Symbols => C(n, b) \in DOMAIN K /\ K[C(n, b)] = Append(A[n], b)
      /\ \A s \in DOMAIN K : s \in Symbols /\ \E n \in N : \E b \in {0, 1} : C(n, b) = s /\ K[s] = Append(A[n], b)
  BY CodesAre
<1> DEFINE Inside(w) == \E s \in DOMAIN K : \E j \in 0 .. Len(K[s]) - 1 : w = SubSeq(K[s], 1, j)
<1>4. \A w : w \in Inner(K) <=> Inside(w) BY DEF Inner
<1> HIDE DEF m, K, C, Inside
<1>5. \A n \in N : Len(A[n]) \in Nat BY <1>2, LenProperties
<1>6. \A n \in N : \A b \in {0, 1} : Append(A[n], b) \in Seq({0, 1}) /\ Len(Append(A[n], b)) = Len(A[n]) + 1
        /\ SubSeq(Append(A[n], b), 1, Len(A[n])) = A[n]
  <2> SUFFICES ASSUME NEW n \in N, NEW b \in {0, 1}
               PROVE Append(A[n], b) \in Seq({0, 1}) /\ Len(Append(A[n], b)) = Len(A[n]) + 1
                       /\ SubSeq(Append(A[n], b), 1, Len(A[n])) = A[n]
    OBVIOUS
  <2> DEFINE a == A[n]
  <2>1. a \in Seq({0, 1}) /\ Len(a) \in Nat BY <1>2, <1>5
  <2> HIDE DEF a
  <2>2. Append(a, b) \in Seq({0, 1}) /\ Len(Append(a, b)) = Len(a) + 1 BY <2>1, AppendProperties
  <2>3. Len(a) \in 0 .. Len(a) BY <2>1
  <2>4. SubSeq(Append(a, b), 1, Len(a)) = SubSeq(a, 1, Len(a)) BY <2>1, <2>3, Beginnings
  <2>5. SubSeq(a, 1, Len(a)) = a BY <2>1, SubSeqFull
  <2> QED BY <2>2, <2>4, <2>5 DEF a
<1>7. \A s \in DOMAIN K : K[s] \in Seq({0, 1}) /\ Len(K[s]) \in Nat \ {0}
  <2> SUFFICES ASSUME NEW s \in DOMAIN K PROVE K[s] \in Seq({0, 1}) /\ Len(K[s]) \in Nat \ {0} OBVIOUS
  <2>1. PICK n \in N, b \in {0, 1} : C(n, b) = s /\ K[s] = Append(A[n], b) BY <1>3
  <2> QED BY <2>1, <1>5, <1>6
<1> DEFINE P == {k \in Nat : \A n \in N : n < k => Inside(A[n])}
<1>8. 0 \in P BY <1>1
<1>9. ASSUME NEW k \in Nat, k \in P PROVE k + 1 \in P
  <2> SUFFICES ASSUME NEW n \in N, n < k + 1 PROVE Inside(A[n]) OBVIOUS
  <2>1. CASE C(n, 0) \in Symbols
    <3>1. C(n, 0) \in DOMAIN K /\ K[C(n, 0)] = Append(A[n], 0) BY <2>1, <1>3
    <3>2. Len(A[n]) \in 0 .. Len(K[C(n, 0)]) - 1 BY <3>1, <1>5, <1>6
    <3>3. SubSeq(K[C(n, 0)], 1, Len(A[n])) = A[n] BY <3>1, <1>6
    <3> QED BY <3>1, <3>2, <3>3 DEF Inside
  <2>2. ASSUME NEW v \in 0 .. m - 2, v < n, C(n, 0) = Node(v) PROVE Inside(A[n])
    <3>1. v \in N /\ v < k BY <1>1, <2>2
    <3>2. A[v] = Append(A[n], 0) BY <3>1, <2>2, <1>2
    <3>3. Inside(A[v]) BY <3>1, <1>9
    <3>4. PICK s \in DOMAIN K : \E j \in 0 .. Len(K[s]) - 1 : A[v] = SubSeq(K[s], 1, j) BY <3>3 DEF Inside
    <3> PICK j \in 0 .. Len(K[s]) - 1 : A[v] = SubSeq(K[s], 1, j) BY <3>4
    <3>5. K[s] \in Seq({0, 1}) /\ Len(K[s]) \in Nat /\ j \in 0 .. Len(K[s]) BY <1>7
    <3>6. Len(A[v]) = j BY <3>4, <3>5, Beginnings
    <3>7. Len(A[n]) \in 0 .. j /\ Len(A[n]) \in 0 .. Len(K[s]) - 1 BY <3>2, <3>5, <3>6, <1>5, <1>6
    <3>8. SubSeq(A[v], 1, Len(A[n])) = SubSeq(K[s], 1, Len(A[n])) BY <3>4, <3>5, <3>7, BeginningsNest
    <3>9. SubSeq(A[v], 1, Len(A[n])) = A[n] BY <3>2, <1>6
    <3> QED BY <3>7, <3>8, <3>9 DEF Inside
  <2> QED BY <2>1, <2>2, <1>1
<1> HIDE DEF P
<1>10. m \in P BY <1>1, <1>8, <1>9, Inductive
<1>11. \A n \in N : n < m BY <1>1
<1>12. \A n \in N : Inside(A[n]) BY <1>10, <1>11 DEF P
<1> QED BY <1>4, <1>7, <1>12 DEF m, K

\* u begins w, which is longer.
OnTheWay(u, w) == Len(u) < Len(w) /\ SubSeq(w, 1, Len(u)) = u

\* Reading along a code leads to its symbol, by way of nodes.
LEMMA CodesLead ==
  ASSUME NEW t, Tree(t), NEW A, Addresses(t, A), NEW s \in DOMAIN Codes(t), NEW n \in 0 .. t.m - 1,
         OnTheWay(A[n], Codes(t)[s]), NEW b \in {0, 1}, b = Codes(t)[s][Len(A[n]) + 1]
  PROVE  \/ Child(t, n, b) = s
         \/ \E v \in 0 .. t.m - 1 : Child(t, n, b) = Node(v) /\ OnTheWay(A[v], Codes(t)[s])
<1> DEFINE w == Codes(t)[s]
           a == A[n]
<1>1. PICK k \in 0 .. t.m - 1, d \in {0, 1} : Child(t, k, d) = s /\ w = Append(A[k], d) BY CodesAre
<1>2. w \in Seq({0, 1}) /\ Len(w) \in Nat BY CodesBelow
<1>3. a \in Seq({0, 1}) /\ Len(a) \in Nat /\ A[k] \in Seq({0, 1}) /\ Len(A[k]) \in Nat BY AddressesAre
<1> HIDE DEF w, a
<1>4. Len(a) < Len(w) /\ SubSeq(w, 1, Len(a)) = a /\ b = w[Len(a) + 1] BY DEF w, a, OnTheWay
<1>5. Len(a) \in 0 .. Len(w) - 1 BY <1>2, <1>3, <1>4
<1>6. SubSeq(w, 1, Len(a) + 1) = Append(a, b) BY <1>2, <1>4, <1>5, BeginningGrows
<1>7. Len(w) = Len(A[k]) + 1 BY <1>1, <1>3, AppendProperties
<1>8. CASE Len(a) + 1 = Len(w)
  <2>1. SubSeq(w, 1, Len(w)) = w BY <1>2, SubSeqFull
  <2>2. w = Append(a, b) BY <2>1, <1>6, <1>8
  <2>3. a = A[k] /\ b = d
    <3> DEFINE u == A[k]
    <3>1. u \in Seq({0, 1}) /\ Append(a, b) = Append(u, d) BY <2>2, <1>1, <1>3
    <3> HIDE DEF u
    <3>2. a = u /\ b = d BY <3>1, <1>3, AppendInjective
    <3> QED BY <3>2 DEF u
  <2>4. n = k BY <2>3, AddressesAre DEF a
  <2> QED BY <2>3, <2>4, <1>1
<1>9. CASE Len(a) + 1 # Len(w)
  <2>1. Len(a) + 1 \in 0 .. Len(A[k]) BY <1>2, <1>3, <1>5, <1>7, <1>9
  <2>2. SubSeq(w, 1, Len(a) + 1) = SubSeq(A[k], 1, Len(a) + 1) BY <2>1, <1>1, <1>3, Beginnings
  <2>3. PICK v \in 0 .. t.m - 1 : A[v] = SubSeq(A[k], 1, Len(a) + 1) BY <2>1, AddressesAre
  <2>4. A[v] = Append(a, b) BY <2>2, <2>3, <1>6
  <2>5. Child(t, n, b) = Node(v) BY <2>4, AddressesAre DEF a
  <2>6. Len(A[v]) = Len(a) + 1 BY <2>4, <1>3, AppendProperties
  <2>7. Len(A[v]) < Len(w) BY <2>6, <1>2, <1>3, <1>5, <1>9
  <2>8. SubSeq(w, 1, Len(A[v])) = A[v] BY <2>4, <2>6, <1>6
  <2> QED BY <2>5, <2>7, <2>8 DEF w, OnTheWay
<1> QED BY <1>8, <1>9

----------------------------------------------------------------------------
(* Streams. *)

\* K gives every symbol of w a code.
CodeAt(K, w, k) == K[w[k]]
Coded(K, w) == Len(w) \in Nat /\ \A k \in 1 .. Len(w) : CodeAt(K, w, k) \in Seq({0, 1})

\* The codes of a text one behind the other, unfolded, and how long they are.
LEMMA BitsAre ==
  ASSUME NEW K, NEW w, Coded(K, w)
  PROVE  /\ BitsOf(K, w)[0] = <<>>
         /\ \A k \in 0 .. Len(w) : BitsOf(K, w)[k] \in Seq({0, 1}) /\ Len(BitsOf(K, w)[k]) \in Nat
         /\ \A k \in 1 .. Len(w) :
              /\ BitsOf(K, w)[k] = BitsOf(K, w)[k - 1] \o CodeAt(K, w, k)
              /\ Len(BitsOf(K, w)[k]) = Len(BitsOf(K, w)[k - 1]) + Len(CodeAt(K, w, k))
              /\ Len(CodeAt(K, w, k)) \in Nat
<1> DEFINE n == Len(w)
           B == Seq({0, 1})
           more(k) == IF k \in 1 .. n THEN CodeAt(K, w, k) ELSE <<>>
           step == [p \in Nat \X B |-> p[2] \o more(p[1] + 1)]
           E(f) == [k \in 0 .. n |-> IF k = 0 THEN <<>> ELSE f[k - 1] \o CodeAt(K, w, k)]
           U == CHOOSE f : f = E(f)
<1>1. n \in Nat /\ \A k \in 1 .. n : CodeAt(K, w, k) \in B BY DEF Coded
<1>2. <<>> \in B OBVIOUS
<1>3. \A x, y \in B : x \o y \in B /\ Len(x \o y) = Len(x) + Len(y) /\ Len(x) \in Nat OBVIOUS
<1>4. BitsOf(K, w) = U BY DEF BitsOf, CodeAt
<1> HIDE DEF n, B
<1>5. \A k \in Nat : more(k) \in B BY <1>1, <1>2
<1>6. \A k \in 1 .. n : more(k) = CodeAt(K, w, k) OBVIOUS
<1> HIDE DEF more
<1>7. step \in [Nat \X B -> B]
  <2>1. ASSUME NEW p \in Nat \X B PROVE p[2] \o more(p[1] + 1) \in B
    <3>1. p[1] + 1 \in Nat /\ p[2] \in B OBVIOUS
    <3> QED BY <3>1, <1>3, <1>5
  <2> QED BY <2>1
<1>8. \A k \in Nat : \A x \in B : step[<<k, x>>] = x \o more(k + 1) OBVIOUS
<1> HIDE DEF step
<1>9. PICK h : Iterates(h, B, <<>>, step) BY <1>2, <1>7, Iteration
<1>10. h \in [Nat -> B] /\ h[0] = <<>> /\ \A k \in Nat : h[k + 1] = step[<<k, h[k]>>]
  BY <1>9 DEF Iterates
<1>11. \A k \in Nat : h[k + 1] = h[k] \o more(k + 1) BY <1>8, <1>10
<1> DEFINE f == [k \in 0 .. n |-> h[k]]
<1>12. ASSUME NEW k \in 0 .. n PROVE f[k] = IF k = 0 THEN <<>> ELSE f[k - 1] \o CodeAt(K, w, k)
  <2>1. CASE k = 0 BY <2>1, <1>10
  <2>2. CASE k # 0
    <3>1. k - 1 \in Nat /\ (k - 1) + 1 = k /\ k - 1 \in 0 .. n /\ k \in 1 .. n BY <2>2, <1>1
    <3>2. h[k] = h[k - 1] \o more(k) BY <3>1, <1>11
    <3> QED BY <2>2, <3>1, <3>2, <1>6
  <2> QED BY <2>1, <2>2
<1>13. f = E(f)
  <2>1. f = [k \in 0 .. n |-> f[k]] OBVIOUS
  <2> HIDE DEF f
  <2>2. \A k \in 0 .. n : f[k] = IF k = 0 THEN <<>> ELSE f[k - 1] \o CodeAt(K, w, k) BY <1>12
  <2> QED BY <2>1, <2>2
<1>14. U = E(U)
  <2> HIDE DEF f, E
  <2> QED BY <1>13
<1> HIDE DEF U, f
<1>15. \A k \in 0 .. n : U[k] = IF k = 0 THEN <<>> ELSE U[k - 1] \o CodeAt(K, w, k) BY <1>14
<1>16. U[0] = <<>> BY <1>1, <1>15
<1>17. ASSUME NEW k \in 1 .. n PROVE U[k] = U[k - 1] \o CodeAt(K, w, k)
  <2>1. k \in 0 .. n /\ k # 0 BY <1>1
  <2> QED BY <2>1, <1>15
<1> DEFINE T == {k \in Nat : k <= n => U[k] \in B}
<1>18. 0 \in T BY <1>2, <1>16
<1>19. ASSUME NEW k \in Nat, k \in T PROVE k + 1 \in T
  <2> SUFFICES ASSUME k + 1 <= n PROVE U[k + 1] \in B OBVIOUS
  <2>1. k + 1 \in 1 .. n /\ (k + 1) - 1 = k /\ k <= n BY <1>1
  <2>2. U[k + 1] = U[k] \o CodeAt(K, w, k + 1) BY <2>1, <1>17
  <2> QED BY <2>1, <2>2, <1>1, <1>3, <1>19
<1> HIDE DEF T
<1>20. Nat \subseteq T BY <1>18, <1>19, Inductive
<1>21. \A k \in 0 .. n : U[k] \in B BY <1>1, <1>20 DEF T
<1>22. ASSUME NEW k \in 1 .. n
       PROVE Len(U[k]) = Len(U[k - 1]) + Len(CodeAt(K, w, k)) /\ Len(CodeAt(K, w, k)) \in Nat
  <2>1. k - 1 \in 0 .. n BY <1>1
  <2> QED BY <2>1, <1>1, <1>3, <1>17, <1>21
<1> QED BY <1>3, <1>4, <1>16, <1>17, <1>21, <1>22 DEF n, B

\* Texts that begin alike have bits that begin alike.
LEMMA BitsAgree ==
  ASSUME NEW K, NEW v, NEW w, Coded(K, v), Coded(K, w), NEW i \in Nat, i <= Len(v), i <= Len(w),
         \A k \in 1 .. i : v[k] = w[k]
  PROVE  BitsOf(K, v)[i] = BitsOf(K, w)[i]
<1> DEFINE T == {k \in Nat : k <= i => BitsOf(K, v)[k] = BitsOf(K, w)[k]}
<1>1. 0 \in T BY BitsAre
<1>2. ASSUME NEW k \in Nat, k \in T PROVE k + 1 \in T
  <2> SUFFICES ASSUME k + 1 <= i PROVE BitsOf(K, v)[k + 1] = BitsOf(K, w)[k + 1] OBVIOUS
  <2>1. /\ k + 1 \in 1 .. Len(v) /\ k + 1 \in 1 .. Len(w) /\ k + 1 \in 1 .. i
        /\ (k + 1) - 1 = k /\ k <= i
    BY DEF Coded
  <2>2. BitsOf(K, v)[k + 1] = BitsOf(K, v)[k] \o CodeAt(K, v, k + 1) BY <2>1, BitsAre
  <2>3. BitsOf(K, w)[k + 1] = BitsOf(K, w)[k] \o CodeAt(K, w, k + 1) BY <2>1, BitsAre
  <2>4. CodeAt(K, v, k + 1) = CodeAt(K, w, k + 1) BY <2>1 DEF CodeAt
  <2> QED BY <2>1, <2>2, <2>3, <2>4, <1>2
<1> HIDE DEF T
<1>3. Nat \subseteq T BY <1>1, <1>2, Inductive
<1> QED BY <1>3 DEF T

\* The bits of the first symbols begin those of more.
LEMMA BitsBegin ==
  ASSUME NEW K, NEW w, Coded(K, w), NEW i \in Nat, NEW j \in Nat, i <= j, j <= Len(w)
  PROVE  /\ Len(BitsOf(K, w)[i]) <= Len(BitsOf(K, w)[j])
         /\ SubSeq(BitsOf(K, w)[j], 1, Len(BitsOf(K, w)[i])) = BitsOf(K, w)[i]
<1> DEFINE U(k) == BitsOf(K, w)[k]
           T == {d \in Nat : i + d <= Len(w) => Len(U(i)) <= Len(U(i + d)) /\ SubSeq(U(i + d), 1, Len(U(i))) = U(i)}
<1>1. Len(w) \in Nat /\ \A k \in 0 .. Len(w) : U(k) \in Seq({0, 1}) /\ Len(U(k)) \in Nat BY BitsAre DEF Coded
<1>2. \A k \in 1 .. Len(w) :
        U(k) = U(k - 1) \o CodeAt(K, w, k) /\ CodeAt(K, w, k) \in Seq({0, 1}) /\ Len(CodeAt(K, w, k)) \in Nat
  BY BitsAre DEF Coded
<1> HIDE DEF U
<1>3. 0 \in T
  <2>1. i + 0 = i /\ i \in 0 .. Len(w) BY <1>1
  <2>2. SubSeq(U(i), 1, Len(U(i))) = U(i) /\ Len(U(i)) \in Nat BY <2>1, <1>1, SubSeqFull
  <2> QED BY <2>1, <2>2
<1>4. ASSUME NEW d \in Nat, d \in T PROVE d + 1 \in T
  <2> SUFFICES ASSUME i + (d + 1) <= Len(w)
               PROVE Len(U(i)) <= Len(U(i + (d + 1))) /\ SubSeq(U(i + (d + 1)), 1, Len(U(i))) = U(i)
    OBVIOUS
  <2> DEFINE x == U(i + d)
             y == CodeAt(K, w, i + (d + 1))
             z == U(i)
  <2>1. i + (d + 1) \in 1 .. Len(w) /\ i + (d + 1) - 1 = i + d /\ i + d \in 0 .. Len(w) /\ i \in 0 .. Len(w) BY <1>1
  <2>2. U(i + (d + 1)) = x \o y /\ y \in Seq({0, 1}) /\ Len(y) \in Nat
    <3> DEFINE k == i + (d + 1)
    <3>1. k \in 1 .. Len(w) /\ k - 1 = i + d BY <2>1
    <3> HIDE DEF k
    <3>2. U(k) = U(k - 1) \o CodeAt(K, w, k) /\ CodeAt(K, w, k) \in Seq({0, 1}) /\ Len(CodeAt(K, w, k)) \in Nat
      BY <3>1, <1>2
    <3> QED BY <3>1, <3>2 DEF k
  <2>3. x \in Seq({0, 1}) /\ Len(x) \in Nat /\ z \in Seq({0, 1}) /\ Len(z) \in Nat BY <2>1, <1>1
  <2>4. Len(z) <= Len(x) /\ SubSeq(x, 1, Len(z)) = z BY <2>1, <1>4
  <2> HIDE DEF x, y, z
  <2>5. Len(x \o y) = Len(x) + Len(y) BY <2>2, <2>3, ConcatProperties
  <2>6. SubSeq(x \o y, 1, Len(z)) = SubSeq(x, 1, Len(z))
    <3>1. CASE Len(z) = 0
      <4>1. SubSeq(x \o y, 1, 0) = <<>> /\ SubSeq(x, 1, 0) = <<>> BY SubSeqEmpty
      <4> QED BY <3>1, <4>1
    <3>2. CASE Len(z) # 0
      <4>1. Len(z) \in 1 .. Len(x) /\ 1 \in 1 .. Len(x) BY <3>2, <2>3, <2>4
      <4> QED BY <4>1, <2>2, <2>3, SubSeqOfConcat1
    <3> QED BY <3>1, <3>2
  <2>7. Len(z) <= Len(x \o y) BY <2>2, <2>3, <2>4, <2>5
  <2> QED BY <2>2, <2>4, <2>6, <2>7 DEF z
<1> HIDE DEF T
<1>5. Nat \subseteq T BY <1>3, <1>4, Inductive
<1>6. j - i \in Nat /\ i + (j - i) = j OBVIOUS
<1>7. j - i \in T BY <1>5, <1>6
<1> QED BY <1>6, <1>7 DEF T, U

\* Codes of the same lengths give as many bits.
AsLong(K, L, w) == \A k \in 1 .. Len(w) : Len(CodeAt(K, w, k)) = Len(CodeAt(L, w, k))
AsFar(K, L, w, i) == Len(BitsOf(K, w)[i]) = Len(BitsOf(L, w)[i])

\* Two trees whose codes for a text are as long as each other keep its bits in step.
LEMMA BitsAsLong ==
  ASSUME NEW K, NEW L, NEW w, Coded(K, w), Coded(L, w), AsLong(K, L, w), NEW i \in Nat, i <= Len(w)
  PROVE  AsFar(K, L, w, i)
<1> DEFINE T == {k \in Nat : k <= Len(w) => Len(BitsOf(K, w)[k]) = Len(BitsOf(L, w)[k])}
<1>1. 0 \in T BY BitsAre
<1>2. ASSUME NEW k \in Nat, k \in T PROVE k + 1 \in T
  <2> SUFFICES ASSUME k + 1 <= Len(w) PROVE Len(BitsOf(K, w)[k + 1]) = Len(BitsOf(L, w)[k + 1]) OBVIOUS
  <2>1. k + 1 \in 1 .. Len(w) /\ (k + 1) - 1 = k /\ k <= Len(w) BY DEF Coded
  <2>2. Len(BitsOf(K, w)[k + 1]) = Len(BitsOf(K, w)[k]) + Len(CodeAt(K, w, k + 1)) BY <2>1, BitsAre
  <2>3. Len(BitsOf(L, w)[k + 1]) = Len(BitsOf(L, w)[k]) + Len(CodeAt(L, w, k + 1)) BY <2>1, BitsAre
  <2>4. Len(CodeAt(K, w, k + 1)) = Len(CodeAt(L, w, k + 1)) BY <2>1 DEF AsLong
  <2> QED BY <2>1, <2>2, <2>3, <2>4, <1>2
<1> HIDE DEF T
<1>3. Nat \subseteq T BY <1>1, <1>2, Inductive
<1> QED BY <1>3 DEF T, AsFar

\* K gives each symbol of D a sequence of bits.
Codebook(K, D) == \A s \in D : K[s] \in Seq({0, 1})

\* A text with one symbol more has the bits it had and that symbol's code.
LEMMA BitsGrow ==
  ASSUME NEW D, NEW K, Codebook(K, D), NEW w \in Seq(D), NEW c \in D
  PROVE  /\ Coded(K, w) /\ Append(w, c) \in Seq(D) /\ Coded(K, Append(w, c))
         /\ \A i \in 0 .. Len(w) : BitsOf(K, Append(w, c))[i] = BitsOf(K, w)[i]
         /\ Bits(K, Append(w, c)) = Bits(K, w) \o K[c]
         /\ Bits(K, w) \in Seq({0, 1})
<1> USE DEF Codebook
<1> DEFINE x == Append(w, c)
<1>1. Len(w) \in Nat /\ \A k \in 1 .. Len(w) : w[k] \in D BY LenProperties, ElementOfSeq
<1>2. x \in Seq(D) /\ Len(x) = Len(w) + 1 /\ x[Len(w) + 1] = c /\ \A k \in 1 .. Len(w) : x[k] = w[k]
  BY AppendProperties
<1> HIDE DEF x
<1>3. \A k \in 1 .. Len(x) : x[k] \in D BY <1>2, ElementOfSeq
<1>4. Coded(K, w) BY <1>1 DEF Coded, CodeAt
<1>5. Coded(K, x) BY <1>1, <1>2, <1>3 DEF Coded, CodeAt
<1>6. ASSUME NEW i \in 0 .. Len(w) PROVE BitsOf(K, x)[i] = BitsOf(K, w)[i]
  <2>1. i \in Nat /\ i <= Len(w) /\ i <= Len(x) BY <1>1, <1>2
  <2>2. \A k \in 1 .. i : x[k] = w[k] BY <2>1, <1>1, <1>2
  <2> QED BY <2>1, <2>2, <1>4, <1>5, BitsAgree
<1>7. Bits(K, x) = Bits(K, w) \o K[c]
  <2>1. Len(x) \in 1 .. Len(x) /\ Len(x) - 1 = Len(w) /\ Len(w) \in 0 .. Len(w) BY <1>1, <1>2
  <2>2. BitsOf(K, x)[Len(x)] = BitsOf(K, x)[Len(x) - 1] \o CodeAt(K, x, Len(x)) BY <2>1, <1>5, BitsAre
  <2>3. CodeAt(K, x, Len(x)) = K[c] BY <1>2 DEF CodeAt
  <2>4. BitsOf(K, x)[Len(x) - 1] = BitsOf(K, w)[Len(w)] BY <2>1, <1>6
  <2> QED BY <2>2, <2>3, <2>4 DEF Bits
<1>8. Bits(K, w) \in Seq({0, 1})
  <2>1. Len(w) \in 0 .. Len(w) BY <1>1
  <2> QED BY <2>1, <1>4, BitsAre DEF Bits
<1> QED BY <1>2, <1>4, <1>5, <1>6, <1>7, <1>8 DEF x

\* Sequence operators under names of their own, which the provers do not take apart.
Cat(u, v) == u \o v
Push(u, e) == Append(u, e)

\* A bit behind the second of two sequences is a bit behind both.
LEMMA AppendBehind ==
  \A u, v \in Seq({0, 1}) : \A e \in {0, 1} : Push(Cat(u, v), e) = Cat(u, Push(v, e))
<1> SUFFICES ASSUME NEW u \in Seq({0, 1}), NEW v \in Seq({0, 1}), NEW e \in {0, 1}
             PROVE  Push(Cat(u, v), e) = Cat(u, Push(v, e))
  OBVIOUS
<1>1. u \o v \in Seq({0, 1}) /\ <<e>> \in Seq({0, 1}) BY ConcatProperties
<1>2. Append(u \o v, e) = (u \o v) \o <<e>> BY <1>1, AppendIsConcat
<1>3. Append(v, e) = v \o <<e>> BY AppendIsConcat
<1> DEFINE q == <<e>>
<1>4. q \in Seq({0, 1}) BY <1>1
<1> HIDE DEF q
<1>5. (u \o v) \o q = u \o (v \o q) BY <1>4, Regroup, Zenon
<1>6. Append(u \o v, e) = u \o Append(v, e) BY <1>2, <1>3, <1>5 DEF q
<1> QED BY <1>6 DEF Cat, Push

\* p bits were read: the codes of w, and the way to node n.
Reads(t, A, bits, p, n, w) ==
  /\ n \in 0 .. t.m - 1 /\ w \in Seq(DOMAIN Codes(t)) /\ p \in 0 .. Len(bits)
  /\ SubSeq(bits, 1, p) = Bits(Codes(t), w) \o A[n]

\* The reader before the first bit.
LEMMA ReadsNone ==
  ASSUME NEW t, Tree(t), NEW A, Addresses(t, A), NEW bits \in Seq({0, 1})
  PROVE  Reads(t, A, bits, 0, t.root, <<>>)
<1> DEFINE K == Codes(t)
<1>1. t.m \in Nat \ {0} /\ t.root = t.m - 1 BY DEF Tree
<1>2. <<>> \in Seq(DOMAIN K) /\ Len(<<>>) = 0 BY EmptySeq
<1>3. Coded(K, <<>>) BY <1>2 DEF Coded
<1>4. Bits(K, <<>>) = <<>> BY <1>2, <1>3, BitsAre DEF Bits
<1>5. A[t.root] = <<>> BY <1>1 DEF Addresses
<1>6. SubSeq(bits, 1, 0) = <<>> BY SubSeqEmpty
<1>7. <<>> \o <<>> = <<>> BY EmptySeq, ConcatEmptySeq
<1>8. 0 \in 0 .. Len(bits) /\ t.root \in 0 .. t.m - 1 BY <1>1, LenProperties
<1> QED BY <1>2, <1>4, <1>5, <1>6, <1>7, <1>8 DEF Reads

\* One bit on: the code of a symbol is complete and the walk begins anew, or it is at a later node.
LEMMA ReadsOn ==
  ASSUME NEW t, Tree(t), NEW A, Addresses(t, A), NEW bits \in Seq({0, 1}), NEW p, NEW n, NEW w,
         Reads(t, A, bits, p, n, w), p < Len(bits)
  PROVE  /\ p + 1 \in 1 .. Len(bits) /\ bits[p + 1] \in {0, 1}
         /\ p = Len(Bits(Codes(t), w)) + Len(A[n])
         /\ \/ /\ Child(t, n, bits[p + 1]) \in Symbols
               /\ Child(t, n, bits[p + 1]) \in DOMAIN Codes(t)
               /\ Reads(t, A, bits, p + 1, t.root, Append(w, Child(t, n, bits[p + 1])))
               /\ p + 1 = Len(Bits(Codes(t), Append(w, Child(t, n, bits[p + 1]))))
            \/ \E v \in 0 .. t.m - 2 : Child(t, n, bits[p + 1]) = Node(v) /\ Reads(t, A, bits, p + 1, v, w)
<1> DEFINE K == Codes(t)
           b == bits[p + 1]
           a == A[n]
           u == Bits(K, w)
<1>1. /\ n \in 0 .. t.m - 1 /\ w \in Seq(DOMAIN K) /\ p \in 0 .. Len(bits)
      /\ SubSeq(bits, 1, p) = u \o a
  BY DEF Reads
<1>2. Len(bits) \in Nat /\ p \in 0 .. Len(bits) - 1 BY <1>1, LenProperties
<1>3. p \in 0 .. Len(bits) /\ p + 1 \in 0 .. Len(bits) /\ p + 1 \in 1 .. Len(bits) /\ b \in {0, 1}
      /\ SubSeq(bits, 1, p + 1) = Append(SubSeq(bits, 1, p), b)
  BY <1>2, BeginningGrows
<1>4. \A s \in DOMAIN K : K[s] \in Seq({0, 1}) BY CodesBelow
<1>5. Coded(K, w)
  <2>1. Len(w) \in Nat /\ \A k \in 1 .. Len(w) : w[k] \in DOMAIN K BY <1>1, LenProperties, ElementOfSeq
  <2> QED BY <2>1, <1>4 DEF Coded, CodeAt
<1>6. u \in Seq({0, 1}) /\ Len(u) \in Nat
  <2>1. Len(w) \in 0 .. Len(w) BY <1>5 DEF Coded
  <2> QED BY <2>1, <1>5, BitsAre DEF Bits
<1>7. a \in Seq({0, 1}) /\ Len(a) \in Nat BY <1>1, AddressesAre
<1> HIDE DEF u, a, K
<1>8. p = Len(u) + Len(a)
  <2>1. Len(SubSeq(bits, 1, p)) = p BY <1>3, Beginnings
  <2> QED BY <2>1, <1>1, <1>6, <1>7, ConcatProperties
<1> HIDE DEF b
<1>9. SubSeq(bits, 1, p + 1) = u \o Append(a, b)
  <2> DEFINE x == SubSeq(bits, 1, p)
             y == SubSeq(bits, 1, p + 1)
  <2>1. u \in Seq({0, 1}) /\ a \in Seq({0, 1}) /\ b \in {0, 1} BY <1>3, <1>6, <1>7
  <2>2. x = u \o a /\ y = Append(x, b) BY <1>1, <1>3
  <2> HIDE DEF x, y
  <2>3. x = Cat(u, a) /\ y = Push(x, b) BY <2>2 DEF Cat, Push
  <2>4. Push(Cat(u, a), b) = Cat(u, Push(a, b)) BY <2>1, AppendBehind, Zenon
  <2>5. y = Cat(u, Push(a, b)) BY <2>3, <2>4
  <2> QED BY <2>5 DEF y, Cat, Push
<1>10. t.m \in Nat \ {0} /\ t.root = t.m - 1 BY DEF Tree
<1>11. CASE Child(t, n, b) \in Symbols
  <2> DEFINE c == Child(t, n, b)
  <2>1. c \in DOMAIN K /\ K[c] = Append(a, b)
    <3>1. \A x \in 0 .. t.m - 1 : \A d \in {0, 1} : Child(t, x, d) \in Symbols =>
            Child(t, x, d) \in DOMAIN Codes(t) /\ Codes(t)[Child(t, x, d)] = Append(A[x], d)
      BY CodesAre
    <3>2. c \in DOMAIN Codes(t) /\ Codes(t)[c] = Append(A[n], b) BY <1>1, <1>3, <1>11, <3>1
    <3> QED BY <3>2 DEF K, a
  <2> HIDE DEF c
  <2>2. Append(w, c) \in Seq(DOMAIN K) /\ Bits(K, Append(w, c)) = u \o K[c]
    <3> DEFINE D == DOMAIN K
    <3>1. Codebook(K, D) /\ w \in Seq(D) /\ c \in D BY <2>1, <1>1, <1>4 DEF Codebook
    <3> HIDE DEF D
    <3>2. Append(w, c) \in Seq(D) /\ Bits(K, Append(w, c)) = Bits(K, w) \o K[c] BY <3>1, BitsGrow
    <3> QED BY <3>2 DEF D, u
  <2>3. u \o Append(a, b) \in Seq({0, 1})
    <3>1. Append(a, b) \in Seq({0, 1}) BY <1>3, <1>7, AppendProperties
    <3> QED BY <3>1, <1>6, ConcatProperties
  <2>4. A[t.root] = <<>> BY <1>10 DEF Addresses
  <2>5. SubSeq(bits, 1, p + 1) = Bits(K, Append(w, c)) \o A[t.root]
    <3>1. (u \o Append(a, b)) \o <<>> = u \o Append(a, b) BY <2>3, ConcatEmptySeq
    <3> QED BY <3>1, <2>1, <2>2, <2>4, <1>9
  <2>6. t.root \in 0 .. t.m - 1 BY <1>10
  <2>7. Reads(t, A, bits, p + 1, t.root, Append(w, c)) BY <2>2, <2>5, <2>6, <1>3 DEF Reads, K
  <2>8. Len(Bits(K, Append(w, c))) = p + 1
    <3>1. Len(SubSeq(bits, 1, p + 1)) = p + 1 BY <1>3, Beginnings
    <3> QED BY <3>1, <2>1, <2>2, <1>9
  <2> QED BY <2>1, <2>7, <2>8, <1>3, <1>8, <1>11 DEF K, a, u, b, c
<1>12. ASSUME NEW v \in 0 .. t.m - 2, Child(t, n, b) = Node(v) PROVE Reads(t, A, bits, p + 1, v, w)
  <2>1. v \in 0 .. t.m - 1 BY <1>10
  <2>2. A[v] = Append(a, b) BY <2>1, <1>1, <1>3, <1>12 DEF Addresses, a
  <2> QED BY <2>1, <2>2, <1>1, <1>3, <1>9 DEF Reads, K, u
<1>13. Child(t, n, b) \in Symbols \/ \E v \in 0 .. t.m - 2 : Child(t, n, b) = Node(v)
  BY <1>1, <1>3, ParentIs
<1> QED BY <1>3, <1>8, <1>11, <1>12, <1>13 DEF K, a, u, b

\* The stream is the codes of x and zero fill.
Fits(t, bits, x) ==
  /\ x \in Seq(DOMAIN Codes(t)) /\ Len(Bits(Codes(t), x)) <= Len(bits)
  /\ bits = Packed(Bits(Codes(t), x), Len(bits))

\* What was read is the beginning of x, on the way to its next symbol, or x and zeros.
Follows(t, A, n, w, x) ==
  /\ \A k \in 1 .. Len(w) : k <= Len(x) => w[k] = x[k]
  /\ Len(w) < Len(x) => OnTheWay(A[n], CodeAt(Codes(t), x, Len(w) + 1))
  /\ \A k \in Len(x) + 1 .. Len(w) : \A j \in DOMAIN CodeAt(Codes(t), w, k) : CodeAt(Codes(t), w, k)[j] = 0

\* A text over the symbols of a tree has codes for all of it.
LEMMA TextsAreCoded ==
  ASSUME NEW t, Tree(t), NEW A, Addresses(t, A), NEW x \in Seq(DOMAIN Codes(t))
  PROVE  /\ Len(x) \in Nat /\ Coded(Codes(t), x) /\ Bits(Codes(t), x) \in Seq({0, 1}) /\ Len(Bits(Codes(t), x)) \in Nat
         /\ \A k \in 1 .. Len(x) : /\ x[k] \in DOMAIN Codes(t)
                                   /\ CodeAt(Codes(t), x, k) \in Seq({0, 1})
                                   /\ Len(CodeAt(Codes(t), x, k)) \in Nat \ {0}
<1>1. Len(x) \in Nat /\ \A k \in 1 .. Len(x) : x[k] \in DOMAIN Codes(t) BY LenProperties, ElementOfSeq
<1>2. \A k \in 1 .. Len(x) : CodeAt(Codes(t), x, k) \in Seq({0, 1}) /\ Len(CodeAt(Codes(t), x, k)) \in Nat \ {0}
  BY <1>1, CodesBelow DEF CodeAt
<1>3. Coded(Codes(t), x) BY <1>1, <1>2 DEF Coded
<1>4. Len(x) \in 0 .. Len(x) BY <1>1
<1>5. Bits(Codes(t), x) \in Seq({0, 1}) /\ Len(Bits(Codes(t), x)) \in Nat BY <1>3, <1>4, BitsAre DEF Bits
<1> QED BY <1>1, <1>2, <1>3, <1>5

\* Before the next bit is read, what was read may be any beginning of the text.
LEMMA FollowsFirst ==
  ASSUME NEW t, Tree(t), NEW A, Addresses(t, A), NEW x \in Seq(DOMAIN Codes(t)), NEW w,
         Len(w) \in Nat, \A k \in 1 .. Len(w) : w[k] = x[k], Len(w) <= Len(x)
  PROVE  Follows(t, A, t.root, w, x)
<1>1. A[t.root] = <<>> BY DEF Tree, Addresses
<1>2. Len(A[t.root]) = 0 BY <1>1, EmptySeq
<1>3. Len(x) \in Nat /\ \A k \in 1 .. Len(x) : Len(CodeAt(Codes(t), x, k)) \in Nat \ {0} BY TextsAreCoded
<1>4. ASSUME Len(w) < Len(x)
      PROVE  OnTheWay(A[t.root], CodeAt(Codes(t), x, Len(w) + 1))
  <2> DEFINE y == CodeAt(Codes(t), x, Len(w) + 1)
  <2>1. Len(w) + 1 \in 1 .. Len(x) BY <1>3, <1>4
  <2>2. Len(y) \in Nat \ {0} BY <2>1, <1>3
  <2> HIDE DEF y
  <2>3. SubSeq(y, 1, 0) = <<>> BY SubSeqEmpty
  <2>4. Len(A[t.root]) < Len(y) /\ SubSeq(y, 1, Len(A[t.root])) = A[t.root] BY <2>2, <2>3, <1>1, <1>2
  <2> QED BY <2>4 DEF y, OnTheWay
<1>5. \A k \in Len(x) + 1 .. Len(w) : FALSE BY <1>3
<1> QED BY <1>4, <1>5 DEF Follows

\* A bit further the reader is still on the way to the next symbol of the text, or among the zeros.
LEMMA FollowsOn ==
  ASSUME NEW t, Tree(t), NEW A, Addresses(t, A), NEW bits \in Seq({0, 1}), NEW p, NEW n, NEW w,
         Reads(t, A, bits, p, n, w), p < Len(bits), NEW x, Fits(t, bits, x), Follows(t, A, n, w, x)
  PROVE  /\ Child(t, n, bits[p + 1]) \in Symbols =>
              Follows(t, A, t.root, Append(w, Child(t, n, bits[p + 1])), x)
         /\ \A v \in 0 .. t.m - 2 : Child(t, n, bits[p + 1]) = Node(v) => Follows(t, A, v, w, x)
<1> DEFINE K == Codes(t)
           b == bits[p + 1]
           c == Child(t, n, b)
           i == Len(w)
           U(k) == BitsOf(K, x)[k]
<1>1. n \in 0 .. t.m - 1 /\ w \in Seq(DOMAIN K) /\ p \in 0 .. Len(bits) BY DEF Reads
<1>2. x \in Seq(DOMAIN K) /\ Len(Bits(K, x)) <= Len(bits) /\ bits = Packed(Bits(K, x), Len(bits)) BY DEF Fits
<1>3. i \in Nat /\ Coded(K, w) /\ Len(Bits(K, w)) \in Nat /\ \A k \in 1 .. i : w[k] \in DOMAIN K
  BY <1>1, TextsAreCoded
<1>4. /\ Len(x) \in Nat /\ Coded(K, x) /\ Bits(K, x) \in Seq({0, 1}) /\ Len(Bits(K, x)) \in Nat
      /\ \A k \in 1 .. Len(x) : x[k] \in DOMAIN K /\ CodeAt(K, x, k) \in Seq({0, 1}) /\ Len(CodeAt(K, x, k)) \in Nat \ {0}
  BY <1>2, TextsAreCoded
<1>5. Len(bits) \in Nat /\ p \in Nat BY <1>1, LenProperties
<1>6. \A k \in 1 .. Len(bits) : bits[k] = IF k <= Len(Bits(K, x)) THEN Bits(K, x)[k] ELSE 0
  <2> DEFINE X == Bits(K, x)
             l == Len(bits)
  <2>1. bits = Packed(X, l) BY <1>2
  <2> HIDE DEF X, l
  <2>2. \A k \in 1 .. l : bits[k] = IF k <= Len(X) THEN X[k] ELSE 0 BY <2>1 DEF Packed
  <2> QED BY <2>2 DEF X, l
<1>7. p + 1 \in 1 .. Len(bits) /\ b \in {0, 1} /\ p = Len(Bits(K, w)) + Len(A[n]) BY ReadsOn
<1>8. A[n] \in Seq({0, 1}) /\ Len(A[n]) \in Nat BY <1>1, AddressesAre
<1>9. \A v \in Nat : Node(v) \notin Symbols BY NodeIsKept
<1>10. t.m \in Nat BY DEF Tree
<1>11. CASE i < Len(x)
  <2> DEFINE y == CodeAt(K, x, i + 1)
             a == A[n]
  <2>1. i + 1 \in 1 .. Len(x) /\ (i + 1) - 1 = i /\ i \in 0 .. Len(x) BY <1>3, <1>4, <1>11
  <2>2. y \in Seq({0, 1}) /\ Len(y) \in Nat BY <2>1, <1>4
  <2>3. OnTheWay(a, y) /\ Len(a) < Len(y) /\ \A k \in 1 .. i : w[k] = x[k]
    BY <1>3, <1>4, <1>11 DEF Follows, OnTheWay
  <2>4. BitsOf(K, w)[i] = BitsOf(K, x)[i]
    <3>1. i \in Nat /\ i <= Len(w) /\ i <= Len(x) /\ \A k \in 1 .. i : w[k] = x[k] BY <2>3, <1>3, <1>4, <1>11
    <3> HIDE DEF K, i, y, a
    <3> QED BY <3>1, <1>3, <1>4, BitsAgree
  <2>5. Bits(K, w) = U(i) BY <2>4 DEF Bits
  <2>6. U(i + 1) = U((i + 1) - 1) \o y /\ U(i) \in Seq({0, 1}) /\ Len(U(i)) \in Nat
    <3>1. U(i) \in Seq({0, 1}) /\ Len(U(i)) \in Nat BY <2>1, <1>4, BitsAre
    <3> DEFINE k == i + 1
    <3>2. k \in 1 .. Len(x) BY <2>1
    <3> HIDE DEF k
    <3>3. BitsOf(K, x)[k] = BitsOf(K, x)[k - 1] \o CodeAt(K, x, k) BY <3>2, <1>4, BitsAre
    <3> QED BY <3>1, <3>3 DEF k
  <2> DEFINE z == U(i + 1)
  <2>7. Len(z) <= Len(Bits(K, x)) /\ SubSeq(Bits(K, x), 1, Len(z)) = z
    <3>1. i + 1 \in Nat /\ Len(x) \in Nat /\ i + 1 <= Len(x) /\ Len(x) <= Len(x) BY <2>1, <1>3, <1>4
    <3> HIDE DEF K, i
    <3> QED BY <3>1, <1>4, BitsBegin DEF Bits
  <2>8. z = Cat(U(i), y) BY <2>1, <2>6 DEF Cat
  <2> DEFINE X == Bits(K, x)
             o == U(i)
  <2>9. Len(o) \in Nat /\ o \in Seq({0, 1}) /\ p = Len(o) + Len(a) BY <2>5, <2>6, <1>7
  <2>10. X \in Seq({0, 1}) /\ Len(X) \in Nat /\ Len(a) \in Nat BY <1>4, <1>8
  <2>11. b = y[Len(a) + 1]
    <3> HIDE DEF X, o, z, y, a, U, K, i
    <3>1. Len(z) = Len(o) + Len(y) /\ \A j \in 1 .. Len(o) + Len(y) : z[j] = IF j <= Len(o) THEN o[j] ELSE y[j - Len(o)]
      BY <2>2, <2>8, <2>9, ConcatProperties DEF Cat, o
    <3>2. p + 1 \in 1 .. Len(o) + Len(y) /\ p + 1 > Len(o) /\ (p + 1) - Len(o) = Len(a) + 1
      BY <2>2, <2>3, <2>9, <2>10
    <3>3. z[p + 1] = y[Len(a) + 1] BY <3>1, <3>2
    <3>4. Len(z) \in 0 .. Len(X) /\ p + 1 \in 1 .. Len(z) /\ Len(z) \in Nat BY <3>1, <3>2, <2>2, <2>7, <2>9, <2>10 DEF X
    <3>5. SubSeq(X, 1, Len(z))[p + 1] = X[p + 1] BY <3>4, <2>10, Beginnings
    <3>6. z[p + 1] = X[p + 1] BY <3>5, <2>7 DEF X
    <3>7. p + 1 <= Len(X) BY <3>4, <2>10
    <3>8. bits[p + 1] = X[p + 1] BY <3>7, <1>6, <1>7 DEF X
    <3> QED BY <3>3, <3>6, <3>8
  <2>12. x[i + 1] \in DOMAIN K /\ y = K[x[i + 1]] BY <2>1, <1>4 DEF CodeAt
  <2> DEFINE s == x[i + 1]
  <2>13. c = s \/ \E v \in 0 .. t.m - 1 : c = Node(v) /\ OnTheWay(A[v], y)
    <3>1. s \in DOMAIN K /\ OnTheWay(a, K[s]) /\ b = K[s][Len(a) + 1] /\ y = K[s]
      BY <2>3, <2>11, <2>12
    <3> HIDE DEF s, y, b, i
    <3> QED BY <3>1, <1>1, <1>7, CodesLead
  <2>14. ASSUME c = s PROVE c \in Symbols /\ Follows(t, A, t.root, Append(w, c), x)
    <3>1. s \in DOMAIN K BY <2>12
    <3>2. c \in Symbols BY <3>1, <2>14, CodesAre
    <3> HIDE DEF c
    <3> DEFINE w2 == Append(w, c)
    <3>3. Len(w2) = i + 1 /\ w2[i + 1] = c /\ \A k \in 1 .. i : w2[k] = w[k]
      <4>1. c \in DOMAIN K BY <3>1, <2>14
      <4> QED BY <4>1, <1>1, AppendProperties
    <3> HIDE DEF w2
    <3>4. \A k \in 1 .. Len(w2) : w2[k] = x[k]
      <4>1. \A k \in 1 .. Len(w2) : k \in 1 .. i \/ k = i + 1 BY <3>3, <1>3
      <4> QED BY <4>1, <3>3, <2>3, <2>14
    <3>5. Len(w2) \in Nat /\ Len(w2) <= Len(x) BY <3>3, <2>1, <1>3
    <3>6. Follows(t, A, t.root, w2, x) BY <3>4, <3>5, <1>2, FollowsFirst
    <3> QED BY <3>2, <3>6 DEF w2
  <2>15. ASSUME NEW v \in 0 .. t.m - 1, c = Node(v), OnTheWay(A[v], y)
         PROVE  c \notin Symbols /\ Follows(t, A, v, w, x)
    <3>1. c \notin Symbols BY <2>15, <1>9, <1>10
    <3>2. Follows(t, A, v, w, x) BY <2>15 DEF Follows
    <3> QED BY <3>1, <3>2
  <2>16. \A v, z1 : Node(v) = Node(z1) => v = z1 BY NodesDiffer
  <2>17. \A v \in 0 .. t.m - 2 : v \in 0 .. t.m - 1 /\ v \in Nat BY <1>10
  <2> HIDE DEF y, a, s, c, b, U, K
  <2>18. CASE c = s
    <3>1. \A v \in 0 .. t.m - 2 : c # Node(v) BY <2>14, <2>17, <2>18, <1>9
    <3> QED BY <3>1, <2>14, <2>18 DEF c, b
  <2>19. CASE c # s
    <3>1. PICK v \in 0 .. t.m - 1 : c = Node(v) /\ OnTheWay(A[v], y) BY <2>13, <2>19
    <3>2. c \notin Symbols /\ Follows(t, A, v, w, x) BY <3>1, <2>15
    <3>3. \A z1 \in 0 .. t.m - 2 : c = Node(z1) => z1 = v BY <3>1, <2>16
    <3> QED BY <3>2, <3>3 DEF c, b
  <2> QED BY <2>18, <2>19
<1>12. CASE ~(i < Len(x))
  <2>1. Len(x) <= i /\ ~(i < Len(x)) BY <1>3, <1>4, <1>12
  <2>2. /\ \A k \in 1 .. i : k <= Len(x) => w[k] = x[k]
        /\ \A k \in Len(x) + 1 .. i : \A j \in DOMAIN CodeAt(K, w, k) : CodeAt(K, w, k)[j] = 0
    BY DEF Follows
  <2>3. \A v \in 0 .. t.m - 2 : Follows(t, A, v, w, x) BY <2>1, <2>2 DEF Follows
  <2>4. ASSUME c \in Symbols PROVE Follows(t, A, t.root, Append(w, c), x)
    <3>1. /\ c \in DOMAIN K /\ Reads(t, A, bits, p + 1, t.root, Append(w, c))
          /\ p + 1 = Len(Bits(K, Append(w, c)))
      <4>1. \A v \in 0 .. t.m - 2 : c # Node(v) BY <2>4, <1>9, <1>10
      <4> QED BY <4>1, ReadsOn
    <3> HIDE DEF c, b
    <3> DEFINE w2 == Append(w, c)
               q == K[c]
               o == Bits(K, w)
    <3>2. Len(w2) = i + 1 /\ w2[i + 1] = c /\ \A k \in 1 .. i : w2[k] = w[k] BY <3>1, <1>1, AppendProperties
    <3>3. q \in Seq({0, 1}) /\ Len(q) \in Nat BY <3>1, CodesBelow
    <3>4. Bits(K, w2) = o \o q /\ o \in Seq({0, 1})
      <4>1. \A s \in DOMAIN K : K[s] \in Seq({0, 1}) BY CodesBelow
      <4> DEFINE D == DOMAIN K
      <4>2. Codebook(K, D) /\ w \in Seq(D) /\ c \in D BY <4>1, <3>1, <1>1 DEF Codebook
      <4> HIDE DEF D, K
      <4> QED BY <4>2, BitsGrow
    <3>5. SubSeq(bits, 1, p + 1) = Bits(K, w2)
      <4>1. A[t.root] = <<>> BY DEF Tree, Addresses
      <4> DEFINE B2 == Bits(K, w2)
      <4>2. B2 \in Seq({0, 1})
        <5>1. w2 \in Seq(DOMAIN K) BY <3>1 DEF Reads
        <5> HIDE DEF w2
        <5> QED BY <5>1, TextsAreCoded
      <4>3. SubSeq(bits, 1, p + 1) = B2 \o <<>> BY <4>1, <3>1 DEF Reads
      <4> HIDE DEF B2
      <4>4. B2 \o <<>> = B2 BY <4>2, ConcatEmptySeq
      <4> QED BY <4>3, <4>4 DEF B2
    <3>6. Len(o) \in Nat /\ Len(Bits(K, x)) <= Len(o)
      <4>1. BitsOf(K, w)[Len(x)] = BitsOf(K, x)[Len(x)]
        <5>1. \A k \in 1 .. Len(x) : w[k] = x[k] BY <2>1, <2>2, <1>3, <1>4
        <5> QED BY <5>1, <2>1, <1>3, <1>4, BitsAgree
      <4>2. Len(BitsOf(K, w)[Len(x)]) <= Len(BitsOf(K, w)[Len(w)])
        <5> HIDE DEF K
        <5>1. Len(x) \in Nat /\ Len(w) \in Nat /\ Len(x) <= Len(w) /\ Len(w) <= Len(w) BY <2>1, <1>3, <1>4
        <5> HIDE DEF i
        <5> QED BY <5>1, <1>3, BitsBegin
      <4> QED BY <4>1, <4>2, <1>3 DEF Bits
    <3> HIDE DEF w2, q, o
    <3>7. \A j \in 1 .. Len(q) : q[j] = 0
      <4> SUFFICES ASSUME NEW j \in 1 .. Len(q) PROVE q[j] = 0 OBVIOUS
      <4> DEFINE r == Bits(K, w2)
                 k == Len(o) + j
      <4>1. k \in 1 .. Len(o) + Len(q) /\ k > Len(o) /\ k - Len(o) = j BY <3>3, <3>6
      <4>2. Len(r) = Len(o) + Len(q) /\ r[k] = q[k - Len(o)]
        <5> HIDE DEF k
        <5> QED BY <4>1, <3>3, <3>4, <3>6, ConcatProperties
      <4>3. p + 1 = Len(r) /\ k \in 1 .. p + 1 BY <4>1, <4>2, <3>1, <3>3, <3>6 DEF w2
      <4>4. p + 1 \in 0 .. Len(bits) BY <1>5, <1>7
      <4> HIDE DEF k, r
      <4>5. SubSeq(bits, 1, p + 1)[k] = bits[k] BY <4>3, <4>4, Beginnings
      <4>6. bits[k] = q[j] BY <4>1, <4>2, <4>5, <3>5 DEF r
      <4>7. k \in 1 .. Len(bits) /\ ~(k <= Len(Bits(K, x))) BY <4>1, <4>3, <4>4, <3>3, <3>6, <1>4, <1>5
      <4>8. bits[k] = 0 BY <4>7, <1>6
      <4> QED BY <4>6, <4>8
    <3>8. \A j \in DOMAIN q : q[j] = 0
      <4>1. DOMAIN q = 1 .. Len(q) BY <3>3, LenProperties
      <4> QED BY <4>1, <3>7
    <3>9. ~(Len(w2) < Len(x)) /\ \A k \in 1 .. Len(w2) : k \in 1 .. i \/ (k = i + 1 /\ ~(k <= Len(x)))
      BY <3>2, <2>1, <1>3, <1>4
    <3>10. \A k \in 1 .. Len(w2) : k <= Len(x) => w2[k] = x[k] BY <3>2, <3>9, <2>2
    <3>11. ASSUME NEW k \in Len(x) + 1 .. Len(w2), NEW j \in DOMAIN CodeAt(K, w2, k) PROVE CodeAt(K, w2, k)[j] = 0
      <4>1. CASE k = i + 1
        <5>1. CodeAt(K, w2, k) = q BY <4>1, <3>2 DEF CodeAt, q
        <5> QED BY <5>1, <3>8, <3>11
      <4>2. CASE k # i + 1
        <5>1. k \in Len(x) + 1 .. i /\ k \in 1 .. i BY <4>2, <3>2, <1>3, <1>4
        <5>2. CodeAt(K, w2, k) = CodeAt(K, w, k) BY <5>1, <3>2 DEF CodeAt
        <5> QED BY <5>1, <5>2, <2>2, <3>11
      <4> QED BY <4>1, <4>2
    <3> QED BY <3>9, <3>10, <3>11 DEF Follows, w2
  <2> QED BY <2>3, <2>4
<1> QED BY <1>11, <1>12

\* At the end of the stream, what was read is the text and zero fill.
LEMMA ReadsText ==
  ASSUME NEW t, Tree(t), NEW A, Addresses(t, A), NEW bits \in Seq({0, 1}), NEW n, NEW w,
         Reads(t, A, bits, Len(bits), n, w), NEW x, Fits(t, bits, x), Follows(t, A, n, w, x)
  PROVE  /\ Begins(x, w)
         /\ \A k \in Len(x) + 1 .. Len(w) : \A j \in DOMAIN Codes(t)[w[k]] : Codes(t)[w[k]][j] = 0
<1> DEFINE K == Codes(t)
           i == Len(w)
           U(k) == BitsOf(K, x)[k]
<1>1. n \in 0 .. t.m - 1 /\ w \in Seq(DOMAIN K) /\ SubSeq(bits, 1, Len(bits)) = Bits(K, w) \o A[n] BY DEF Reads
<1>2. x \in Seq(DOMAIN K) /\ Len(Bits(K, x)) <= Len(bits) BY DEF Fits
<1>3. i \in Nat /\ Coded(K, w) /\ Bits(K, w) \in Seq({0, 1}) /\ Len(Bits(K, w)) \in Nat BY <1>1, TextsAreCoded
<1>4. /\ Len(x) \in Nat /\ Coded(K, x) /\ Len(Bits(K, x)) \in Nat
      /\ \A k \in 1 .. Len(x) : CodeAt(K, x, k) \in Seq({0, 1}) /\ Len(CodeAt(K, x, k)) \in Nat \ {0}
  BY <1>2, TextsAreCoded
<1>5. A[n] \in Seq({0, 1}) /\ Len(A[n]) \in Nat BY <1>1, AddressesAre
<1>6. Len(bits) = Len(Bits(K, w)) + Len(A[n]) /\ Len(bits) \in Nat
  <2> DEFINE o == Bits(K, w)
             a == A[n]
  <2>1. SubSeq(bits, 1, Len(bits)) = bits BY SubSeqFull
  <2>2. bits = o \o a /\ o \in Seq({0, 1}) /\ a \in Seq({0, 1}) BY <2>1, <1>1, <1>3, <1>5
  <2> HIDE DEF o, a, K
  <2>3. Len(bits) = Len(o) + Len(a) BY <2>2, ConcatProperties
  <2> QED BY <2>3, LenProperties DEF o, a
<1>7. Len(x) <= i
  <2> SUFFICES ASSUME i < Len(x) PROVE FALSE BY <1>3, <1>4
  <2>1. i + 1 \in 1 .. Len(x) /\ (i + 1) - 1 = i /\ i \in 0 .. Len(x) BY <1>3, <1>4
  <2>2. Len(A[n]) < Len(CodeAt(K, x, i + 1)) /\ \A k \in 1 .. i : w[k] = x[k]
    BY <1>3, <1>4 DEF Follows, OnTheWay
  <2>3. Bits(K, w) = U(i)
    <3>1. i \in Nat /\ i <= Len(w) /\ i <= Len(x) BY <1>3
    <3>2. BitsOf(K, w)[i] = BitsOf(K, x)[i]
      <4> HIDE DEF K, i
      <4> QED BY <3>1, <2>2, <1>3, <1>4, BitsAgree
    <3> QED BY <3>2 DEF Bits
  <2>4. Len(U(i + 1)) = Len(U(i)) + Len(CodeAt(K, x, i + 1)) /\ Len(CodeAt(K, x, i + 1)) \in Nat
    <3> DEFINE k == i + 1
    <3>1. k \in 1 .. Len(x) /\ k - 1 = i BY <2>1
    <3> HIDE DEF k, K, i
    <3>2. Len(BitsOf(K, x)[k]) = Len(BitsOf(K, x)[k - 1]) + Len(CodeAt(K, x, k)) /\ Len(CodeAt(K, x, k)) \in Nat
      BY <3>1, <1>4, BitsAre
    <3> QED BY <3>1, <3>2 DEF k
  <2>5. Len(U(i + 1)) <= Len(Bits(K, x))
    <3>1. i + 1 \in Nat /\ Len(x) \in Nat /\ i + 1 <= Len(x) /\ Len(x) <= Len(x) BY <2>1, <1>3, <1>4
    <3> HIDE DEF K, i
    <3> QED BY <3>1, <1>4, BitsBegin DEF Bits
  <2> DEFINE lw == Len(Bits(K, w))
             lc == Len(CodeAt(K, x, i + 1))
             lx == Len(Bits(K, x))
             la == Len(A[n])
             lb == Len(bits)
             lz == Len(U(i + 1))
  <2>6. lw = Len(U(i)) BY <2>3
  <2>7. lz = lw + lc /\ lc \in Nat BY <2>4, <2>6
  <2>8. la < lc BY <2>2
  <2>9. lz <= lx /\ lx <= lb /\ lb = lw + la BY <2>5, <1>2, <1>6
  <2>10. lw \in Nat /\ lx \in Nat /\ la \in Nat /\ lb \in Nat BY <1>3, <1>4, <1>5, <1>6
  <2> HIDE DEF lw, lc, lx, la, lb, lz
  <2> QED BY <2>7, <2>8, <2>9, <2>10
<1>8. Begins(x, w)
  <2>1. Len(x) \in 0 .. Len(w) BY <1>3, <1>4, <1>7
  <2> DEFINE y == SubSeq(w, 1, Len(x))
  <2>2. y \in Seq(DOMAIN K) /\ Len(y) = Len(x) /\ \A k \in 1 .. Len(x) : y[k] = w[k] BY <2>1, <1>1, Beginnings
  <2> HIDE DEF y
  <2>3. \A k \in 1 .. Len(y) : y[k] = x[k]
    <3>1. \A k \in 1 .. Len(x) : k \in 1 .. Len(w) /\ k <= Len(x) BY <1>3, <1>4, <1>7
    <3>2. \A k \in 1 .. Len(x) : w[k] = x[k] BY <3>1 DEF Follows
    <3> QED BY <3>2, <2>2
  <2>4. y = x BY <2>2, <2>3, <1>2, SeqEqual
  <2> QED BY <2>4, <1>7 DEF Begins, y
<1>9. \A k \in Len(x) + 1 .. i : \A j \in DOMAIN K[w[k]] : K[w[k]][j] = 0 BY DEF Follows, CodeAt
<1> QED BY <1>8, <1>9

\* Any stream is the codes of what was read and the way to where the reader is.
LEMMA ReadsStream ==
  ASSUME NEW t, Tree(t), NEW A, Addresses(t, A), NEW bits \in Seq({0, 1}), NEW n, NEW w,
         Reads(t, A, bits, Len(bits), n, w)
  PROVE  LET b == Bits(Codes(t), w) IN
           /\ Packed(b, Len(bits)) = bits <=> \A k \in Len(b) + 1 .. Len(bits) : bits[k] = 0
           /\ SubSeq(bits, Len(b) + 1, Len(bits)) \in Inner(Codes(t))
           /\ Len(b) <= Len(bits) /\ SubSeq(bits, 1, Len(b)) = b
<1> DEFINE K == Codes(t)
           b == Bits(K, w)
           a == A[n]
           L == Len(bits)
<1>1. n \in 0 .. t.m - 1 /\ w \in Seq(DOMAIN K) /\ SubSeq(bits, 1, Len(bits)) = b \o a BY DEF Reads
<1>2. b \in Seq({0, 1}) /\ Len(b) \in Nat BY <1>1, TextsAreCoded
<1>3. a \in Seq({0, 1}) /\ Len(a) \in Nat /\ a \in Inner(K) BY <1>1, AddressesAre, CodesBelow
<1>4. bits = b \o a
  <2>1. SubSeq(bits, 1, Len(bits)) = bits BY SubSeqFull
  <2> HIDE DEF b, a
  <2> QED BY <2>1, <1>1
<1> HIDE DEF b, a, K
<1>5. L = Len(b) + Len(a) /\ \A k \in 1 .. Len(b) + Len(a) : bits[k] = IF k <= Len(b) THEN b[k] ELSE a[k - Len(b)]
  BY <1>2, <1>3, <1>4, ConcatProperties
<1>6. L \in Nat /\ DOMAIN bits = 1 .. L /\ bits = [k \in 1 .. L |-> bits[k]] BY LenProperties
<1> HIDE DEF L
<1>7. Packed(b, L) = bits <=> \A k \in Len(b) + 1 .. L : bits[k] = 0
  <2>1. Packed(b, L) = [k \in 1 .. L |-> IF k <= Len(b) THEN b[k] ELSE 0] BY DEF Packed
  <2> DEFINE P == Packed(b, L)
  <2>2. DOMAIN P = 1 .. L /\ \A k \in 1 .. L : P[k] = IF k <= Len(b) THEN b[k] ELSE 0 BY <2>1
  <2>3. P = [k \in 1 .. L |-> P[k]] BY <2>1
  <2> HIDE DEF P
  <2>4. \A k \in 1 .. L : k <= Len(b) => bits[k] = b[k] BY <1>5
  <2>5. \A k \in Len(b) + 1 .. L : k \in 1 .. L /\ ~(k <= Len(b)) BY <1>2, <1>6
  <2>6. \A k \in 1 .. L : k <= Len(b) \/ k \in Len(b) + 1 .. L BY <1>2, <1>6
  <2>7. ASSUME P = bits PROVE \A k \in Len(b) + 1 .. L : bits[k] = 0 BY <2>2, <2>5, <2>7
  <2>8. ASSUME \A k \in Len(b) + 1 .. L : bits[k] = 0 PROVE P = bits
    <3>1. \A k \in 1 .. L : P[k] = bits[k] BY <2>2, <2>4, <2>5, <2>6, <2>8
    <3> QED BY <3>1, <2>3, <1>6
  <2> QED BY <2>7, <2>8 DEF P
<1>8. SubSeq(bits, Len(b) + 1, L) = a
  <2> DEFINE y == SubSeq(bits, Len(b) + 1, L)
             lo == Len(b) + 1
  <2>1. lo \in Int /\ L \in Int /\ \A k \in lo .. L : k \in 1 .. L BY <1>2, <1>6
  <2>2. \A k \in lo .. L : bits[k] \in {0, 1} BY <2>1, <1>6, ElementOfSeq DEF L
  <2>3. y \in Seq({0, 1}) /\ Len(y) = (IF lo <= L THEN L - lo + 1 ELSE 0) /\ \A k \in 1 .. L - lo + 1 : y[k] = bits[lo + k - 1]
    <3> HIDE DEF lo
    <3> QED BY <2>1, <2>2, SubSeqProperties DEF lo
  <2> HIDE DEF y
  <2>4. L - lo + 1 = Len(a) /\ Len(y) = Len(a) BY <2>3, <1>2, <1>3, <1>5
  <2>5. ASSUME NEW k \in 1 .. Len(y) PROVE y[k] = a[k]
    <3> DEFINE j == Len(b) + k
    <3>1. j \in 1 .. Len(b) + Len(a) /\ ~(j <= Len(b)) /\ j - Len(b) = k /\ lo + k - 1 = j BY <2>4, <1>2, <1>3
    <3>2. y[k] = bits[j] BY <3>1, <2>3, <2>4
    <3> HIDE DEF j
    <3> QED BY <3>1, <3>2, <1>5
  <2>6. y = a BY <2>3, <2>4, <2>5, <1>3, SeqEqual
  <2> QED BY <2>6 DEF y
<1>9. Len(b) <= L /\ SubSeq(bits, 1, Len(b)) = b
  <2>1. Len(b) \in 0 .. L BY <1>2, <1>3, <1>5
  <2> DEFINE y == SubSeq(bits, 1, Len(b))
  <2>2. y \in Seq({0, 1}) /\ Len(y) = Len(b) /\ \A k \in 1 .. Len(b) : y[k] = bits[k] BY <2>1, Beginnings DEF L
  <2> HIDE DEF y
  <2>3. \A k \in 1 .. Len(y) : k \in 1 .. Len(b) + Len(a) /\ k <= Len(b) BY <2>2, <1>2, <1>3
  <2>4. \A k \in 1 .. Len(y) : y[k] = b[k] BY <2>2, <2>3, <1>5
  <2>5. y = b BY <2>2, <2>4, <1>2, SeqEqual
  <2> QED BY <2>1, <2>5 DEF y
<1> QED BY <1>3, <1>7, <1>8, <1>9 DEF b, a, K, L

\* The bits of a text are those of its beginning and those of the rest.
Piece(v, w, i, j) == Len(v) = j - i /\ \A k \in 1 .. j - i : v[k] = w[i + k]
Splits(K, w, i, j, v) ==
  /\ BitsOf(K, w)[j] = BitsOf(K, w)[i] \o Bits(K, v)
  /\ BitsOf(K, w)[i] \in Seq({0, 1}) /\ Bits(K, v) \in Seq({0, 1})

\* A text is cut between two symbols, and its bits with it.
LEMMA BitsSplit ==
  ASSUME NEW K, NEW w, Coded(K, w), NEW i \in Nat, NEW j \in Nat, i <= j, j <= Len(w),
         NEW v, Piece(v, w, i, j)
  PROVE  Splits(K, w, i, j, v)
<1> DEFINE U(k) == BitsOf(K, w)[k]
           V(k) == BitsOf(K, v)[k]
           T == {d \in Nat : d <= j - i => U(i + d) = Cat(U(i), V(d))}
<1>1. Len(w) \in Nat /\ j - i \in Nat /\ \A k \in 1 .. Len(w) : CodeAt(K, w, k) \in Seq({0, 1}) BY DEF Coded
<1>0. Len(v) = j - i /\ \A k \in 1 .. j - i : v[k] = w[i + k] BY DEF Piece
<1>2. \A k \in 1 .. j - i : i + k \in 1 .. Len(w) /\ CodeAt(K, v, k) = CodeAt(K, w, i + k)
  BY <1>0, <1>1 DEF CodeAt
<1>3. Coded(K, v) BY <1>0, <1>1, <1>2 DEF Coded
<1>4. U(i) \in Seq({0, 1}) /\ \A k \in 0 .. j - i : V(k) \in Seq({0, 1})
  <2>1. i \in 0 .. Len(w) /\ Len(v) = j - i BY <1>0, <1>1
  <2> QED BY <2>1, <1>3, BitsAre
<1>5. 0 \in T
  <2>1. i + 0 = i OBVIOUS
  <2>2. V(0) = <<>> BY <1>3, BitsAre
  <2> DEFINE u == U(i)
  <2>3. u \in Seq({0, 1}) BY <1>4
  <2> HIDE DEF u
  <2>4. Cat(u, <<>>) = u BY <2>3, ConcatEmptySeq DEF Cat
  <2>5. U(i) = Cat(U(i), V(0)) BY <2>2, <2>4 DEF u
  <2> HIDE DEF U, V
  <2> QED BY <2>1, <2>5
<1>6. ASSUME NEW d \in Nat, d \in T PROVE d + 1 \in T
  <2> SUFFICES ASSUME d + 1 <= j - i PROVE U(i + (d + 1)) = Cat(U(i), V(d + 1)) OBVIOUS
  <2> DEFINE k == i + (d + 1)
             e == d + 1
             c == CodeAt(K, w, k)
             x == U(i)
             y == V(d)
  <2>1. k \in 1 .. Len(w) /\ k - 1 = i + d /\ e \in 1 .. j - i /\ e - 1 = d /\ d <= j - i /\ d \in 0 .. j - i BY <1>1
  <2>2. CodeAt(K, v, e) = c /\ c \in Seq({0, 1}) BY <2>1, <1>1, <1>2
  <2>3. U(i + d) = Cat(x, y) BY <2>1, <1>6
  <2>4. x \in Seq({0, 1}) /\ y \in Seq({0, 1}) BY <2>1, <1>4
  <2>5. U(k) = Cat(U(i + d), c)
    <3> HIDE DEF k
    <3>1. BitsOf(K, w)[k] = BitsOf(K, w)[k - 1] \o CodeAt(K, w, k) BY <2>1, BitsAre
    <3>2. BitsOf(K, w)[k - 1] = BitsOf(K, w)[i + d] BY <2>1
    <3> QED BY <3>1, <3>2 DEF Cat
  <2>6. V(e) = Cat(y, c)
    <3> HIDE DEF e, c
    <3>0. e \in 1 .. Len(v) BY <1>0, <2>1
    <3>1. BitsOf(K, v)[e] = BitsOf(K, v)[e - 1] \o CodeAt(K, v, e) BY <3>0, <1>3, BitsAre
    <3>2. BitsOf(K, v)[e - 1] = BitsOf(K, v)[d] BY <2>1
    <3> QED BY <3>1, <3>2, <2>2 DEF Cat
  <2> HIDE DEF U, V, c, k, e, x, y
  <2>7. Cat(Cat(x, y), c) = Cat(x, Cat(y, c)) BY <2>2, <2>4, Regroup, Zenon DEF Cat
  <2> QED BY <2>3, <2>5, <2>6, <2>7 DEF k, e, x
<1> HIDE DEF T
<1>7. j - i \in T BY <1>1, <1>5, <1>6, Inductive
<1>8. U(i + (j - i)) = Cat(U(i), V(j - i)) BY <1>1, <1>7 DEF T
<1>9. i + (j - i) = j OBVIOUS
<1>10. U(j) = Cat(U(i), V(j - i))
  <2> HIDE DEF U, V
  <2> QED BY <1>8, <1>9
<1>11. j - i \in 0 .. j - i BY <1>1
<1> QED BY <1>0, <1>3, <1>4, <1>10, <1>11 DEF Bits, Cat, Splits

----------------------------------------------------------------------------
(* Where strings start. *)

EndsOf(w) == {k \in 1 .. Len(w) : w[k].kind = "END"}
Upto(S, e) == Cardinality({d \in S : d <= e})

\* The members of a set of naturals up to each of them.
LEMMA Ranks ==
  ASSUME NEW S, S \subseteq Nat, IsFiniteSet(S)
  PROVE  /\ Cardinality(S) \in Nat
         /\ \A e \in S : Upto(S, e) \in 1 .. Cardinality(S)
         /\ \A k \in 1 .. Cardinality(S) : \E e \in S : Upto(S, e) = k
<1> DEFINE R == {p \in S \X S : p[1] < p[2]}
           n == Cardinality(S)
<1>1. StrictOrder(S, R)
  <2>1. \A x, y \in S : <<x, y>> \in R <=> x < y OBVIOUS
  <2>2. \A x, y, z \in S : x < y /\ y < z => x < z OBVIOUS
  <2>3. \A x, y \in S : x # y => x < y \/ y < x OBVIOUS
  <2>4. \A x \in S : ~(x < x) OBVIOUS
  <2> HIDE DEF R
  <2> QED BY <2>1, <2>2, <2>3, <2>4 DEF StrictOrder
<1>2. /\ n \in Nat
      /\ \A x \in S : Place(S, x, R) \in 0 .. n - 1
      /\ \A k \in 0 .. n - 1 : \E x \in S : Place(S, x, R) = k
  <2> HIDE DEF R
  <2> QED BY <1>1, Places
<1>3. ASSUME NEW e \in S PROVE Upto(S, e) = Place(S, e, R) + 1
  <2> DEFINE B == {d \in S : <<d, e>> \in R}
             C == {d \in S : d <= e}
  <2>0. \A d \in S : <<d, e>> \in R <=> d < e OBVIOUS
  <2>1. C = B \cup {e} /\ e \notin B
    <3>1. \A d \in S : d <= e <=> (d < e \/ d = e) OBVIOUS
    <3>2. ~(e < e) OBVIOUS
    <3> HIDE DEF R
    <3> QED BY <2>0, <3>1, <3>2, Zenon
  <2>2. IsFiniteSet(B) BY FS_Subset
  <2>3. Place(S, e, R) = Cardinality(B) /\ Upto(S, e) = Cardinality(C) BY DEF Place, Upto
  <2> HIDE DEF B, C, R
  <2>4. Cardinality(C) = Cardinality(B) + 1 BY <2>1, <2>2, FS_AddElement
  <2> QED BY <2>3, <2>4
<1> HIDE DEF R, n
<1>4. \A e \in S : Upto(S, e) \in 1 .. n
  <2> SUFFICES ASSUME NEW e \in S PROVE Upto(S, e) \in 1 .. n OBVIOUS
  <2> QED BY <1>2, <1>3
<1>5. ASSUME NEW k \in 1 .. n PROVE \E e \in S : Upto(S, e) = k
  <2>1. k - 1 \in 0 .. n - 1 /\ (k - 1) + 1 = k BY <1>2
  <2>2. PICK x \in S : Place(S, x, R) = k - 1 BY <2>1, <1>2
  <2> QED BY <2>1, <2>2, <1>3
<1> QED BY <1>2, <1>4, <1>5 DEF n

\* starts of the strings of w: 0, and the bits of w up to each END.
Started(K, w, st) ==
  /\ st \in Seq(Nat) /\ Len(st) = Cardinality(EndsOf(w)) + 1 /\ st[1] = 0
  /\ \A e \in EndsOf(w) : st[Upto(EndsOf(w), e) + 1] = Len(BitsOf(K, w)[e])

\* The ENDs of a text are places in it.
LEMMA EndsAre ==
  ASSUME NEW w, Len(w) \in Nat
  PROVE  EndsOf(w) \subseteq Nat /\ IsFiniteSet(EndsOf(w)) /\ EndsOf(w) \subseteq 1 .. Len(w)
<1>1. EndsOf(w) \subseteq 1 .. Len(w) BY DEF EndsOf
<1>2. 1 \in Int /\ Len(w) \in Int /\ 1 .. Len(w) \subseteq Nat OBVIOUS
<1>3. IsFiniteSet(1 .. Len(w)) BY <1>2, FS_Interval
<1> QED BY <1>1, <1>2, <1>3, FS_Subset

\* Before anything is read there is one string start, zero.
LEMMA StartedFirst == ASSUME NEW K PROVE Started(K, <<>>, <<0>>)
<1>1. EndsOf(<<>>) = {} /\ Cardinality({}) = 0 BY EmptySeq, FS_EmptySet DEF EndsOf
<1>2. <<0>> \in Seq(Nat) /\ Len(<<0>>) = 1 /\ <<0>>[1] = 0 OBVIOUS
<1> DEFINE st == <<0>>
<1> HIDE DEF st
<1>3. st \in Seq(Nat) /\ Len(st) = Cardinality(EndsOf(<<>>)) + 1 /\ st[1] = 0
  <2>1. st \in Seq(Nat) /\ Len(st) = 1 /\ st[1] = 0 BY <1>2 DEF st
  <2>2. Cardinality(EndsOf(<<>>)) + 1 = 1
    <3> DEFINE E == EndsOf(<<>>)
    <3>1. Cardinality(E) = 0 BY <1>1
    <3> HIDE DEF E
    <3>2. Cardinality(E) + 1 = 1 BY <3>1
    <3> QED BY <3>2 DEF E
  <2> QED BY <2>1, <2>2
<1>4. \A e \in EndsOf(<<>>) : st[Upto(EndsOf(<<>>), e) + 1] = Len(BitsOf(K, <<>>)[e]) BY <1>1
<1>5. Started(K, <<>>, st) BY <1>3, <1>4 DEF Started
<1> QED BY <1>5 DEF st

\* A symbol more: a start more if it is END, and otherwise those there are.
LEMMA StartedOn ==
  ASSUME NEW K, NEW D, \A s \in D : K[s] \in Seq({0, 1}), NEW w \in Seq(D), NEW c \in D,
         NEW st, Started(K, w, st)
  PROVE  IF c.kind = "END" THEN Started(K, Append(w, c), Append(st, Len(Bits(K, Append(w, c)))))
                           ELSE Started(K, Append(w, c), st)
<1> DEFINE x == Append(w, c)
           n == Len(w)
           S == EndsOf(w)
           E == EndsOf(x)
           U(k) == Len(BitsOf(K, x)[k])
<1>1. /\ n \in Nat /\ Len(x) = n + 1 /\ x[n + 1] = c /\ \A k \in 1 .. n : x[k] = w[k]
  BY LenProperties, AppendProperties
<1>2. /\ Coded(K, x) /\ \A i \in 0 .. n : BitsOf(K, x)[i] = BitsOf(K, w)[i]
  BY BitsGrow DEF Codebook
<1>3. S \subseteq Nat /\ IsFiniteSet(S) /\ S \subseteq 1 .. n /\ IsFiniteSet(E) BY <1>1, EndsAre
<1>4. /\ Cardinality(S) \in Nat /\ \A e \in S : Upto(S, e) \in 1 .. Cardinality(S) BY <1>3, Ranks
<1>5. /\ st \in Seq(Nat) /\ Len(st) = Cardinality(S) + 1 /\ st[1] = 0
      /\ \A e \in S : st[Upto(S, e) + 1] = U(e)
  <2>1. \A e \in S : e \in 0 .. n BY <1>1, <1>3
  <2> QED BY <2>1, <1>2 DEF Started
<1>6. \A k : k \in E <=> (k \in S \/ (k = n + 1 /\ c.kind = "END"))
  <2>1. \A k : k \in 1 .. Len(x) <=> (k \in 1 .. n \/ k = n + 1) BY <1>1
  <2> HIDE DEF x
  <2>2. \A k : k \in E <=> k \in 1 .. Len(x) /\ x[k].kind = "END" BY DEF EndsOf
  <2>3. \A k : k \in S <=> k \in 1 .. n /\ w[k].kind = "END" BY DEF EndsOf
  <2> HIDE DEF E, S
  <2>4. n + 1 \notin 1 .. n BY <1>1
  <2> HIDE DEF n
  <2> QED BY <2>1, <2>2, <2>3, <2>4, <1>1
<1>7. U(n + 1) = Len(Bits(K, x)) /\ U(n + 1) \in Nat
  <2>1. n + 1 \in 0 .. Len(x) BY <1>1
  <2> HIDE DEF x
  <2> QED BY <2>1, <1>1, <1>2, BitsAre DEF Bits
<1> HIDE DEF x, n, S, E, U
<1>8. CASE c.kind # "END"
  <2>1. E = S BY <1>6, <1>8
  <2>2. Started(K, x, st) BY <2>1, <1>5 DEF Started, E, U
  <2> QED BY <2>2, <1>8 DEF x
<1>9. CASE c.kind = "END"
  <2> DEFINE g == Append(st, U(n + 1))
  <2>1. n + 1 \notin S BY <1>1, <1>3
  <2>2. E = S \cup {n + 1} BY <1>6, <1>9
  <2>3. Cardinality(E) = Cardinality(S) + 1 BY <2>1, <2>2, <1>3, FS_AddElement
  <2>4. g \in Seq(Nat) /\ Len(g) = Len(st) + 1 /\ g[Len(st) + 1] = U(n + 1) /\ \A k \in 1 .. Len(st) : g[k] = st[k]
    BY <1>5, <1>7, AppendProperties
  <2> HIDE DEF g
  <2>5. Len(g) = Cardinality(E) + 1 /\ g[1] = 0
    <3>1. 1 \in 1 .. Len(st) BY <1>4, <1>5
    <3> QED BY <3>1, <2>3, <2>4, <1>5
  <2>6. ASSUME NEW e \in S PROVE Upto(E, e) = Upto(S, e)
    <3>1. e <= n /\ e \in Nat BY <1>1, <1>3
    <3>2. ~(n + 1 <= e) BY <3>1, <1>1
    <3>3. {d \in E : d <= e} = {d \in S : d <= e} BY <3>2, <2>2
    <3> QED BY <3>3 DEF Upto
  <2>7. Upto(E, n + 1) = Cardinality(E)
    <3>1. \A d \in E : d <= n + 1 BY <2>2, <1>1, <1>3
    <3>2. {d \in E : d <= n + 1} = E BY <3>1
    <3> QED BY <3>2 DEF Upto
  <2>8. ASSUME NEW e \in E PROVE g[Upto(E, e) + 1] = U(e)
    <3>1. CASE e \in S
      <4>1. Upto(S, e) + 1 \in 1 .. Len(st) BY <3>1, <1>4, <1>5
      <4> QED BY <3>1, <4>1, <2>4, <2>6, <1>5
    <3>2. CASE e = n + 1 BY <3>2, <2>3, <2>4, <2>7, <1>5
    <3> QED BY <3>1, <3>2, <2>2
  <2>9. Started(K, x, g) BY <2>4, <2>5, <2>8 DEF Started, E, U
  <2> QED BY <2>9, <1>7, <1>9 DEF x, g
<1> QED BY <1>8, <1>9

\* Codes of the same lengths start strings at the same bits.
LEMMA StartedAlike ==
  ASSUME NEW K, NEW L, NEW w, Coded(K, w), Coded(L, w), AsLong(K, L, w),
         NEW st, Started(K, w, st)
  PROVE  Started(L, w, st)
<1>1. Len(w) \in Nat BY DEF Coded
<1>2. EndsOf(w) \subseteq 1 .. Len(w) BY <1>1, EndsAre
<1>3. ASSUME NEW e \in EndsOf(w) PROVE Len(BitsOf(K, w)[e]) = Len(BitsOf(L, w)[e])
  <2>1. e \in Nat /\ e <= Len(w) BY <1>1, <1>2
  <2>2. AsFar(K, L, w, e) BY <2>1, BitsAsLong
  <2> QED BY <2>2 DEF AsFar
<1> QED BY <1>3 DEF Started

\* Texts that begin alike start their strings alike.
LEMMA StartsBegin ==
  ASSUME NEW K, NEW v, NEW w, Coded(K, v), Coded(K, w), Begins(v, w),
         NEW st, Started(K, v, st), NEW su, Started(K, w, su)
  PROVE  Begins(st, su)
<1> DEFINE S == EndsOf(v)
           E == EndsOf(w)
<1>1. Len(v) \in Nat /\ Len(w) \in Nat /\ Len(v) <= Len(w) BY DEF Coded, Begins
<1>2. \A k \in 1 .. Len(v) : v[k] = w[k]
  <2> SUFFICES ASSUME NEW k \in 1 .. Len(v) PROVE v[k] = w[k] OBVIOUS
  <2>1. v = SubSeq(w, 1, Len(v)) BY DEF Begins
  <2> DEFINE n == Len(v)
  <2>2. \A j \in 1 .. n : SubSeq(w, 1, n)[j] = w[j]
    <3> DEFINE W == {w[j] : j \in 1 .. n}
    <3>1. 1 \in Int /\ n \in Int /\ \A j \in 1 .. n : w[j] \in W BY <1>1
    <3> HIDE DEF W, n
    <3>2. \A j \in 1 .. n - 1 + 1 : SubSeq(w, 1, n)[j] = w[1 + j - 1] BY <3>1, SubSeqProperties
    <3>3. \A j \in 1 .. n : j \in 1 .. n - 1 + 1 /\ 1 + j - 1 = j BY <3>1
    <3> QED BY <3>2, <3>3
  <2> QED BY <2>1, <2>2
<1>3. /\ S \subseteq Nat /\ IsFiniteSet(S) /\ S \subseteq 1 .. Len(v)
      /\ E \subseteq Nat /\ IsFiniteSet(E)
  BY <1>1, EndsAre
<1>4. S \subseteq E
  <2>1. \A k \in 1 .. Len(v) : k \in 1 .. Len(w) BY <1>1
  <2> QED BY <2>1, <1>2 DEF EndsOf
<1>5. ASSUME NEW e \in S PROVE Upto(S, e) = Upto(E, e)
  <2>1. \A d \in E : d <= e => d \in S
    <3> SUFFICES ASSUME NEW d \in E, d <= e PROVE d \in S OBVIOUS
    <3>1. d \in 1 .. Len(w) /\ w[d].kind = "END" BY DEF EndsOf
    <3>2. d \in 1 .. Len(v) BY <3>1, <1>1, <1>3
    <3> QED BY <3>1, <3>2, <1>2 DEF EndsOf
  <2> HIDE DEF S, E
  <2>2. {d \in E : d <= e} = {d \in S : d <= e} BY <2>1, <1>4
  <2> QED BY <2>2 DEF Upto
<1>6. \A e \in S : Len(BitsOf(K, v)[e]) = Len(BitsOf(K, w)[e])
  <2> SUFFICES ASSUME NEW e \in S PROVE Len(BitsOf(K, v)[e]) = Len(BitsOf(K, w)[e]) OBVIOUS
  <2>1. e \in Nat /\ e <= Len(v) /\ e <= Len(w) /\ \A k \in 1 .. e : v[k] = w[k] BY <1>1, <1>2, <1>3
  <2>2. BitsOf(K, v)[e] = BitsOf(K, w)[e]
    <3> HIDE DEF S, E
    <3> QED BY <2>1, BitsAgree
  <2> QED BY <2>2
<1>7. /\ st \in Seq(Nat) /\ Len(st) = Cardinality(S) + 1 /\ st[1] = 0
      /\ \A e \in S : st[Upto(S, e) + 1] = Len(BitsOf(K, v)[e])
      /\ su \in Seq(Nat) /\ Len(su) = Cardinality(E) + 1 /\ su[1] = 0
      /\ \A e \in E : su[Upto(E, e) + 1] = Len(BitsOf(K, w)[e])
  BY DEF Started
<1> HIDE DEF S, E
<1>8. Cardinality(S) \in Nat /\ Cardinality(E) \in Nat /\ Cardinality(S) <= Cardinality(E)
  BY <1>3, <1>4, FS_Subset, FS_CardinalityType
<1>9. ASSUME NEW k \in 1 .. Len(st) PROVE st[k] = su[k]
  <2>1. CASE k = 1 BY <2>1, <1>7
  <2>2. CASE k # 1
    <3>1. k - 1 \in 1 .. Cardinality(S) /\ (k - 1) + 1 = k BY <2>2, <1>7, <1>8
    <3>2. PICK e \in S : Upto(S, e) = k - 1 BY <3>1, <1>3, Ranks
    <3>3. e \in E /\ Upto(E, e) = k - 1 BY <3>2, <1>4, <1>5
    <3>4. st[k] = Len(BitsOf(K, v)[e]) BY <3>1, <3>2, <1>7
    <3>5. su[k] = Len(BitsOf(K, w)[e]) BY <3>1, <3>3, <1>7
    <3> QED BY <3>4, <3>5, <1>6
  <2> QED BY <2>1, <2>2
<1>10. Len(st) \in Nat /\ Len(st) <= Len(su) /\ Len(st) \in 0 .. Len(su) BY <1>7, <1>8
<1> DEFINE y == SubSeq(su, 1, Len(st))
<1>11. y \in Seq(Nat) /\ Len(y) = Len(st) /\ \A k \in 1 .. Len(st) : y[k] = su[k] BY <1>7, <1>10, Beginnings
<1> HIDE DEF y
<1>12. y = st
  <2>1. \A k \in 1 .. Len(y) : y[k] = st[k] BY <1>9, <1>11
  <2> QED BY <2>1, <1>7, <1>11, SeqEqual
<1> QED BY <1>10, <1>12 DEF Begins, y

\* The bits between the starts of a string and of the next are the codes of the string.
OneString(K, w, st, bits, e) ==
  SubSeq(bits, st[Upto(EndsOf(w), e)] + 1, st[Upto(EndsOf(w), e) + 1])
    = Bits(K, SubSeq(w, Largest({d \in EndsOf(w) : d < e} \cup {0}) + 1, e))

\* Between the start an END's rank gives and the next are the codes of the string of that END.
LEMMA StartsBetween ==
  ASSUME NEW D, NEW K, \A s \in D : K[s] \in Seq({0, 1}), NEW w \in Seq(D), NEW st, Started(K, w, st),
         NEW bits \in Seq({0, 1}), Begins(Bits(K, w), bits), NEW e \in EndsOf(w)
  PROVE  OneString(K, w, st, bits, e)
<1> SUFFICES SubSeq(bits, st[Upto(EndsOf(w), e)] + 1, st[Upto(EndsOf(w), e) + 1])
               = Bits(K, SubSeq(w, Largest({d \in EndsOf(w) : d < e} \cup {0}) + 1, e))
  BY Zenon DEF OneString
<1> DEFINE S == EndsOf(w)
           P == {d \in S : d < e} \cup {0}
           p == Largest(P)
           k == Upto(S, e)
<1>1. Len(w) \in Nat /\ \A j \in 1 .. Len(w) : w[j] \in D BY LenProperties, ElementOfSeq
<1>2. Coded(K, w) BY <1>1 DEF Coded, CodeAt
<1>3. S \subseteq Nat /\ IsFiniteSet(S) /\ S \subseteq 1 .. Len(w) BY <1>1, EndsAre
<1>4. /\ Cardinality(S) \in Nat /\ \A d \in S : Upto(S, d) \in 1 .. Cardinality(S) BY <1>3, Ranks
<1>5. /\ st \in Seq(Nat) /\ Len(st) = Cardinality(S) + 1 /\ st[1] = 0
      /\ \A d \in S : st[Upto(S, d) + 1] = Len(BitsOf(K, w)[d])
  BY DEF Started
<1>6. e \in S OBVIOUS
<1> HIDE DEF S
<1>0. e \in Nat /\ e \in 1 .. Len(w) /\ e >= 1 /\ e <= Len(w)
  <2>1. e \in 1 .. Len(w) BY <1>3, <1>6
  <2> HIDE DEF P, p
  <2> QED BY <2>1, <1>1
<1>60. \A x \in P : x \in Nat /\ x < e /\ (x = 0 \/ x \in S)
  <2> SUFFICES ASSUME NEW x \in P PROVE x \in Nat /\ x < e /\ (x = 0 \/ x \in S) OBVIOUS
  <2>1. x = 0 \/ (x \in S /\ x < e) OBVIOUS
  <2>2. x \in S => x \in Nat BY <1>3
  <2> HIDE DEF P, p
  <2> QED BY <2>1, <2>2, <1>0
<1>7. p \in P /\ \A x \in P : x <= p
  <2> DEFINE R == {e - x : x \in P}
  <2>1. R \subseteq Nat /\ R # {}
    <3>1. 0 \in P OBVIOUS
    <3> HIDE DEF P
    <3> QED BY <3>1, <1>0, <1>60
  <2>2. PICK r \in R : \A q \in R : r <= q
    <3> HIDE DEF R
    <3> QED BY <2>1, LeastNatural
  <2>3. PICK x \in P : r = e - x OBVIOUS
  <2>4. \A y \in P : y <= x /\ y \in Nat
    <3> SUFFICES ASSUME NEW y \in P PROVE y <= x /\ y \in Nat OBVIOUS
    <3>1. e - x <= e - y BY <2>2, <2>3
    <3>2. x \in Nat /\ y \in Nat /\ e \in Nat
      <4> HIDE DEF P, R
      <4> QED BY <1>0, <1>60
    <3> HIDE DEF P, R
    <3> QED BY <3>1, <3>2
  <2> HIDE DEF P
  <2>5. \E y \in P : \A z \in P : z <= y BY <2>4
  <2> QED BY <2>5 DEF Largest
<1>8. p \in Nat /\ p < e /\ e \in Nat /\ e <= Len(w) /\ (p = 0 \/ p \in S)
  <2> HIDE DEF p, P
  <2> QED BY <1>0, <1>60, <1>7
<1>9. \A d \in S : d < e => d <= p BY <1>7
<1> HIDE DEF P, p
<1>10. st[k] = Len(BitsOf(K, w)[p])
  <2>1. CASE p = 0
    <3>1. {d \in S : d <= e} = {e}
      <4>1. \A d \in S : d <= e => d = e
        <5> SUFFICES ASSUME NEW d \in S, d <= e PROVE d = e OBVIOUS
        <5>1. d \in 1 .. Len(w) BY <1>3
        <5> QED BY <5>1, <1>8, <1>9, <2>1
      <4>2. e <= e BY <1>8
      <4> QED BY <4>1, <4>2, <1>6, Zenon
    <3>2. k = 1 BY <3>1, FS_Singleton DEF Upto
    <3>3. BitsOf(K, w)[0] = <<>> BY <1>2, BitsAre
    <3> QED BY <3>2, <3>3, <2>1, <1>5, EmptySeq
  <2>2. CASE p # 0
    <3> DEFINE X == {d \in S : d <= p}
               Y == {d \in S : d <= e}
    <3>1. p \in S BY <2>2, <1>8
    <3>2. \A d \in S : d <= e <=> (d <= p \/ d = e)
      <4> SUFFICES ASSUME NEW d \in S PROVE d <= e <=> (d <= p \/ d = e) OBVIOUS
      <4>1. d \in Nat BY <1>3
      <4> QED BY <4>1, <1>8, <1>9
    <3>3. ~(e <= p) BY <1>8
    <3>4. Y = X \cup {e} /\ e \notin X BY <3>2, <3>3, <1>6, Zenon
    <3>5. IsFiniteSet(X) BY <1>3, FS_Subset
    <3>6. k = Cardinality(Y) /\ Upto(S, p) = Cardinality(X) BY DEF Upto
    <3> HIDE DEF X, Y, k
    <3>7. k = Upto(S, p) + 1 BY <3>4, <3>5, <3>6, FS_AddElement
    <3> QED BY <3>1, <3>7, <1>5
  <2> QED BY <2>1, <2>2
<1>11. st[k + 1] = Len(BitsOf(K, w)[e]) BY <1>5, <1>6
<1> HIDE DEF k
<1> DEFINE v == SubSeq(w, p + 1, e)
<1>12. Piece(v, w, p, e)
  <2> DEFINE lo == p + 1
  <2>1. lo \in Int /\ e \in Int /\ \A j \in lo .. e : w[j] \in D BY <1>1, <1>8
  <2>2. Len(v) = (IF lo <= e THEN e - lo + 1 ELSE 0) /\ \A j \in 1 .. e - lo + 1 : v[j] = w[lo + j - 1]
    <3> HIDE DEF lo
    <3> QED BY <2>1, SubSeqProperties DEF lo
  <2>3. e - lo + 1 = e - p /\ lo <= e /\ \A j \in 1 .. e - p : lo + j - 1 = p + j BY <1>8
  <2> HIDE DEF lo, v
  <2> QED BY <2>2, <2>3 DEF Piece
<1> HIDE DEF v
<1> DEFINE a == BitsOf(K, w)[p]
           b == Bits(K, v)
           u == BitsOf(K, w)[e]
           x == Bits(K, w)
<1>13. u = a \o b /\ a \in Seq({0, 1}) /\ b \in Seq({0, 1})
  <2>1. p <= e /\ p \in Nat /\ e \in Nat BY <1>8
  <2>2. Splits(K, w, p, e, v) BY <2>1, <1>2, <1>8, <1>12, BitsSplit
  <2> QED BY <2>2 DEF Splits
<1>14. Len(u) <= Len(x) /\ SubSeq(x, 1, Len(u)) = u
  <2>1. e \in Nat /\ Len(w) \in Nat /\ e <= Len(w) /\ Len(w) <= Len(w) BY <1>1, <1>8
  <2>2. x = BitsOf(K, w)[Len(w)] BY DEF Bits
  <2> HIDE DEF x
  <2> QED BY <2>1, <2>2, <1>2, BitsBegin
<1>15. x \in Seq({0, 1}) /\ Len(x) \in Nat
  <2>1. Len(w) \in 0 .. Len(w) BY <1>1
  <2> QED BY <2>1, <1>2, BitsAre DEF Bits
<1>16. Len(x) <= Len(bits) /\ SubSeq(bits, 1, Len(x)) = x BY DEF Begins
<1> HIDE DEF a, b, u, x
<1>17. Len(a) \in Nat /\ Len(b) \in Nat /\ Len(u) = Len(a) + Len(b)
       /\ \A j \in 1 .. Len(a) + Len(b) : u[j] = IF j <= Len(a) THEN a[j] ELSE b[j - Len(a)]
  BY <1>13, ConcatProperties, LenProperties
<1>18. Len(bits) \in Nat BY LenProperties
<1>19. ASSUME NEW j \in 1 .. Len(b) PROVE bits[Len(a) + j] = b[j]
  <2> DEFINE i == Len(a) + j
  <2>1. i \in 1 .. Len(a) + Len(b) /\ ~(i <= Len(a)) /\ i - Len(a) = j BY <1>17
  <2> HIDE DEF i
  <2>2. u[i] = b[j] BY <2>1, <1>17
  <2>3. i \in 1 .. Len(u) /\ i \in 1 .. Len(x) /\ Len(u) \in 0 .. Len(x) /\ Len(x) \in 0 .. Len(bits)
    BY <2>1, <1>14, <1>15, <1>16, <1>17, <1>18
  <2>4. x[i] = u[i] BY <2>3, <1>14, <1>15, Beginnings
  <2>5. bits[i] = x[i] BY <2>3, <1>16, Beginnings
  <2> QED BY <2>2, <2>4, <2>5 DEF i
<1> DEFINE lo == Len(a) + 1
           hi == Len(u)
           y == SubSeq(bits, lo, hi)
<1>20. y = b
  <2>1. lo \in Int /\ hi \in Int /\ \A j \in lo .. hi : j \in 1 .. Len(bits) BY <1>14, <1>15, <1>16, <1>17, <1>18
  <2>2. \A j \in lo .. hi : bits[j] \in {0, 1} BY <2>1, ElementOfSeq
  <2>3. y \in Seq({0, 1}) /\ Len(y) = (IF lo <= hi THEN hi - lo + 1 ELSE 0) /\ \A j \in 1 .. hi - lo + 1 : y[j] = bits[lo + j - 1]
    <3> HIDE DEF lo, hi
    <3> QED BY <2>1, <2>2, SubSeqProperties
  <2>4. hi - lo + 1 = Len(b) /\ (IF lo <= hi THEN hi - lo + 1 ELSE 0) = Len(b) /\ \A j \in 1 .. Len(b) : lo + j - 1 = Len(a) + j
    BY <1>17
  <2> HIDE DEF lo, hi, y
  <2>5. Len(y) = Len(b) /\ \A j \in 1 .. Len(y) : y[j] = b[j] BY <2>3, <2>4, <1>19
  <2> QED BY <2>3, <2>5, <1>13, SeqEqual
<1>21. st[k] + 1 = lo /\ st[k + 1] = hi BY <1>10, <1>11 DEF a, u
<1> QED BY <1>20, <1>21 DEF k, p, P, S, b, v, y

----------------------------------------------------------------------------
(* Powers of two, and numbers by their bits. *)

\* The powers of two, unfolded.
LEMMA PowersAre ==
  Power[0] = 1 /\ \A k \in Nat : Power[k] \in Nat \ {0} /\ Power[k + 1] = 2 * Power[k]
<1> DEFINE E(f) == [k \in Nat |-> IF k = 0 THEN 1 ELSE 2 * f[k - 1]]
           U == CHOOSE f : f = E(f)
           step == [p \in Nat \X Nat |-> 2 * p[2]]
<1>1. Power = U BY DEF Power
<1>2. step \in [Nat \X Nat -> Nat] /\ \A k, x \in Nat : step[<<k, x>>] = 2 * x OBVIOUS
<1> HIDE DEF step
<1>3. PICK h : Iterates(h, Nat, 1, step) BY <1>2, Iteration
<1>4. h \in [Nat -> Nat] /\ h[0] = 1 /\ \A k \in Nat : h[k + 1] = 2 * h[k]
  BY <1>2, <1>3 DEF Iterates
<1>5. h = E(h)
  <2>1. h = [k \in Nat |-> h[k]] BY <1>4
  <2>2. \A k \in Nat : h[k] = IF k = 0 THEN 1 ELSE 2 * h[k - 1]
    <3> SUFFICES ASSUME NEW k \in Nat, k # 0 PROVE h[k] = 2 * h[k - 1] BY <1>4
    <3>1. k - 1 \in Nat /\ (k - 1) + 1 = k OBVIOUS
    <3> QED BY <3>1, <1>4
  <2> QED BY <2>1, <2>2
<1>6. U = E(U)
  <2> HIDE DEF E
  <2> QED BY <1>5
<1> HIDE DEF U
<1>7. \A k \in Nat : U[k] = IF k = 0 THEN 1 ELSE 2 * U[k - 1] BY <1>6
<1>8. U[0] = 1 BY <1>7
<1>9. \A k \in Nat : U[k + 1] = 2 * U[k]
  <2> SUFFICES ASSUME NEW k \in Nat PROVE U[k + 1] = 2 * U[k] OBVIOUS
  <2>1. k + 1 \in Nat /\ k + 1 # 0 /\ (k + 1) - 1 = k OBVIOUS
  <2> QED BY <2>1, <1>7
<1> DEFINE T == {k \in Nat : U[k] \in Nat \ {0}}
<1>10. 0 \in T BY <1>8
<1>11. \A k \in Nat : k \in T => k + 1 \in T BY <1>9
<1> HIDE DEF T
<1>12. Nat \subseteq T BY <1>10, <1>11, Inductive
<1> QED BY <1>1, <1>8, <1>9, <1>12 DEF T

\* A sum in the exponent is a product.
LEMMA PowersMultiply ==
  ASSUME NEW i \in Nat, NEW j \in Nat PROVE Power[i + j] = Power[i] * Power[j]
<1> DEFINE T == {k \in Nat : Power[i + k] = Power[i] * Power[k]}
<1>1. Power[i] \in Nat BY PowersAre
<1>2. 0 \in T BY <1>1, PowersAre
<1>3. ASSUME NEW k \in Nat, k \in T PROVE k + 1 \in T
  <2>1. i + (k + 1) = (i + k) + 1 /\ i + k \in Nat OBVIOUS
  <2>2. Power[(i + k) + 1] = 2 * Power[i + k] /\ Power[k + 1] = 2 * Power[k] BY <2>1, PowersAre
  <2>3. Power[i + k] = Power[i] * Power[k] BY <1>3
  <2> DEFINE a == Power[i]
             b == Power[k]
  <2>4. a \in Nat /\ b \in Nat BY PowersAre
  <2> HIDE DEF a, b
  <2>5. 2 * (a * b) = a * (2 * b) BY <2>4
  <2>6. Power[i + (k + 1)] = Power[i] * Power[k + 1] BY <2>1, <2>2, <2>3, <2>5 DEF a, b
  <2> QED BY <2>6
<1> HIDE DEF T
<1>4. Nat \subseteq T BY <1>2, <1>3, Inductive
<1> QED BY <1>4 DEF T

\* A fraction is reduced.
LEMMA DivScaled ==
  ASSUME NEW x \in Nat, NEW a \in Nat \ {0}, NEW c \in Nat \ {0}
  PROVE  (x * c) \div (a * c) = x \div a
<1> DEFINE q == x \div a
           r == x % a
<1>1. q \in Int /\ r \in 0 .. a - 1 /\ x = q * a + r BY DivMod
<1> HIDE DEF q, r
<1>2. x * c = (q * a) * c + r * c /\ (q * a) * c = q * (a * c) /\ q * a \in Int
  <2>1. q * a \in Int /\ r \in Int /\ c \in Int BY <1>1
  <2>2. (q * a + r) * c = (q * a) * c + r * c BY <2>1, Distribute
  <2>3. (q * a) * c = q * (a * c) BY <1>1, TimesAssociates
  <2> QED BY <2>1, <2>2, <2>3, <1>1
<1>3. r * c <= (a - 1) * c /\ (a - 1) * c = a * c - c /\ r * c \in Nat /\ a * c \in Nat \ {0}
  <2>1. r \in Int /\ a - 1 \in Int /\ r <= a - 1 BY <1>1
  <2>2. r * c <= (a - 1) * c BY <2>1, TimesMonotone
  <2>3. (a - 1) * c = a * c - 1 * c /\ 1 * c = c BY Distribute
  <2>4. r * c \in Nat /\ a * c \in Nat /\ a * c >= c
    <3>1. a * c >= c BY AtLeastOnce
    <3> QED BY <3>1, <1>1
  <2> QED BY <2>2, <2>3, <2>4
<1> DEFINE n == a * c
           m == r * c
           y == x * c
<1>4. n \in Nat \ {0} /\ m \in 0 .. n - 1 /\ y \in Int /\ y = q * n + m
  <2>1. y = q * n + m /\ y \in Int BY <1>2
  <2>2. n \in Nat \ {0} /\ m \in Nat /\ m <= n - c BY <1>3
  <2> HIDE DEF n, m, y
  <2> QED BY <2>1, <2>2
<1> HIDE DEF n, m, y
<1>5. y \div n = q BY <1>1, <1>4, DivModUnique
<1> QED BY <1>5 DEF y, n, q

\* Halving a quotient is dividing by twice as much.
LEMMA DivTwice ==
  ASSUME NEW x \in Nat, NEW a \in Nat \ {0}
  PROVE  (x \div a) \div 2 = x \div (2 * a) /\ x \div a \in Nat
<1> DEFINE q == x \div a
           r == x % a
           h == q \div 2
           d == q % 2
<1>1. q \in Int /\ r \in 0 .. a - 1 /\ x = q * a + r BY DivMod
<1>2. q \in Nat
  <2> SUFFICES ASSUME q <= -1 PROVE FALSE BY <1>1
  <2> HIDE DEF q, r
  <2>1. q * a <= (-1) * a BY <1>1, TimesMonotone
  <2>2. (-1) * a = -a /\ q * a \in Int BY <1>1
  <2> QED BY <2>1, <2>2, <1>1
<1> HIDE DEF q, r
<1>3. h \in Int /\ d \in 0 .. 1 /\ q = h * 2 + d BY <1>2
<1> HIDE DEF h, d
<1>4. q * a = h * (2 * a) + d * a /\ h * (2 * a) \in Int
  <2>1. (h * 2 + d) * a = (h * 2) * a + d * a BY <1>3, Distribute
  <2>2. (h * 2) * a = h * (2 * a) BY <1>3, TimesAssociates
  <2> QED BY <2>1, <2>2, <1>3
<1>5. d * a + r \in 0 .. 2 * a - 1
  <2>1. CASE d = 0 BY <2>1, <1>1
  <2>2. CASE d = 1 BY <2>2, <1>1
  <2> QED BY <2>1, <2>2, <1>3
<1> DEFINE n == 2 * a
           m == d * a + r
<1>6. n \in Nat \ {0} /\ m \in 0 .. n - 1 /\ x = h * n + m
  <2>1. d * a \in Int BY <1>3
  <2> QED BY <2>1, <1>1, <1>4, <1>5
<1> HIDE DEF n, m
<1>7. x \div n = h BY <1>3, <1>6, DivModUnique
<1> QED BY <1>2, <1>7 DEF n, h, q

\* The number that the first j of l bits of x make.
Digits(l, x, j) == x \div Power[l - j]

\* The first j of l binary digits: how they go on, and between which numbers they lie.
LEMMA DigitsAre ==
  ASSUME NEW l \in Nat, NEW x \in 0 .. Power[l] - 1
  PROVE  /\ Digits(l, x, 0) = 0
         /\ \A j \in 0 .. l : Digits(l, x, j) \in Nat
         /\ \A j \in 0 .. l - 1 : Digits(l, x, j + 1) = 2 * Digits(l, x, j) + (Digits(l, x, j + 1) % 2)
         /\ \A j \in 0 .. l : \A v \in Nat :
              Digits(l, x, j) = v <=> v * Power[l - j] <= x /\ x < (v + 1) * Power[l - j]
<1>1. Power[l] \in Nat \ {0} /\ x \in Nat /\ x < Power[l] BY PowersAre
<1>2. \A j \in 0 .. l : l - j \in Nat /\ Power[l - j] \in Nat \ {0} BY PowersAre
<1>3. \A j \in 0 .. l : Digits(l, x, j) \in Nat
  <2> SUFFICES ASSUME NEW j \in 0 .. l PROVE Digits(l, x, j) \in Nat OBVIOUS
  <2>1. Power[l - j] \in Nat \ {0} BY <1>2
  <2> QED BY <2>1, <1>1, DivTwice DEF Digits
<1>4. ASSUME NEW j \in 0 .. l, NEW v \in Nat
      PROVE  Digits(l, x, j) = v <=> v * Power[l - j] <= x /\ x < (v + 1) * Power[l - j]
  <2> DEFINE p == Power[l - j]
             q == Digits(l, x, j)
  <2>1. p \in Nat \ {0} BY <1>2
  <2>2. q = x \div p BY DEF Digits
  <2> HIDE DEF p, q
  <2>3. q \in Int /\ x % p \in 0 .. p - 1 /\ x = q * p + (x % p) BY <1>1, <2>1, <2>2, DivMod
  <2>4. ASSUME q = v PROVE v * p <= x /\ x < (v + 1) * p
    <3> DEFINE r == x % p
               y == v * p
    <3>1. y \in Int /\ r \in 0 .. p - 1 /\ x = y + r BY <2>1, <2>3, <2>4
    <3>2. (v + 1) * p = y + p
      <4>1. (v + 1) * p = v * p + 1 * p /\ 1 * p = p BY <2>1, Distribute
      <4> QED BY <4>1
    <3> HIDE DEF r, y
    <3>3. y <= x /\ x < (v + 1) * p BY <3>1, <3>2, <2>1
    <3> QED BY <3>3 DEF y
  <2>5. ASSUME v * p <= x, x < (v + 1) * p PROVE q = v
    <3> DEFINE hi == v + 1
    <3>1. hi \in Int /\ v \in Int /\ x \in Int /\ v * p <= x /\ x < hi * p /\ hi - 1 = v BY <1>1, <2>5
    <3> HIDE DEF hi
    <3>2. x \div p \in v .. hi - 1 BY <3>1, <2>1, DivBetween
    <3>3. x \div p = v BY <3>1, <3>2
    <3> QED BY <3>3, <2>2
  <2> QED BY <2>4, <2>5 DEF p, q
<1>5. Digits(l, x, 0) = 0
  <2>1. 0 \in 0 .. l /\ l - 0 = l OBVIOUS
  <2>2. 0 * Power[l] <= x /\ x < (0 + 1) * Power[l] BY <1>1
  <2> QED BY <2>1, <2>2, <1>4
<1>6. ASSUME NEW j \in 0 .. l - 1 PROVE Digits(l, x, j + 1) = 2 * Digits(l, x, j) + (Digits(l, x, j + 1) % 2)
  <2> DEFINE i == l - (j + 1)
             q == Digits(l, x, j + 1)
  <2>1. i \in Nat /\ l - j = i + 1 /\ j + 1 \in 0 .. l OBVIOUS
  <2>2. Power[l - j] = 2 * Power[i] /\ Power[i] \in Nat \ {0} BY <2>1, PowersAre
  <2>3. Digits(l, x, j) = q \div 2
    <3>1. q = x \div Power[i] BY DEF Digits
    <3>2. Digits(l, x, j) = x \div (2 * Power[i]) BY <2>2 DEF Digits
    <3> HIDE DEF q, i
    <3> QED BY <3>1, <3>2, <2>2, <1>1, DivTwice
  <2>4. q \in Nat BY <2>1, <1>3
  <2> HIDE DEF q
  <2>5. q = 2 * (q \div 2) + (q % 2) BY <2>4
  <2> QED BY <2>3, <2>5 DEF q
<1> QED BY <1>3, <1>4, <1>5, <1>6

\* Two numbers have the same first bits if these make one number.
LEMMA DigitsAgree ==
  ASSUME NEW l \in Nat, NEW x \in 0 .. Power[l] - 1, NEW y \in 0 .. Power[l] - 1, NEW j \in 0 .. l
  PROVE  /\ Digits(l, x, j) = Digits(l, y, j) => \A i \in 0 .. j : Digits(l, x, i) = Digits(l, y, i)
         /\ (\A i \in 1 .. j : Digits(l, x, i) % 2 = Digits(l, y, i) % 2) => Digits(l, x, j) = Digits(l, y, j)
<1> DEFINE d(i) == Digits(l, x, i)
           e(i) == Digits(l, y, i)
<1>1. /\ d(0) = 0 /\ e(0) = 0
      /\ \A i \in 0 .. l : d(i) \in Nat /\ e(i) \in Nat
      /\ \A i \in 0 .. l - 1 : d(i + 1) = 2 * d(i) + (d(i + 1) % 2) /\ e(i + 1) = 2 * e(i) + (e(i + 1) % 2)
  BY DigitsAre
<1> HIDE DEF d, e
<1>2. ASSUME d(j) = e(j) PROVE \A i \in 0 .. j : d(i) = e(i)
  <2> DEFINE T == {k \in Nat : k <= j => d(j - k) = e(j - k)}
  <2>1. 0 \in T
    <3>1. j - 0 = j OBVIOUS
    <3> QED BY <3>1, <1>2
  <2>2. ASSUME NEW k \in Nat, k \in T PROVE k + 1 \in T
    <3> SUFFICES ASSUME k + 1 <= j PROVE d(j - (k + 1)) = e(j - (k + 1)) OBVIOUS
    <3> DEFINE i == j - (k + 1)
    <3>1. i \in 0 .. l - 1 /\ i + 1 = j - k /\ i \in 0 .. l /\ i + 1 \in 0 .. l /\ k <= j OBVIOUS
    <3> HIDE DEF i
    <3>2. d(i + 1) = e(i + 1) BY <3>1, <2>2
    <3>3. d(i + 1) = 2 * d(i) + (d(i + 1) % 2) /\ e(i + 1) = 2 * e(i) + (e(i + 1) % 2) BY <3>1, <1>1
    <3>4. d(i) \in Nat /\ e(i) \in Nat /\ d(i + 1) \in Nat BY <3>1, <1>1
    <3>5. d(i + 1) % 2 \in Nat BY <3>4
    <3>6. d(i) = e(i) BY <3>2, <3>3, <3>4, <3>5
    <3> QED BY <3>6 DEF i
  <2> HIDE DEF T
  <2>3. Nat \subseteq T BY <2>1, <2>2, Inductive
  <2> SUFFICES ASSUME NEW i \in 0 .. j PROVE d(i) = e(i) OBVIOUS
  <2>4. j - i \in Nat /\ j - (j - i) = i /\ j - i <= j OBVIOUS
  <2>5. j - i \in T BY <2>3, <2>4
  <2> QED BY <2>4, <2>5 DEF T
<1>3. ASSUME \A i \in 1 .. j : d(i) % 2 = e(i) % 2 PROVE d(j) = e(j)
  <2> DEFINE T == {k \in Nat : k <= j => d(k) = e(k)}
  <2>1. 0 \in T BY <1>1
  <2>2. ASSUME NEW k \in Nat, k \in T PROVE k + 1 \in T
    <3> SUFFICES ASSUME k + 1 <= j PROVE d(k + 1) = e(k + 1) OBVIOUS
    <3>1. k \in 0 .. l - 1 /\ k + 1 \in 1 .. j /\ k <= j OBVIOUS
    <3>2. d(k) = e(k) /\ d(k + 1) % 2 = e(k + 1) % 2 BY <3>1, <1>3, <2>2
    <3>3. d(k + 1) = 2 * d(k) + (d(k + 1) % 2) /\ e(k + 1) = 2 * e(k) + (e(k + 1) % 2) BY <3>1, <1>1
    <3> QED BY <3>2, <3>3
  <2> HIDE DEF T
  <2>3. Nat \subseteq T BY <2>1, <2>2, Inductive
  <2> QED BY <2>3 DEF T
<1> QED BY <1>2, <1>3 DEF d, e

----------------------------------------------------------------------------
(* The canonical codes of ascending lengths that make up a full tree. *)

\* A total, unfolded.
LEMMA TotalIs ==
  ASSUME NEW g, Len(g) \in Nat, \A k \in 1 .. Len(g) : g[k] \in Nat
  PROVE  \E f : /\ f \in [0 .. Len(g) -> Nat] /\ f[0] = 0 /\ Total(g) = f[Len(g)]
                /\ \A k \in 1 .. Len(g) : f[k] = f[k - 1] + g[k]
<1> DEFINE n == Len(g)
           U == CHOOSE f : Summed(f, 0, n, 0, g)
<1>1. n \in Nat /\ 0 \in Nat /\ (\A i \in 0 + 1 .. n : g[i] \in Nat) /\ 0 <= n OBVIOUS
<1>2. Total(g) = U[n] BY DEF Total, Summed
<1> HIDE DEF n, U
<1>3. \E f : Summed(f, 0, n, 0, g) BY <1>1, SumsExist
<1>4. Summed(U, 0, n, 0, g) BY <1>3 DEF U
<1>5. /\ U \in [0 .. n -> Nat] /\ U[0] = 0
      /\ \A i \in 0 + 1 .. n : U[i] = U[i - 1] + g[i]
      /\ \A i \in 0 .. n : U[i] >= 0
  <2> DEFINE z == 0
  <2>1. z \in Nat /\ n \in Nat /\ (\A i \in z + 1 .. n : g[i] \in Nat) /\ z <= n BY <1>1
  <2>2. Summed(U, z, n, z, g) BY <1>4
  <2> HIDE DEF z
  <2>3. /\ U \in [z .. n -> Nat] /\ U[z] = z
        /\ \A i \in z + 1 .. n : U[i] = U[i - 1] + g[i]
        /\ \A i \in z .. n : U[i] >= z
    BY <2>1, <2>2, SumsAre
  <2> QED BY <2>3 DEF z
<1> QED BY <1>2, <1>5 DEF n

\* Lengths in their order, of a full tree.
Ascending(o) ==
  /\ Len(o) \in Nat \ {0} /\ DOMAIN o = 1 .. Len(o)
  /\ \A k \in 1 .. Len(o) : o[k] \in Nat \ {0}
  /\ \A k \in 2 .. Len(o) : o[k - 1] <= o[k]
  /\ Kraft(o)

\* The canonical numbers, unfolded.
LEMMA NumbersAre ==
  ASSUME NEW o, Ascending(o)
  PROVE  /\ Numbers(o)[1] = 0
         /\ \A k \in 1 .. Len(o) : Numbers(o)[k] \in Nat
         /\ \A k \in 2 .. Len(o) : Numbers(o)[k] = (Numbers(o)[k - 1] + 1) * Power[o[k] - o[k - 1]]
<1> DEFINE n == Len(o)
           E(f) == [k \in DOMAIN o |-> IF k = 1 THEN 0 ELSE (f[k - 1] + 1) * Power[o[k] - o[k - 1]]]
           U == CHOOSE f : f = E(f)
           factor(k) == IF k + 2 \in 2 .. n THEN Power[o[k + 2] - o[k + 1]] ELSE 0
           step == [p \in Nat \X Nat |-> (p[2] + 1) * factor(p[1])]
<1>1. Numbers(o) = U BY DEF Numbers
<1>2. n \in Nat \ {0} /\ DOMAIN o = 1 .. n BY DEF Ascending
<1>3. \A k \in 2 .. n : Power[o[k] - o[k - 1]] \in Nat
  <2> SUFFICES ASSUME NEW k \in 2 .. n PROVE Power[o[k] - o[k - 1]] \in Nat OBVIOUS
  <2>1. k \in 1 .. n /\ k - 1 \in 1 .. n BY <1>2
  <2>2. o[k] \in Nat /\ o[k - 1] \in Nat /\ o[k - 1] <= o[k] BY <2>1 DEF Ascending
  <2>3. o[k] - o[k - 1] \in Nat BY <2>2
  <2> QED BY <2>3, PowersAre
<1>4. \A k \in Nat : factor(k) \in Nat
  <2> SUFFICES ASSUME NEW k \in Nat, k + 2 \in 2 .. n PROVE Power[o[k + 2] - o[k + 1]] \in Nat OBVIOUS
  <2> DEFINE i == k + 2
  <2>1. i \in 2 .. n /\ i - 1 = k + 1 OBVIOUS
  <2> HIDE DEF i
  <2>2. Power[o[i] - o[i - 1]] \in Nat BY <2>1, <1>3
  <2> QED BY <2>1, <2>2 DEF i
<1>5. \A k \in 2 .. n : factor(k - 2) = Power[o[k] - o[k - 1]]
  <2> SUFFICES ASSUME NEW k \in 2 .. n PROVE factor(k - 2) = Power[o[k] - o[k - 1]] OBVIOUS
  <2>1. (k - 2) + 2 = k /\ (k - 2) + 1 = k - 1 OBVIOUS
  <2> QED BY <2>1
<1> HIDE DEF factor
<1>6. step \in [Nat \X Nat -> Nat]
  <2>1. ASSUME NEW p \in Nat \X Nat PROVE (p[2] + 1) * factor(p[1]) \in Nat
    <3>1. p[1] \in Nat /\ p[2] + 1 \in Nat OBVIOUS
    <3>2. factor(p[1]) \in Nat BY <3>1, <1>4
    <3> QED BY <3>1, <3>2
  <2> QED BY <2>1
<1>7. \A k, x \in Nat : step[<<k, x>>] = (x + 1) * factor(k) OBVIOUS
<1> HIDE DEF step
<1>8. PICK h : Iterates(h, Nat, 0, step) BY <1>6, Iteration
<1>9. h \in [Nat -> Nat] /\ h[0] = 0 /\ \A k \in Nat : h[k + 1] = (h[k] + 1) * factor(k)
  BY <1>7, <1>8 DEF Iterates
<1> DEFINE v == [k \in 1 .. n |-> h[k - 1]]
<1>10. \A k \in 1 .. n : v[k] = IF k = 1 THEN 0 ELSE (v[k - 1] + 1) * Power[o[k] - o[k - 1]]
  <2> SUFFICES ASSUME NEW k \in 1 .. n
               PROVE  v[k] = IF k = 1 THEN 0 ELSE (v[k - 1] + 1) * Power[o[k] - o[k - 1]]
    OBVIOUS
  <2>1. CASE k = 1
    <3>1. k - 1 = 0 BY <2>1
    <3> QED BY <2>1, <3>1, <1>9
  <2>2. CASE k # 1
    <3> DEFINE i == k - 2
    <3>1. i \in Nat /\ k - 1 = i + 1 /\ (k - 1) - 1 = i /\ k - 1 \in 1 .. n /\ k \in 2 .. n BY <2>2
    <3>2. v[k] = h[k - 1] /\ v[k - 1] = h[i] BY <3>1
    <3>3. factor(i) = Power[o[k] - o[k - 1]] BY <3>1, <1>5
    <3> HIDE DEF i, v
    <3>4. h[i + 1] = (h[i] + 1) * factor(i) BY <3>1, <1>9
    <3> QED BY <2>2, <3>1, <3>2, <3>3, <3>4
  <2> QED BY <2>1, <2>2
<1>11. v = E(v) BY <1>2, <1>10
<1>12. U = E(U)
  <2> HIDE DEF E, v
  <2> QED BY <1>11
<1> HIDE DEF U
<1>13. \A k \in 1 .. n : U[k] = IF k = 1 THEN 0 ELSE (U[k - 1] + 1) * Power[o[k] - o[k - 1]]
  BY <1>2, <1>12
<1> DEFINE T == {k \in Nat : k + 1 \in 1 .. n => U[k + 1] \in Nat}
<1>14. 0 \in T
  <2>1. 0 + 1 = 1 OBVIOUS
  <2>2. U[1] \in Nat BY <1>2, <1>13
  <2> QED BY <2>1, <2>2
<1>15. ASSUME NEW k \in Nat, k \in T PROVE k + 1 \in T
  <2> SUFFICES ASSUME (k + 1) + 1 \in 1 .. n PROVE U[(k + 1) + 1] \in Nat OBVIOUS
  <2> DEFINE i == (k + 1) + 1
  <2>1. i \in 2 .. n /\ i \in 1 .. n /\ i # 1 /\ i - 1 = k + 1 /\ k + 1 \in 1 .. n BY <1>2
  <2>2. U[k + 1] \in Nat BY <1>15, <2>1
  <2> HIDE DEF i
  <2>3. U[i] = (U[i - 1] + 1) * Power[o[i] - o[i - 1]] BY <2>1, <1>13
  <2>4. U[i - 1] + 1 \in Nat /\ Power[o[i] - o[i - 1]] \in Nat BY <2>1, <2>2, <1>3
  <2>5. U[i] \in Nat BY <2>3, <2>4
  <2> QED BY <2>5 DEF i
<1>16. Nat \subseteq T
  <2> HIDE DEF T
  <2> QED BY <1>14, <1>15, Inductive
<1>17. \A k \in 1 .. n : U[k] \in Nat
  <2> SUFFICES ASSUME NEW k \in 1 .. n PROVE U[k] \in Nat OBVIOUS
  <2>1. k - 1 \in Nat /\ (k - 1) + 1 = k OBVIOUS
  <2>2. k - 1 \in T BY <2>1, <1>16
  <2> QED BY <2>1, <2>2
<1>18. U[1] = 0 BY <1>2, <1>13
<1>19. \A k \in 2 .. n : U[k] = (U[k - 1] + 1) * Power[o[k] - o[k - 1]]
  <2> SUFFICES ASSUME NEW k \in 2 .. n PROVE U[k] = (U[k - 1] + 1) * Power[o[k] - o[k - 1]] OBVIOUS
  <2>1. k \in 1 .. n /\ k # 1 OBVIOUS
  <2> QED BY <2>1, <1>13
<1> QED BY <1>1, <1>17, <1>18, <1>19 DEF n

\* The last length is the longest.
LEMMA LongestIsLast ==
  ASSUME NEW o, Ascending(o)
  PROVE  /\ \A k \in 1 .. Len(o) : o[k] \in 1 .. o[Len(o)]
         /\ Largest({o[k] : k \in DOMAIN o}) = o[Len(o)]
<1> DEFINE n == Len(o)
           T == {k \in Nat : k < n => o[n - k] <= o[n]}
           all == {o[k] : k \in DOMAIN o}
<1>1. /\ n \in Nat \ {0} /\ DOMAIN o = 1 .. n
      /\ \A k \in 1 .. n : o[k] \in Nat \ {0}
      /\ \A k \in 2 .. n : o[k - 1] <= o[k]
  BY DEF Ascending
<1> HIDE DEF n
<1>2. 0 \in T
  <2>1. n - 0 = n /\ n \in 1 .. n BY <1>1
  <2>2. o[n] <= o[n] BY <1>1, <2>1
  <2> QED BY <2>1, <2>2
<1>3. ASSUME NEW k \in Nat, k \in T PROVE k + 1 \in T
  <2> SUFFICES ASSUME k + 1 < n PROVE o[n - (k + 1)] <= o[n] OBVIOUS
  <2> DEFINE i == n - k
  <2>1. i \in 2 .. n /\ i \in 1 .. n /\ i - 1 = n - (k + 1) /\ i - 1 \in 1 .. n /\ k < n /\ n \in 1 .. n BY <1>1
  <2>2. o[i] <= o[n] BY <1>3, <2>1
  <2> HIDE DEF i
  <2>3. o[i - 1] <= o[i] BY <2>1, <1>1
  <2>4. o[i - 1] \in Nat /\ o[i] \in Nat /\ o[n] \in Nat BY <2>1, <1>1
  <2> QED BY <2>1, <2>2, <2>3, <2>4
<1>4. Nat \subseteq T
  <2> HIDE DEF T
  <2> QED BY <1>2, <1>3, Inductive
<1>5. \A k \in 1 .. n : o[k] \in 1 .. o[n]
  <2> SUFFICES ASSUME NEW k \in 1 .. n PROVE o[k] \in 1 .. o[n] OBVIOUS
  <2>1. n - k \in Nat /\ n - k < n /\ n - (n - k) = k /\ n \in 1 .. n BY <1>1
  <2>2. n - k \in T BY <2>1, <1>4
  <2>3. o[k] <= o[n] BY <2>1, <2>2
  <2>4. o[k] \in Nat \ {0} /\ o[n] \in Nat BY <2>1, <1>1
  <2> QED BY <2>3, <2>4
<1> HIDE DEF T
<1>6. o[n] \in all /\ \A y \in all : y <= o[n] /\ y \in Nat
  <2>1. n \in DOMAIN o BY <1>1
  <2> QED BY <2>1, <1>1, <1>5
<1> HIDE DEF all
<1>7. Largest(all) = o[n]
  <2> DEFINE x == Largest(all)
  <2>1. x \in all /\ \A y \in all : y <= x BY <1>6 DEF Largest
  <2> HIDE DEF x
  <2>2. x <= o[n] /\ o[n] <= x /\ x \in Nat /\ o[n] \in Nat BY <2>1, <1>6
  <2>3. x = o[n] BY <2>2
  <2> QED BY <2>3 DEF x
<1> QED BY <1>5, <1>7 DEF n, all

\* Code k stands for the numbers from f[k - 1] to f[k], of the bits of the longest.
Spans(o, f) ==
  /\ f \in [0 .. Len(o) -> Nat] /\ f[0] = 0 /\ f[Len(o)] = Power[o[Len(o)]]
  /\ \A k \in 1 .. Len(o) : /\ f[k] = f[k - 1] + Power[o[Len(o)] - o[k]]
                            /\ Numbers(o)[k] * Power[o[Len(o)] - o[k]] = f[k - 1]

\* Each canonical code owns a span of the numbers of the longest length; together they fill them.
LEMMA SpansExist ==
  ASSUME NEW o, Ascending(o)
  PROVE  \E f : Spans(o, f)
<1> DEFINE n == Len(o)
           l == o[n]
           N == Numbers(o)
           g == [k \in DOMAIN o |-> Power[l - o[k]]]
           W(k) == Power[l - o[k]]
<1>1. /\ n \in Nat \ {0} /\ DOMAIN o = 1 .. n
      /\ \A k \in 1 .. n : o[k] \in Nat \ {0}
      /\ \A k \in 2 .. n : o[k - 1] <= o[k]
      /\ Kraft(o)
  BY DEF Ascending
<1>2. (\A k \in 1 .. n : o[k] \in 1 .. l) /\ Largest({o[k] : k \in DOMAIN o}) = l BY LongestIsLast
<1>3. \A k \in 1 .. n : l - o[k] \in Nat /\ W(k) \in Nat \ {0}
  <2> SUFFICES ASSUME NEW k \in 1 .. n PROVE l - o[k] \in Nat /\ W(k) \in Nat \ {0} OBVIOUS
  <2>1. o[k] \in 1 .. l /\ n \in 1 .. n BY <1>1, <1>2
  <2>2. l \in Nat BY <2>1, <1>1
  <2> HIDE DEF l
  <2>3. l - o[k] \in Nat BY <2>1, <2>2
  <2> QED BY <2>3, PowersAre
<1>4. Len(g) = n /\ \A k \in 1 .. n : g[k] = W(k)
  <2> HIDE DEF l, n
  <2> QED BY <1>1
<1>5. Total(g) = Power[l] BY <1>1, <1>2 DEF Kraft
<1>6. /\ N[1] = 0
      /\ \A k \in 1 .. n : N[k] \in Nat
      /\ \A k \in 2 .. n : N[k] = (N[k - 1] + 1) * Power[o[k] - o[k - 1]]
  BY NumbersAre
<1> HIDE DEF n, l, N, g
<1>7. PICK f : /\ f \in [0 .. n -> Nat] /\ f[0] = 0 /\ Total(g) = f[n]
               /\ \A k \in 1 .. n : f[k] = f[k - 1] + g[k]
  <2>1. Len(g) \in Nat /\ \A k \in 1 .. Len(g) : g[k] \in Nat BY <1>1, <1>3, <1>4
  <2>2. \E f : /\ f \in [0 .. Len(g) -> Nat] /\ f[0] = 0 /\ Total(g) = f[Len(g)]
               /\ \A k \in 1 .. Len(g) : f[k] = f[k - 1] + g[k]
    BY <2>1, TotalIs
  <2> QED BY <2>2, <1>4
<1>8. \A k \in 1 .. n : f[k] = f[k - 1] + W(k) BY <1>4, <1>7
<1> DEFINE T == {k \in Nat : k + 1 \in 1 .. n => N[k + 1] * W(k + 1) = f[k]}
<1>9. 0 \in T
  <2>1. 0 + 1 = 1 /\ 1 \in 1 .. n BY <1>1
  <2>2. W(1) \in Nat BY <2>1, <1>3
  <2>3. N[1] * W(1) = f[0]
    <3> HIDE DEF W
    <3> QED BY <2>2, <1>6, <1>7
  <2> QED BY <2>1, <2>3
<1>10. ASSUME NEW k \in Nat, k \in T PROVE k + 1 \in T
  <2> SUFFICES ASSUME (k + 1) + 1 \in 1 .. n PROVE N[(k + 1) + 1] * W((k + 1) + 1) = f[k + 1] OBVIOUS
  <2> DEFINE i == (k + 1) + 1
             h == k + 1
             x == N[h]
             a == Power[o[i] - o[h]]
             b == W(i)
             c == W(h)
  <2>1. i \in 2 .. n /\ i \in 1 .. n /\ i - 1 = h /\ h \in 1 .. n /\ h - 1 = k BY <1>1
  <2>2. x * c = f[k] BY <2>1, <1>10
  <2> HIDE DEF i, h
  <2>3. o[h] <= o[i] /\ o[h] \in Nat /\ o[i] \in Nat /\ o[i] <= l /\ l \in Nat
    <3>1. o[h] <= o[i] BY <2>1, <1>1
    <3>2. n \in 1 .. n BY <1>1
    <3> QED BY <3>1, <3>2, <2>1, <1>1, <1>2 DEF l
  <2>4. a * b = c
    <3>1. o[i] - o[h] \in Nat /\ l - o[i] \in Nat /\ (o[i] - o[h]) + (l - o[i]) = l - o[h] BY <2>3
    <3> QED BY <3>1, PowersMultiply
  <2>5. N[i] = (x + 1) * a
    <3>1. N[i] = (N[i - 1] + 1) * Power[o[i] - o[i - 1]] BY <2>1, <1>6
    <3> QED BY <2>1, <3>1
  <2>6. a \in Nat /\ b \in Nat /\ c \in Nat /\ x \in Nat
    <3>1. o[i] - o[h] \in Nat BY <2>3
    <3> QED BY <3>1, <2>1, <1>3, <1>6, PowersAre
  <2>7. f[h] = f[k] + c BY <2>1, <1>8
  <2> HIDE DEF x, a, b, c
  <2>8. ((x + 1) * a) * b = (x + 1) * c
    <3>1. x + 1 \in Int BY <2>6
    <3>2. ((x + 1) * a) * b = (x + 1) * (a * b) BY <3>1, <2>6, TimesAssociates
    <3> QED BY <3>2, <2>4
  <2>9. (x + 1) * c = x * c + c
    <3>1. (x + 1) * c = x * c + 1 * c /\ 1 * c = c BY <2>6, Distribute
    <3> QED BY <3>1
  <2>10. N[i] * b = f[h] BY <2>2, <2>5, <2>7, <2>8, <2>9
  <2> QED BY <2>10 DEF i, h, b
<1>11. Nat \subseteq T
  <2> HIDE DEF T
  <2> QED BY <1>9, <1>10, Inductive
<1>12. \A k \in 1 .. n : N[k] * W(k) = f[k - 1]
  <2> SUFFICES ASSUME NEW k \in 1 .. n PROVE N[k] * W(k) = f[k - 1] OBVIOUS
  <2>1. k - 1 \in Nat /\ (k - 1) + 1 = k OBVIOUS
  <2>2. k - 1 \in T BY <2>1, <1>11
  <2> QED BY <2>1, <2>2
<1>13. Spans(o, f) BY <1>5, <1>7, <1>8, <1>12 DEF Spans, n, l, N
<1> QED BY <1>13

\* Every number of the bits of the longest begins with exactly one code.
LEMMA SpansAre ==
  ASSUME NEW o, Ascending(o), NEW f, Spans(o, f)
  PROVE  LET l == o[Len(o)] IN
         /\ l \in Nat \ {0}
         /\ \A k \in 1 .. Len(o) : o[k] \in 1 .. l /\ f[k - 1] \in 0 .. Power[l] - 1 /\ Digits(l, f[k - 1], o[k]) = Numbers(o)[k]
         /\ \A x \in 0 .. Power[l] - 1 : \E k \in 1 .. Len(o) : Digits(l, x, o[k]) = Numbers(o)[k]
         /\ \A x \in 0 .. Power[l] - 1 : \A k, h \in 1 .. Len(o) :
              Digits(l, x, o[k]) = Numbers(o)[k] /\ Digits(l, x, o[h]) = Numbers(o)[h] => k = h
<1> DEFINE n == Len(o)
           l == o[n]
           N == Numbers(o)
           W(k) == Power[l - o[k]]
<1>1. /\ n \in Nat \ {0} /\ DOMAIN o = 1 .. n
      /\ \A k \in 1 .. n : o[k] \in Nat \ {0}
  BY DEF Ascending
<1>2. \A k \in 1 .. n : o[k] \in 1 .. l BY LongestIsLast
<1>3. l \in Nat \ {0}
  <2>1. n \in 1 .. n BY <1>1
  <2> QED BY <2>1, <1>1
<1>4. \A k \in 1 .. n : N[k] \in Nat BY NumbersAre
<1>5. /\ f \in [0 .. n -> Nat] /\ f[0] = 0 /\ f[n] = Power[l]
      /\ \A k \in 1 .. n : f[k] = f[k - 1] + W(k) /\ N[k] * W(k) = f[k - 1]
  BY DEF Spans
<1>6. \A k \in 1 .. n : W(k) \in Nat \ {0}
  <2> SUFFICES ASSUME NEW k \in 1 .. n PROVE W(k) \in Nat \ {0} OBVIOUS
  <2> HIDE DEF l
  <2>1. l - o[k] \in Nat BY <1>2, <1>3
  <2> QED BY <2>1, PowersAre
<1> HIDE DEF n, l, N
<1>7. \A i, j \in 0 .. n : i < j => f[i] < f[j]
  <2> DEFINE z == 0
  <2>1. \A i \in z + 1 .. n : f[i - 1] < f[i]
    <3> SUFFICES ASSUME NEW i \in 1 .. n PROVE f[i - 1] < f[i] OBVIOUS
    <3>1. i - 1 \in 0 .. n /\ i \in 0 .. n BY <1>1
    <3>2. f[i - 1] \in Nat /\ f[i] \in Nat BY <3>1, <1>5
    <3>3. f[i] = f[i - 1] + W(i) /\ W(i) \in Nat \ {0} BY <1>5, <1>6
    <3> HIDE DEF W
    <3> QED BY <3>2, <3>3
  <2>2. z \in Nat /\ n \in Nat /\ f \in [z .. n -> Nat] BY <1>1, <1>5
  <2> HIDE DEF z
  <2>3. \A i, j \in z .. n : i < j => f[i] < f[j] BY <2>1, <2>2, SumsRise
  <2> QED BY <2>3 DEF z
<1>8. ASSUME NEW x \in 0 .. Power[l] - 1, NEW k \in 1 .. n
      PROVE  Digits(l, x, o[k]) = N[k] <=> f[k - 1] <= x /\ x < f[k]
  <2>1. o[k] \in 0 .. l /\ N[k] \in Nat /\ l \in Nat BY <1>2, <1>3, <1>4
  <2>2. Digits(l, x, o[k]) = N[k] <=> N[k] * W(k) <= x /\ x < (N[k] + 1) * W(k) BY <2>1, DigitsAre
  <2>3. (N[k] + 1) * W(k) = N[k] * W(k) + W(k)
    <3>1. W(k) \in Int BY <1>6
    <3> HIDE DEF W
    <3>2. (N[k] + 1) * W(k) = N[k] * W(k) + 1 * W(k) /\ 1 * W(k) = W(k) BY <2>1, <3>1, Distribute
    <3> QED BY <3>2
  <2>4. N[k] * W(k) = f[k - 1] /\ f[k] = f[k - 1] + W(k) BY <1>5
  <2> HIDE DEF W
  <2> QED BY <2>2, <2>3, <2>4
<1>9. ASSUME NEW k \in 1 .. n
      PROVE  o[k] \in 1 .. l /\ f[k - 1] \in 0 .. Power[l] - 1 /\ Digits(l, f[k - 1], o[k]) = N[k]
  <2>1. k - 1 \in 0 .. n /\ k \in 0 .. n /\ k - 1 < n /\ n \in 0 .. n /\ k - 1 < k BY <1>1
  <2>2. f[k - 1] < f[n] /\ f[k - 1] < f[k] /\ f[k - 1] \in Nat BY <2>1, <1>5, <1>7
  <2>3. Power[l] \in Nat BY <1>3, PowersAre
  <2>4. f[k - 1] \in 0 .. Power[l] - 1 BY <2>2, <2>3, <1>5
  <2>5. f[k - 1] <= f[k - 1] BY <2>2
  <2> QED BY <1>2, <1>8, <2>2, <2>4, <2>5
<1>10. ASSUME NEW x \in 0 .. Power[l] - 1 PROVE \E k \in 1 .. n : Digits(l, x, o[k]) = N[k]
  <2> DEFINE T == {k \in Nat : k <= n /\ x < f[k]}
  <2>1. Power[l] \in Nat BY <1>3, PowersAre
  <2>2. n \in T
    <3>1. x < Power[l] BY <2>1
    <3> QED BY <3>1, <1>1, <1>5
  <2>3. PICK k \in T : \A m \in T : k <= m
    <3>1. T # {} /\ T \subseteq Nat BY <2>2
    <3> HIDE DEF T
    <3> QED BY <3>1, LeastNatural
  <2>4. k \in Nat /\ k <= n /\ x < f[k] BY <2>3
  <2>5. k # 0
    <3> SUFFICES ASSUME k = 0 PROVE FALSE OBVIOUS
    <3>1. x < 0 BY <2>4, <1>5
    <3> QED BY <3>1, <2>1
  <2>6. k \in 1 .. n /\ k - 1 \in Nat /\ k - 1 <= n /\ ~(k <= k - 1) /\ k - 1 \in 0 .. n BY <2>4, <2>5, <1>1
  <2>7. k - 1 \notin T BY <2>3, <2>6
  <2>8. ~(x < f[k - 1]) BY <2>6, <2>7
  <2>9. f[k - 1] \in Nat /\ x \in Nat BY <2>1, <2>6, <1>5
  <2>10. f[k - 1] <= x BY <2>8, <2>9
  <2>11. Digits(l, x, o[k]) = N[k] BY <1>8, <2>4, <2>6, <2>10
  <2> QED BY <2>6, <2>11
<1>11. ASSUME NEW x \in 0 .. Power[l] - 1, NEW k \in 1 .. n, NEW h \in 1 .. n,
              f[k - 1] <= x, x < f[k], f[h - 1] <= x, x < f[h], k < h
       PROVE  FALSE
  <2>1. Power[l] \in Nat BY <1>3, PowersAre
  <2>2. k \in 0 .. n /\ h - 1 \in 0 .. n /\ k <= h - 1 BY <1>1, <1>11
  <2>3. k = h - 1 \/ k < h - 1 BY <2>2
  <2>4. f[k] <= f[h - 1]
    <3>1. f[k] \in Nat /\ f[h - 1] \in Nat BY <2>2, <1>5
    <3>2. CASE k = h - 1 BY <3>1, <3>2
    <3>3. CASE k < h - 1
      <4>1. f[k] < f[h - 1] BY <3>3, <2>2, <1>7
      <4> QED BY <4>1, <3>1
    <3> QED BY <2>3, <3>2, <3>3
  <2>5. f[k] \in Nat /\ f[h - 1] \in Nat /\ x \in Nat BY <2>1, <2>2, <1>5
  <2> QED BY <2>4, <2>5, <1>11
<1>12. ASSUME NEW x \in 0 .. Power[l] - 1, NEW k \in 1 .. n, NEW h \in 1 .. n,
              Digits(l, x, o[k]) = N[k], Digits(l, x, o[h]) = N[h]
       PROVE  k = h
  <2>1. f[k - 1] <= x /\ x < f[k] /\ f[h - 1] <= x /\ x < f[h] BY <1>8, <1>12
  <2>2. ~(k < h) /\ ~(h < k) BY <2>1, <1>11
  <2> QED BY <2>2, <1>1
<1> QED BY <1>3, <1>9, <1>10, <1>12 DEF n, l, N

\* Bit j of code k.
Bit(o, k, j) == (Numbers(o)[k] \div Power[o[k] - j]) % 2

\* A bit of a canonical code is that bit of the number its span begins with.
LEMMA BitIs ==
  ASSUME NEW o, Ascending(o), NEW f, Spans(o, f), NEW k \in 1 .. Len(o), NEW j \in 1 .. o[k]
  PROVE  Bit(o, k, j) = Digits(o[Len(o)], f[k - 1], j) % 2
<1> DEFINE l == o[Len(o)]
           a == Power[o[k] - j]
           c == Power[l - o[k]]
           x == Numbers(o)[k]
<1>1. l \in Nat /\ o[k] \in 1 .. l BY SpansAre
<1>2. x \in Nat BY NumbersAre
<1>3. x * c = f[k - 1] BY DEF Spans
<1> HIDE DEF l, x
<1>4. o[k] - j \in Nat /\ l - o[k] \in Nat /\ (o[k] - j) + (l - o[k]) = l - j BY <1>1
<1>5. a * c = Power[l - j] /\ a \in Nat \ {0} /\ c \in Nat \ {0}
  <2>1. Power[(o[k] - j) + (l - o[k])] = a * c BY <1>4, PowersMultiply
  <2> QED BY <1>4, <2>1, PowersAre
<1> HIDE DEF a, c
<1>6. (x * c) \div (a * c) = x \div a BY <1>2, <1>5, DivScaled
<1>7. Digits(l, f[k - 1], j) = x \div a BY <1>3, <1>5, <1>6 DEF Digits
<1> QED BY <1>7 DEF Bit, a, x, l

\* No code begins another one, and behind every beginning of a code both bits lead on.
LEMMA CanonicalBits ==
  ASSUME NEW o, Ascending(o)
  PROVE  /\ \A k \in 1 .. Len(o) : \A j \in 1 .. o[k] : Bit(o, k, j) \in {0, 1}
         /\ \A k, h \in 1 .. Len(o) :
              o[k] <= o[h] /\ (\A j \in 1 .. o[k] : Bit(o, k, j) = Bit(o, h, j)) => k = h
         /\ \A k \in 1 .. Len(o) : \A j \in 0 .. o[k] - 1 : \A b \in {0, 1} : \E h \in 1 .. Len(o) :
              j + 1 <= o[h] /\ Bit(o, h, j + 1) = b /\ \A i \in 1 .. j : Bit(o, h, i) = Bit(o, k, i)
<1> DEFINE n == Len(o)
           l == o[n]
           N == Numbers(o)
<1>1. PICK f : Spans(o, f) BY SpansExist
<1> DEFINE S(k) == f[k - 1]
<1>2. /\ l \in Nat \ {0}
      /\ \A k \in 1 .. n : o[k] \in 1 .. l /\ S(k) \in 0 .. Power[l] - 1 /\ Digits(l, S(k), o[k]) = N[k]
      /\ \A x \in 0 .. Power[l] - 1 : \E k \in 1 .. n : Digits(l, x, o[k]) = N[k]
      /\ \A x \in 0 .. Power[l] - 1 : \A k, h \in 1 .. n :
           Digits(l, x, o[k]) = N[k] /\ Digits(l, x, o[h]) = N[h] => k = h
  BY <1>1, SpansAre
<1>3. \A k \in 1 .. n : \A j \in 1 .. o[k] : Bit(o, k, j) = Digits(l, S(k), j) % 2 BY <1>1, BitIs
<1> HIDE DEF n, l, N, S
<1>4. ASSUME NEW k \in 1 .. n, NEW j \in 1 .. o[k] PROVE Bit(o, k, j) \in {0, 1}
  <2>1. j \in 0 .. l /\ l \in Nat /\ S(k) \in 0 .. Power[l] - 1 /\ o[k] \in 1 .. l BY <1>2
  <2> DEFINE d == Digits(l, S(k), j)
  <2>2. d \in Nat BY <2>1, DigitsAre
  <2>3. Bit(o, k, j) = d % 2 BY <1>3
  <2> HIDE DEF d
  <2> QED BY <2>2, <2>3
<1>5. ASSUME NEW k \in 1 .. n, NEW h \in 1 .. n, o[k] <= o[h], \A j \in 1 .. o[k] : Bit(o, k, j) = Bit(o, h, j)
      PROVE  k = h
  <2> DEFINE x == S(k)
             y == S(h)
             e == o[k]
  <2>1. l \in Nat /\ x \in 0 .. Power[l] - 1 /\ y \in 0 .. Power[l] - 1 /\ e \in 0 .. l /\ o[h] \in 1 .. l /\ o[k] \in 1 .. l
    BY <1>2
  <2>2. \A i \in 1 .. e : Digits(l, x, i) % 2 = Digits(l, y, i) % 2
    <3> SUFFICES ASSUME NEW i \in 1 .. e PROVE Digits(l, x, i) % 2 = Digits(l, y, i) % 2 OBVIOUS
    <3>1. i \in 1 .. o[k] /\ i \in 1 .. o[h] BY <2>1, <1>5
    <3> QED BY <3>1, <1>3, <1>5
  <2>3. Digits(l, x, e) = N[k] /\ Digits(l, y, o[h]) = N[h] BY <1>2
  <2> HIDE DEF x, y, e
  <2>4. Digits(l, x, e) = Digits(l, y, e) BY <2>1, <2>2, DigitsAgree
  <2>5. Digits(l, y, o[k]) = N[k] BY <2>3, <2>4 DEF e
  <2> QED BY <2>1, <2>3, <2>5, <1>2
<1>6. ASSUME NEW k \in 1 .. n, NEW j \in 0 .. o[k] - 1, NEW b \in {0, 1}
      PROVE  \E h \in 1 .. n :
               j + 1 <= o[h] /\ Bit(o, h, j + 1) = b /\ \A i \in 1 .. j : Bit(o, h, i) = Bit(o, k, i)
  <2> DEFINE y == S(k)
             d == Digits(l, y, j)
             q == Power[l - (j + 1)]
             v == 2 * d + b
             x == v * q
  <2>1. o[k] \in 1 .. l /\ y \in 0 .. Power[l] - 1 /\ l \in Nat /\ Digits(l, y, o[k]) = N[k] BY <1>2
  <2>2. j \in 0 .. l /\ j + 1 \in 0 .. l /\ j \in 0 .. l - 1 /\ l - (j + 1) \in Nat /\ l - j \in Nat BY <2>1
  <2>3. Power[l - j] = 2 * q /\ q \in Nat \ {0} /\ Power[l] = Power[j] * Power[l - j] /\ Power[j] \in Nat
        /\ Power[l] \in Nat
    <3>1. l - j = (l - (j + 1)) + 1 BY <2>1, <2>2
    <3>2. Power[(l - (j + 1)) + 1] = 2 * q BY <2>2, PowersAre
    <3>3. j + (l - j) = l BY <2>1, <2>2
    <3>4. Power[j + (l - j)] = Power[j] * Power[l - j]
      <4> DEFINE g == l - j
      <4>1. g \in Nat /\ j \in Nat BY <2>2
      <4> HIDE DEF g
      <4>2. Power[j + g] = Power[j] * Power[g] BY <4>1, PowersMultiply
      <4> QED BY <4>2 DEF g
    <3> QED BY <2>1, <2>2, <3>1, <3>2, <3>3, <3>4, PowersAre
  <2>4. d \in Nat /\ d * Power[l - j] <= y /\ y < (d + 1) * Power[l - j]
    <3>1. d \in Nat BY <2>1, <2>2, DigitsAre
    <3> HIDE DEF y
    <3>2. \A w \in Nat : Digits(l, y, j) = w <=> w * Power[l - j] <= y /\ y < (w + 1) * Power[l - j]
      BY <2>1, <2>2, DigitsAre
    <3> QED BY <3>1, <3>2
  <2> HIDE DEF y, d, q
  <2>5. d + 1 <= Power[j]
    <3> DEFINE p == Power[l - j]
               r == Power[j]
    <3>1. p \in Nat \ {0} /\ r \in Nat /\ d * p <= y /\ y < r * p /\ y \in Int BY <2>1, <2>3, <2>4
    <3> HIDE DEF p, r
    <3>2. ~(r <= d)
      <4> SUFFICES ASSUME r <= d PROVE FALSE OBVIOUS
      <4>1. r * p <= d * p BY <3>1, <2>4, TimesMonotone
      <4>2. r * p \in Int /\ d * p \in Int BY <3>1, <2>4
      <4> QED BY <4>1, <4>2, <3>1
    <3>3. d + 1 <= r BY <3>1, <3>2, <2>4
    <3> QED BY <3>3 DEF r
  <2>6. v \in Nat /\ x \in Nat /\ x < (v + 1) * q /\ v * q <= x /\ (v + 1) * q <= (d + 1) * (2 * q)
    <3>1. v \in Nat BY <2>4
    <3>2. v + 1 <= 2 * (d + 1) BY <2>4
    <3>3. (v + 1) * q = v * q + q
      <4> HIDE DEF v
      <4>1. (v + 1) * q = v * q + 1 * q /\ 1 * q = q BY <2>3, <3>1, Distribute
      <4> QED BY <4>1
    <3>4. (2 * (d + 1)) * q = (d + 1) * (2 * q)
      <4> DEFINE z == d + 1
      <4>1. z \in Int BY <2>4
      <4> HIDE DEF z
      <4>2. (2 * z) * q = z * (2 * q) BY <2>3, <4>1
      <4> QED BY <4>2 DEF z
    <3>5. (v + 1) * q <= (2 * (d + 1)) * q
      <4> DEFINE z == v + 1
                 u == 2 * (d + 1)
      <4>1. z \in Int /\ u \in Int /\ z <= u /\ q \in Nat BY <2>3, <2>4, <3>1, <3>2
      <4> HIDE DEF z, u
      <4>2. z * q <= u * q BY <4>1, TimesMonotone
      <4> QED BY <4>2 DEF z, u
    <3> HIDE DEF v
    <3>6. v * q \in Nat BY <3>1, <2>3
    <3> QED BY <3>1, <3>3, <3>4, <3>5, <3>6, <2>3
  <2>7. (d + 1) * (2 * q) <= Power[l]
    <3> DEFINE p == 2 * q
               r == Power[j]
               z == d + 1
    <3>1. p \in Nat /\ r \in Int /\ z \in Int /\ z <= r /\ Power[l] = r * p BY <2>3, <2>4, <2>5
    <3> HIDE DEF p, r, z
    <3>2. z * p <= r * p BY <3>1, TimesMonotone
    <3>3. z * p <= Power[l] BY <3>1, <3>2
    <3> QED BY <3>3 DEF z, p
  <2> HIDE DEF x
  <2>8. x \in 0 .. Power[l] - 1
    <3> DEFINE z == (v + 1) * q
               w == (d + 1) * (2 * q)
    <3>1. z \in Int /\ w \in Int BY <2>3, <2>4
    <3>2. x < z /\ z <= w /\ w <= Power[l] BY <2>6, <2>7
    <3> HIDE DEF z, w
    <3> QED BY <3>1, <3>2, <2>3, <2>6
  <2>9. Digits(l, x, j + 1) = v
    <3> HIDE DEF v
    <3>1. \A w \in Nat : Digits(l, x, j + 1) = w <=> w * Power[l - (j + 1)] <= x /\ x < (w + 1) * Power[l - (j + 1)]
      BY <2>1, <2>2, <2>8, DigitsAre
    <3> QED BY <3>1, <2>6 DEF q
  <2>10. Digits(l, x, j) = d /\ Digits(l, x, j + 1) % 2 = b
    <3> DEFINE u == Digits(l, x, j)
    <3>1. u \in Nat /\ Digits(l, x, j + 1) = 2 * u + (Digits(l, x, j + 1) % 2) BY <2>1, <2>2, <2>8, DigitsAre
    <3> HIDE DEF u
    <3>2. 2 * d + b = 2 * u + ((2 * d + b) % 2) BY <3>1, <2>9
    <3>3. d = u /\ (2 * d + b) % 2 = b BY <3>1, <3>2, <2>4
    <3> QED BY <3>3, <2>9 DEF u
  <2>11. PICK h \in 1 .. n : Digits(l, x, o[h]) = N[h] BY <1>2, <2>8
  <2> DEFINE z == S(h)
  <2>12. o[h] \in 1 .. l /\ z \in 0 .. Power[l] - 1 /\ Digits(l, z, o[h]) = N[h] BY <1>2
  <2> HIDE DEF z, v
  <2>13. \A i \in 0 .. j : Digits(l, x, i) = Digits(l, y, i)
    <3>1. Digits(l, x, j) = Digits(l, y, j) BY <2>10 DEF d
    <3> QED BY <3>1, <2>1, <2>2, <2>8, DigitsAgree
  <2>14. \A i \in 0 .. o[h] : Digits(l, x, i) = Digits(l, z, i)
    <3> DEFINE e == o[h]
    <3>1. e \in 0 .. l BY <2>12
    <3>2. Digits(l, x, e) = Digits(l, z, e) BY <2>11, <2>12
    <3> HIDE DEF e
    <3>3. \A i \in 0 .. e : Digits(l, x, i) = Digits(l, z, i) BY <3>1, <3>2, <2>1, <2>8, <2>12, DigitsAgree
    <3> QED BY <3>3 DEF e
  <2>15. j + 1 <= o[h]
    <3> SUFFICES ASSUME o[h] <= j PROVE FALSE BY <2>2, <2>12
    <3>1. o[h] \in 0 .. j BY <2>12
    <3>2. Digits(l, y, o[h]) = N[h] BY <3>1, <2>11, <2>13
    <3>3. h = k BY <3>2, <2>1, <1>2
    <3> QED BY <3>3, <2>1, <2>12
  <2>16. Bit(o, h, j + 1) = b
    <3>1. j + 1 \in 1 .. o[h] /\ j + 1 \in 0 .. o[h] BY <2>2, <2>12, <2>15
    <3>2. Bit(o, h, j + 1) = Digits(l, z, j + 1) % 2 BY <3>1, <1>3 DEF z
    <3> QED BY <3>1, <3>2, <2>10, <2>14
  <2>17. ASSUME NEW i \in 1 .. j PROVE Bit(o, h, i) = Bit(o, k, i)
    <3>1. i \in 1 .. o[h] /\ i \in 0 .. o[h] /\ i \in 1 .. o[k] /\ i \in 0 .. j BY <2>1, <2>12, <2>15
    <3>2. Bit(o, h, i) = Digits(l, z, i) % 2 BY <3>1, <1>3 DEF z
    <3>3. Bit(o, k, i) = Digits(l, y, i) % 2 BY <3>1, <1>3 DEF y
    <3> QED BY <3>1, <3>2, <3>3, <2>13, <2>14
  <2> QED BY <2>15, <2>16, <2>17
<1> QED BY <1>4, <1>5, <1>6 DEF n

----------------------------------------------------------------------------
(* Codes that a full tree may have. *)

\* A symbol is where its position says.
LEMMA PositionsAre ==
  \A s \in Symbols : Position(s) \in 1 .. Len(Order) /\ Order[Position(s)] = s
<1> SUFFICES ASSUME NEW s \in Symbols PROVE Position(s) \in 1 .. Len(Order) /\ Order[Position(s)] = s
  OBVIOUS
<1>1. DOMAIN Order = 1 .. Len(Order) BY SymbolAssumption
<1>2. \E k \in DOMAIN Order : Order[k] = s BY DEF Symbols
<1>3. Position(s) \in DOMAIN Order /\ Order[Position(s)] = s BY <1>2 DEF Position
<1> QED BY <1>1, <1>3

\* v has the first j bits of w, and all of them.
Shares(v, w, j) == j <= Len(w) /\ \A i \in 1 .. j : w[i] = v[i]

\* No code begins another one, and behind every beginning of a code both bits lead on.
FullCode(K) ==
  /\ IsFiniteSet(DOMAIN K) /\ DOMAIN K \subseteq Symbols /\ DOMAIN K # {}
  /\ \A s \in DOMAIN K : K[s] \in Seq({0, 1}) /\ Len(K[s]) \in Nat \ {0}
  /\ \A s, r \in DOMAIN K : Shares(K[s], K[r], Len(K[s])) => s = r
  /\ \A s \in DOMAIN K : \A j \in 0 .. Len(K[s]) - 1 : \A b \in {0, 1} : \E r \in DOMAIN K :
       Shares(K[s], K[r], j) /\ j + 1 <= Len(K[r]) /\ K[r][j + 1] = b

\* Lengths a builder may be given.
Sized(z) ==
  /\ IsFiniteSet(DOMAIN z) /\ DOMAIN z \subseteq Symbols /\ DOMAIN z # {}
  /\ \A s \in DOMAIN z : z[s] \in Nat \ {0}

\* The canonical order lists each symbol once, by length.
LEMMA OrderIs ==
  ASSUME NEW z, Sized(z)
  PROVE  LET o == CanonicalOrder(z)
             n == Cardinality(DOMAIN z)
         IN /\ n \in Nat \ {0} /\ DOMAIN o = 1 .. n
            /\ \A k \in 1 .. n : o[k] \in DOMAIN z
            /\ \A s \in DOMAIN z : \E k \in 1 .. n : o[k] = s
            /\ \A k, h \in 1 .. n : o[k] = o[h] => k = h
            /\ \A k \in 2 .. n : z[o[k - 1]] <= z[o[k]]
<1> DEFINE D == DOMAIN z
           R == {p \in D \X D : \/ z[p[1]] < z[p[2]]
                                \/ z[p[1]] = z[p[2]] /\ Before(p[1], p[2])}
           n == Cardinality(D)
           o == Sorted(D, R)
<1>1. IsFiniteSet(D) /\ D \subseteq Symbols /\ D # {} /\ \A s \in D : z[s] \in Nat \ {0} BY DEF Sized
<1>2. CanonicalOrder(z) = o BY DEF CanonicalOrder
<1>3. \A s \in D : Position(s) \in Nat /\ Order[Position(s)] = s BY <1>1, PositionsAre, SymbolsAreFew
<1>4. \A s, r \in D : <<s, r>> \in R <=> z[s] < z[r] \/ (z[s] = z[r] /\ Position(s) < Position(r))
  <2> HIDE DEF D
  <2> QED BY DEF Before
<1> HIDE DEF D, R
<1>5. StrictOrder(D, R)
  <2>1. \A x \in D : <<x, x>> \notin R BY <1>1, <1>3, <1>4
  <2>2. ASSUME NEW x \in D, NEW y \in D, x # y PROVE <<x, y>> \in R \/ <<y, x>> \in R
    <3>1. Position(x) # Position(y) BY <1>3, <2>2
    <3>2. z[x] \in Nat /\ z[y] \in Nat /\ Position(x) \in Nat /\ Position(y) \in Nat BY <1>1, <1>3
    <3> QED BY <3>1, <3>2, <1>4
  <2>3. ASSUME NEW x \in D, NEW y \in D, NEW w \in D, <<x, y>> \in R, <<y, w>> \in R PROVE <<x, w>> \in R
    <3>1. z[x] \in Nat /\ z[y] \in Nat /\ z[w] \in Nat BY <1>1
    <3>2. Position(x) \in Nat /\ Position(y) \in Nat /\ Position(w) \in Nat BY <1>3
    <3> QED BY <3>1, <3>2, <1>4, <2>3
  <2> QED BY <2>1, <2>2, <2>3 DEF StrictOrder
<1>6. /\ n \in Nat
      /\ \A x, y \in D : <<x, y>> \in R <=> Place(D, x, R) < Place(D, y, R)
  BY <1>1, <1>5, Places
<1>7. /\ DOMAIN o = 1 .. n
      /\ \A k \in 1 .. n : o[k] \in D /\ Place(D, o[k], R) = k - 1
      /\ \A x \in D : Place(D, x, R) + 1 \in 1 .. n /\ o[Place(D, x, R) + 1] = x
  <2>1. IsFiniteSet(D) /\ StrictOrder(D, R) BY <1>1, <1>5
  <2> QED BY <2>1, SortedIs, Zenon
<1>8. n # 0 BY <1>1, FS_EmptySet
<1> HIDE DEF o, n
<1>9. \A k, h \in 1 .. n : o[k] = o[h] => k = h
  <2> SUFFICES ASSUME NEW k \in 1 .. n, NEW h \in 1 .. n, o[k] = o[h] PROVE k = h OBVIOUS
  <2>1. k - 1 = h - 1 BY <1>7
  <2> QED BY <2>1
<1>10. ASSUME NEW k \in 2 .. n PROVE z[o[k - 1]] <= z[o[k]]
  <2> DEFINE i == k - 1
  <2>1. i \in 1 .. n /\ k \in 1 .. n /\ i - 1 < k - 1 BY <1>6
  <2> HIDE DEF i
  <2>2. o[i] \in D /\ o[k] \in D /\ Place(D, o[i], R) < Place(D, o[k], R) BY <1>7, <2>1
  <2>3. <<o[i], o[k]>> \in R BY <1>6, <2>2
  <2>4. z[o[i]] \in Nat /\ z[o[k]] \in Nat BY <1>1, <2>2
  <2>5. z[o[i]] <= z[o[k]] BY <1>4, <2>2, <2>3, <2>4
  <2> QED BY <2>5 DEF i
<1> QED BY <1>2, <1>6, <1>7, <1>8, <1>9, <1>10 DEF D, n

\* Lengths that satisfy Kraft's equality are the lengths of a full prefix code, the canonical one.
LEMMA CanonicalIsFull ==
  ASSUME NEW z, Sized(z), Kraft(InOrder(z))
  PROVE  /\ FullCode(CanonicalCodes(z)) /\ DOMAIN CanonicalCodes(z) = DOMAIN z
         /\ \A s \in DOMAIN z : Len(CanonicalCodes(z)[s]) = z[s]
<1> DEFINE D == DOMAIN z
           O == CanonicalOrder(z)
           n == Cardinality(D)
           o == InOrder(z)
           K == CanonicalCodes(z)
           At(s) == CHOOSE k \in DOMAIN O : O[k] = s
<1>1. IsFiniteSet(D) /\ D \subseteq Symbols /\ D # {} /\ \A s \in D : z[s] \in Nat \ {0} BY DEF Sized
<1>2. /\ n \in Nat \ {0} /\ DOMAIN O = 1 .. n
      /\ \A k \in 1 .. n : O[k] \in D
      /\ \A s \in D : \E k \in 1 .. n : O[k] = s
      /\ \A k, h \in 1 .. n : O[k] = O[h] => k = h
      /\ \A k \in 2 .. n : z[O[k - 1]] <= z[O[k]]
  BY OrderIs
<1>3. o = [k \in DOMAIN O |-> z[O[k]]] BY DEF InOrder
<1>4. K = [s \in D |-> [j \in 1 .. z[s] |-> (Numbers(o)[At(s)] \div Power[z[s] - j]) % 2]]
  BY DEF CanonicalCodes
<1> HIDE DEF D, O, n, o, K
<1>5. DOMAIN o = 1 .. n /\ Len(o) = n /\ \A k \in 1 .. n : o[k] = z[O[k]] BY <1>2, <1>3
<1>6. Ascending(o)
  <2>1. \A k \in 1 .. n : o[k] \in Nat \ {0} BY <1>1, <1>2, <1>5
  <2>2. ASSUME NEW k \in 2 .. n PROVE o[k - 1] <= o[k]
    <3> DEFINE i == k - 1
    <3>1. i \in 1 .. n /\ k \in 1 .. n BY <1>2
    <3>2. z[O[i]] <= z[O[k]] BY <1>2
    <3> HIDE DEF i
    <3>3. o[i] <= o[k] BY <3>1, <3>2, <1>5
    <3> QED BY <3>3 DEF i
  <2>3. Kraft(o) BY DEF o
  <2> QED BY <2>1, <2>2, <2>3, <1>2, <1>5 DEF Ascending
<1>7. \A s \in D : At(s) \in 1 .. n /\ O[At(s)] = s /\ o[At(s)] = z[s]
  <2> SUFFICES ASSUME NEW s \in D PROVE At(s) \in 1 .. n /\ O[At(s)] = s /\ o[At(s)] = z[s] OBVIOUS
  <2>1. \E k \in DOMAIN O : O[k] = s BY <1>2
  <2>2. At(s) \in DOMAIN O /\ O[At(s)] = s BY <2>1
  <2> HIDE DEF At
  <2> QED BY <2>2, <1>2, <1>5
<1>8. \A k \in 1 .. n : At(O[k]) = k
  <2> SUFFICES ASSUME NEW k \in 1 .. n PROVE At(O[k]) = k OBVIOUS
  <2>1. At(O[k]) \in 1 .. n /\ O[At(O[k])] = O[k] BY <1>2, <1>7
  <2> HIDE DEF At
  <2> QED BY <2>1, <1>2
<1> HIDE DEF At
<1>9. /\ \A k \in 1 .. n : \A j \in 1 .. o[k] : Bit(o, k, j) \in {0, 1}
      /\ \A k, h \in 1 .. n :
           o[k] <= o[h] /\ (\A j \in 1 .. o[k] : Bit(o, k, j) = Bit(o, h, j)) => k = h
      /\ \A k \in 1 .. n : \A j \in 0 .. o[k] - 1 : \A b \in {0, 1} : \E h \in 1 .. n :
           j + 1 <= o[h] /\ Bit(o, h, j + 1) = b /\ \A i \in 1 .. j : Bit(o, h, i) = Bit(o, k, i)
  <2>1. n = Len(o) BY <1>5
  <2> HIDE DEF n
  <2> QED BY <2>1, <1>6, CanonicalBits
<1>10. ASSUME NEW s \in D
       PROVE  /\ K[s] \in Seq({0, 1}) /\ Len(K[s]) = z[s] /\ z[s] \in Nat \ {0}
              /\ \A j \in 1 .. z[s] : K[s][j] = Bit(o, At(s), j)
  <2> DEFINE m == z[s]
             f == [j \in 1 .. m |-> Bit(o, At(s), j)]
  <2>1. m \in Nat \ {0} /\ o[At(s)] = m /\ At(s) \in 1 .. n BY <1>1, <1>7
  <2>2. K[s] = f
    <3>1. K[s] = [j \in 1 .. z[s] |-> (Numbers(o)[At(s)] \div Power[z[s] - j]) % 2] BY <1>4
    <3>2. \A j \in 1 .. z[s] : Bit(o, At(s), j) = (Numbers(o)[At(s)] \div Power[z[s] - j]) % 2 BY <2>1 DEF Bit
    <3> QED BY <3>1, <3>2
  <2>3. \A j \in 1 .. m : Bit(o, At(s), j) \in {0, 1} BY <2>1, <1>9
  <2> HIDE DEF m
  <2>4. f \in Seq({0, 1}) /\ Len(f) = m /\ \A j \in 1 .. m : f[j] = Bit(o, At(s), j) BY <2>1, <2>3
  <2> HIDE DEF f
  <2> QED BY <2>1, <2>2, <2>4 DEF m
<1>11. DOMAIN K = D BY <1>4
<1>12. ASSUME NEW s \in D, NEW r \in D, Shares(K[s], K[r], Len(K[s])) PROVE s = r
  <2>1. Len(K[s]) = o[At(s)] /\ Len(K[r]) = o[At(r)] /\ At(s) \in 1 .. n /\ At(r) \in 1 .. n
        /\ o[At(s)] = z[s] /\ o[At(r)] = z[r] /\ z[s] \in Nat /\ z[r] \in Nat
    BY <1>7, <1>10
  <2>2. z[s] <= z[r] /\ \A i \in 1 .. z[s] : K[r][i] = K[s][i] BY <2>1, <1>12 DEF Shares
  <2>3. \A j \in 1 .. z[s] : Bit(o, At(s), j) = Bit(o, At(r), j)
    <3> SUFFICES ASSUME NEW j \in 1 .. z[s] PROVE Bit(o, At(s), j) = Bit(o, At(r), j) OBVIOUS
    <3>1. j \in 1 .. z[r] BY <2>1, <2>2
    <3> QED BY <3>1, <2>2, <1>10
  <2>4. At(s) = At(r) BY <2>1, <2>2, <2>3, <1>9
  <2> QED BY <2>4, <1>7
<1>13. ASSUME NEW s \in D, NEW j \in 0 .. Len(K[s]) - 1, NEW b \in {0, 1}
       PROVE  \E r \in D : Shares(K[s], K[r], j) /\ j + 1 <= Len(K[r]) /\ K[r][j + 1] = b
  <2>1. At(s) \in 1 .. n /\ o[At(s)] = z[s] /\ z[s] \in Nat /\ Len(K[s]) = z[s] BY <1>7, <1>10
  <2>2. j \in 0 .. o[At(s)] - 1 BY <2>1
  <2>3. PICK h \in 1 .. n :
          j + 1 <= o[h] /\ Bit(o, h, j + 1) = b /\ \A i \in 1 .. j : Bit(o, h, i) = Bit(o, At(s), i)
    BY <2>1, <2>2, <1>9
  <2> DEFINE r == O[h]
  <2>4. r \in D /\ At(r) = h /\ z[r] = o[h] BY <1>2, <1>5, <1>8
  <2> HIDE DEF r
  <2>5. z[r] \in Nat /\ Len(K[r]) = z[r] /\ \A i \in 1 .. z[r] : K[r][i] = Bit(o, h, i) BY <2>4, <1>10
  <2>6. j \in Nat /\ j + 1 <= z[r] /\ j + 1 \in 1 .. z[r] /\ j <= z[r] /\ j < z[s] BY <2>1, <2>3, <2>4, <2>5
  <2>7. K[r][j + 1] = b BY <2>3, <2>5, <2>6
  <2>8. \A i \in 1 .. j : K[r][i] = K[s][i]
    <3> SUFFICES ASSUME NEW i \in 1 .. j PROVE K[r][i] = K[s][i] OBVIOUS
    <3>1. i \in 1 .. z[r] /\ i \in 1 .. z[s] BY <2>1, <2>5, <2>6
    <3>2. K[s][i] = Bit(o, At(s), i) BY <3>1, <1>10
    <3>3. K[r][i] = Bit(o, h, i) BY <3>1, <2>5
    <3> QED BY <3>2, <3>3, <2>3
  <2>9. Shares(K[s], K[r], j) BY <2>5, <2>6, <2>8 DEF Shares
  <2> QED BY <2>4, <2>5, <2>6, <2>7, <2>9
<1>14. FullCode(K)
  <2> DEFINE E == DOMAIN K
  <2>1. E = D BY <1>11
  <2>2. IsFiniteSet(E) /\ E \subseteq Symbols /\ E # {} BY <2>1, <1>1
  <2>3. \A s \in E : K[s] \in Seq({0, 1}) /\ Len(K[s]) \in Nat \ {0} BY <2>1, <1>10
  <2>4. \A s, r \in E : Shares(K[s], K[r], Len(K[s])) => s = r BY <2>1, <1>12
  <2>5. \A s \in E : \A j \in 0 .. Len(K[s]) - 1 : \A b \in {0, 1} : \E r \in E :
          Shares(K[s], K[r], j) /\ j + 1 <= Len(K[r]) /\ K[r][j + 1] = b
    BY <2>1, <1>13
  <2> QED BY <2>2, <2>3, <2>4, <2>5, Zenon DEF FullCode
<1> QED BY <1>10, <1>11, <1>14 DEF D, K

\* The values of a function on a finite set are finitely many.
LEMMA ImageIsFinite ==
  ASSUME NEW S, IsFiniteSet(S), NEW f
  PROVE  IsFiniteSet({f[x] : x \in S})
<1> DEFINE T == {f[x] : x \in S}
           g == [x \in S |-> f[x]]
<1>1. g \in [S -> T] /\ \A y \in T : \E x \in S : g[x] = y OBVIOUS
<1> HIDE DEF T, g
<1>2. g \in Surjection(S, T) BY <1>1 DEF Surjection
<1>3. IsFiniteSet(T) BY <1>2, FS_Surjection
<1> QED BY <1>3 DEF T

\* The inner nodes are the beginnings of codes.
LEMMA InnerIs ==
  ASSUME NEW K, FullCode(K)
  PROVE  /\ IsFiniteSet(Inner(K)) /\ <<>> \in Inner(K)
         /\ \A p \in Inner(K) : p \in Seq({0, 1}) /\ Len(p) \in Nat
         /\ \A p \in Inner(K) : \E s \in DOMAIN K : Len(p) < Len(K[s]) /\ p = SubSeq(K[s], 1, Len(p))
         /\ \A s \in DOMAIN K : \A j \in 0 .. Len(K[s]) - 1 : SubSeq(K[s], 1, j) \in Inner(K)
<1> DEFINE D == DOMAIN K
           F == [s \in D |-> {SubSeq(K[s], 1, k) : k \in 0 .. Len(K[s]) - 1}]
           G == {F[s] : s \in D}
<1>1. /\ IsFiniteSet(D) /\ D # {}
      /\ \A s \in D : K[s] \in Seq({0, 1}) /\ Len(K[s]) \in Nat \ {0}
  BY DEF FullCode
<1>2. Inner(K) = UNION G
  <2> DEFINE T(s) == {SubSeq(K[s], 1, k) : k \in 0 .. Len(K[s]) - 1}
  <2>1. Inner(K) = UNION {T(s) : s \in D} BY DEF Inner
  <2>2. \A s \in D : F[s] = T(s) OBVIOUS
  <2> HIDE DEF D, F, T
  <2>3. \A p : p \in UNION G <=> \E s \in D : p \in F[s] OBVIOUS
  <2>4. \A p : p \in Inner(K) <=> \E s \in D : p \in T(s)
    <3> HIDE DEF G
    <3> QED BY <2>1
  <2> HIDE DEF G
  <2>5. \A p : p \in Inner(K) <=> p \in UNION G BY <2>2, <2>3, <2>4
  <2> QED BY <2>5
<1>3. \A s \in D : \A p : p \in F[s] <=> \E k \in 0 .. Len(K[s]) - 1 : p = SubSeq(K[s], 1, k) OBVIOUS
<1>4. ASSUME NEW s \in D PROVE IsFiniteSet(F[s])
  <2> DEFINE S == 0 .. Len(K[s]) - 1
             f == [k \in S |-> SubSeq(K[s], 1, k)]
             T == {f[k] : k \in S}
  <2>1. IsFiniteSet(S)
    <3>1. 0 \in Int /\ Len(K[s]) - 1 \in Int BY <1>1
    <3> QED BY <3>1, FS_Interval
  <2>2. F[s] = T OBVIOUS
  <2> HIDE DEF S, f
  <2>3. IsFiniteSet(T) BY <2>1, ImageIsFinite
  <2> QED BY <2>2, <2>3
<1> HIDE DEF D, F
<1>5. IsFiniteSet(Inner(K))
  <2>1. IsFiniteSet(G) BY <1>1, ImageIsFinite
  <2>2. \A T \in G : IsFiniteSet(T) BY <1>4
  <2> HIDE DEF G
  <2>3. IsFiniteSet(UNION G) BY <2>1, <2>2, FS_UNION
  <2> QED BY <2>3, <1>2
<1>6. \A p : p \in Inner(K) <=> \E s \in D : \E k \in 0 .. Len(K[s]) - 1 : p = SubSeq(K[s], 1, k)
  <2> SUFFICES ASSUME NEW p
               PROVE  p \in Inner(K) <=> \E s \in D : \E k \in 0 .. Len(K[s]) - 1 : p = SubSeq(K[s], 1, k)
    OBVIOUS
  <2> DEFINE Q(s) == \E k \in 0 .. Len(K[s]) - 1 : p = SubSeq(K[s], 1, k)
  <2>1. p \in UNION G <=> \E s \in D : p \in F[s] OBVIOUS
  <2>2. \A s \in D : p \in F[s] <=> Q(s) BY <1>3
  <2> HIDE DEF G, Q
  <2>3. p \in Inner(K) <=> \E s \in D : Q(s) BY <2>1, <2>2, <1>2
  <2> QED BY <2>3 DEF Q
<1> HIDE DEF G
<1>7. \A p \in Inner(K) : /\ p \in Seq({0, 1}) /\ Len(p) \in Nat
                          /\ \E s \in D : Len(p) < Len(K[s]) /\ p = SubSeq(K[s], 1, Len(p))
  <2> SUFFICES ASSUME NEW p \in Inner(K)
               PROVE  /\ p \in Seq({0, 1}) /\ Len(p) \in Nat
                      /\ \E s \in D : Len(p) < Len(K[s]) /\ p = SubSeq(K[s], 1, Len(p))
    OBVIOUS
  <2>1. PICK s \in D : \E k \in 0 .. Len(K[s]) - 1 : p = SubSeq(K[s], 1, k) BY <1>6
  <2>2. PICK k \in 0 .. Len(K[s]) - 1 : p = SubSeq(K[s], 1, k) BY <2>1
  <2>3. K[s] \in Seq({0, 1}) /\ Len(K[s]) \in Nat /\ k \in 0 .. Len(K[s]) /\ k < Len(K[s]) /\ k \in Nat BY <1>1
  <2>4. p \in Seq({0, 1}) /\ Len(p) = k BY <2>2, <2>3, Beginnings
  <2> QED BY <2>2, <2>3, <2>4
<1>8. \A s \in D : \A j \in 0 .. Len(K[s]) - 1 : SubSeq(K[s], 1, j) \in Inner(K) BY <1>6
<1>9. <<>> \in Inner(K)
  <2>1. PICK s \in D : TRUE BY <1>1
  <2> DEFINE u == K[s]
  <2>2. u \in Seq({0, 1}) /\ Len(u) \in Nat \ {0} BY <1>1
  <2>3. SubSeq(u, 1, 0) \in Inner(K)
    <3>1. 0 \in 0 .. Len(u) - 1 BY <2>2
    <3> QED BY <3>1, <1>8
  <2> HIDE DEF u
  <2>4. 0 \in 0 .. Len(u) BY <2>2
  <2>5. SubSeq(u, 1, 0) \in Seq({0, 1}) /\ Len(SubSeq(u, 1, 0)) = 0 BY <2>2, <2>4, Beginnings
  <2>6. SubSeq(u, 1, 0) = <<>> BY <2>5, EmptySeq
  <2> QED BY <2>3, <2>6
<1> QED BY <1>5, <1>7, <1>8, <1>9 DEF D

\* What is behind an inner node by either bit: another one, or the end of a code.
LEMMA InnerLeads ==
  ASSUME NEW K, FullCode(K)
  PROVE  /\ \A p \in Inner(K) : \A b \in {0, 1} :
              Append(p, b) \in Inner(K) \/ \E s \in DOMAIN K : K[s] = Append(p, b)
         /\ \A s \in DOMAIN K : K[s] \notin Inner(K) /\ \E p \in Inner(K) : \E b \in {0, 1} : K[s] = Append(p, b)
         /\ \A p \in Inner(K) : p = <<>> \/ \E q \in Inner(K) : \E b \in {0, 1} : p = Append(q, b)
<1> DEFINE D == DOMAIN K
<1>1. /\ \A s \in D : K[s] \in Seq({0, 1}) /\ Len(K[s]) \in Nat \ {0}
      /\ \A s, r \in D : Shares(K[s], K[r], Len(K[s])) => s = r
      /\ \A s \in D : \A j \in 0 .. Len(K[s]) - 1 : \A b \in {0, 1} : \E r \in D :
           Shares(K[s], K[r], j) /\ j + 1 <= Len(K[r]) /\ K[r][j + 1] = b
  BY DEF FullCode
<1>2. /\ \A p \in Inner(K) : p \in Seq({0, 1}) /\ Len(p) \in Nat
      /\ \A p \in Inner(K) : \E s \in D : Len(p) < Len(K[s]) /\ p = SubSeq(K[s], 1, Len(p))
      /\ \A s \in D : \A j \in 0 .. Len(K[s]) - 1 : SubSeq(K[s], 1, j) \in Inner(K)
  BY InnerIs
<1> HIDE DEF D
<1>3. ASSUME NEW p \in Inner(K), NEW b \in {0, 1}
      PROVE  Append(p, b) \in Inner(K) \/ \E s \in D : K[s] = Append(p, b)
  <2>1. PICK s \in D : Len(p) < Len(K[s]) /\ p = SubSeq(K[s], 1, Len(p)) BY <1>2
  <2> DEFINE j == Len(p)
             u == K[s]
  <2>2. j \in Nat /\ p \in Seq({0, 1}) /\ u \in Seq({0, 1}) /\ Len(u) \in Nat /\ j < Len(u) /\ j \in 0 .. Len(u) - 1
        /\ j \in 0 .. Len(u)
    BY <1>1, <1>2, <2>1
  <2>3. PICK r \in D : Shares(u, K[r], j) /\ j + 1 <= Len(K[r]) /\ K[r][j + 1] = b BY <1>1, <2>2
  <2> DEFINE v == K[r]
  <2>4. v \in Seq({0, 1}) /\ Len(v) \in Nat /\ (\A i \in 1 .. j : v[i] = u[i]) /\ v[j + 1] = b /\ j + 1 <= Len(v)
    BY <1>1, <2>3 DEF Shares
  <2>5. p = SubSeq(u, 1, j) BY <2>1
  <2>6. \A i \in 0 .. Len(v) - 1 : SubSeq(v, 1, i) \in Inner(K) BY <1>2
  <2> HIDE DEF u, v, j
  <2>7. j \in 0 .. Len(v) - 1 /\ j \in 0 .. Len(v) BY <2>2, <2>4
  <2>8. SubSeq(v, 1, j) = p
    <3>1. SubSeq(u, 1, j) \in Seq({0, 1}) /\ Len(SubSeq(u, 1, j)) = j /\ \A i \in 1 .. j : SubSeq(u, 1, j)[i] = u[i]
      BY <2>2, Beginnings
    <3>2. SubSeq(v, 1, j) \in Seq({0, 1}) /\ Len(SubSeq(v, 1, j)) = j /\ \A i \in 1 .. j : SubSeq(v, 1, j)[i] = v[i]
      BY <2>4, <2>7, Beginnings
    <3> DEFINE y == SubSeq(u, 1, j)
               w == SubSeq(v, 1, j)
    <3>3. \A i \in 1 .. j : y[i] = w[i] BY <3>1, <3>2, <2>4
    <3> HIDE DEF y, w
    <3>4. y = w BY <3>1, <3>2, <3>3, SeqEqual DEF y, w
    <3> QED BY <3>4, <2>5 DEF y, w
  <2>9. SubSeq(v, 1, j + 1) = Append(p, b)
    <3>1. SubSeq(v, 1, j + 1) = Append(SubSeq(v, 1, j), v[j + 1]) BY <2>4, <2>7, BeginningGrows
    <3> QED BY <3>1, <2>4, <2>8
  <2>10. CASE j + 1 = Len(v)
    <3>1. SubSeq(v, 1, Len(v)) = v BY <2>4, SubSeqFull
    <3>2. v = Append(p, b) BY <3>1, <2>9, <2>10
    <3> QED BY <3>2 DEF v
  <2>11. CASE j + 1 # Len(v)
    <3> DEFINE i == j + 1
    <3>1. i \in 0 .. Len(v) - 1 BY <2>2, <2>4, <2>11
    <3>2. SubSeq(v, 1, i) \in Inner(K)
      <4> HIDE DEF i
      <4> QED BY <3>1, <2>6
    <3> QED BY <3>2, <2>9
  <2> QED BY <2>10, <2>11
<1>4. ASSUME NEW s \in D PROVE K[s] \notin Inner(K)
  <2> SUFFICES ASSUME K[s] \in Inner(K) PROVE FALSE OBVIOUS
  <2> DEFINE u == K[s]
  <2>1. PICK r \in D : Len(u) < Len(K[r]) /\ u = SubSeq(K[r], 1, Len(u)) BY <1>2
  <2> DEFINE v == K[r]
             j == Len(u)
  <2>2. u \in Seq({0, 1}) /\ j \in Nat /\ v \in Seq({0, 1}) /\ Len(v) \in Nat /\ j \in 0 .. Len(v) /\ j < Len(v)
    BY <1>1, <2>1
  <2>3. u = SubSeq(v, 1, j) BY <2>1
  <2> HIDE DEF u, v, j
  <2>4. \A i \in 1 .. j : SubSeq(v, 1, j)[i] = v[i] BY <2>2, Beginnings
  <2>5. \A i \in 1 .. j : v[i] = u[i] BY <2>3, <2>4
  <2>6. Shares(u, v, j) BY <2>2, <2>5 DEF Shares
  <2>7. s = r BY <2>6, <1>1 DEF u, v, j
  <2> QED BY <2>7, <2>2 DEF u, v, j
<1>5. ASSUME NEW u \in Seq({0, 1}), Len(u) \in Nat \ {0}, \A j \in 0 .. Len(u) - 1 : SubSeq(u, 1, j) \in Inner(K)
      PROVE  \E p \in Inner(K) : \E b \in {0, 1} : u = Append(p, b)
  <2> DEFINE j == Len(u) - 1
             p == SubSeq(u, 1, j)
             b == u[Len(u)]
  <2>1. j \in 0 .. Len(u) - 1 /\ j + 1 = Len(u) BY <1>5
  <2>2. p \in Inner(K) BY <2>1, <1>5
  <2>3. b \in {0, 1}
    <3>1. Len(u) \in 1 .. Len(u) BY <1>5
    <3> QED BY <3>1, ElementOfSeq
  <2>4. SubSeq(u, 1, Len(u)) = u BY SubSeqFull
  <2> HIDE DEF j
  <2>5. SubSeq(u, 1, j + 1) = Append(SubSeq(u, 1, j), u[j + 1]) BY <2>1, BeginningGrows
  <2>6. u = Append(p, b) BY <2>1, <2>4, <2>5
  <2> HIDE DEF p, b
  <2> QED BY <2>2, <2>3, <2>6
<1>6. ASSUME NEW s \in D PROVE \E p \in Inner(K) : \E b \in {0, 1} : K[s] = Append(p, b)
  <2> DEFINE u == K[s]
  <2>1. u \in Seq({0, 1}) /\ Len(u) \in Nat \ {0} /\ \A j \in 0 .. Len(u) - 1 : SubSeq(u, 1, j) \in Inner(K)
    BY <1>1, <1>2
  <2> HIDE DEF u
  <2>2. \E p \in Inner(K) : \E b \in {0, 1} : u = Append(p, b) BY <2>1, <1>5
  <2> QED BY <2>2 DEF u
<1>7. ASSUME NEW p \in Inner(K), p # <<>> PROVE \E q \in Inner(K) : \E b \in {0, 1} : p = Append(q, b)
  <2>1. p \in Seq({0, 1}) /\ Len(p) \in Nat BY <1>2
  <2>2. Len(p) # 0 BY <2>1, <1>7, EmptySeq
  <2>3. PICK s \in D : Len(p) < Len(K[s]) /\ p = SubSeq(K[s], 1, Len(p)) BY <1>2
  <2> DEFINE u == K[s]
             l == Len(p)
  <2>4. u \in Seq({0, 1}) /\ Len(u) \in Nat /\ l < Len(u) /\ p = SubSeq(u, 1, l) /\ l \in Nat
        /\ \A j \in 0 .. Len(u) - 1 : SubSeq(u, 1, j) \in Inner(K)
    BY <1>1, <1>2, <2>1, <2>3
  <2> HIDE DEF u
  <2>5. \A j \in 0 .. l - 1 : SubSeq(p, 1, j) \in Inner(K)
    <3> SUFFICES ASSUME NEW j \in 0 .. l - 1 PROVE SubSeq(p, 1, j) \in Inner(K) OBVIOUS
    <3> HIDE DEF l
    <3>1. j \in 0 .. l /\ l \in 0 .. Len(u) /\ j \in 0 .. Len(u) - 1 BY <2>4
    <3>2. SubSeq(SubSeq(u, 1, l), 1, j) = SubSeq(u, 1, j) BY <3>1, <2>4, BeginningsNest
    <3> QED BY <3>1, <3>2, <2>4
  <2> QED BY <2>1, <2>2, <2>5, <1>5
<1> QED BY <1>3, <1>4, <1>6, <1>7 DEF D

\* Post-order is an order of paths, a node's children come before it, and the root last.
LEMMA PostOrderIs ==
  ASSUME NEW I, \A p \in I : p \in Seq({0, 1}) /\ Len(p) \in Nat
  PROVE  /\ \A p \in I : ~PostOrder(p, p)
         /\ \A p, q \in I : p # q => PostOrder(p, q) \/ PostOrder(q, p)
         /\ \A p, q, r \in I : PostOrder(p, q) /\ PostOrder(q, r) => PostOrder(p, r)
         /\ \A p \in I : \A b \in {0, 1} : PostOrder(Append(p, b), p)
         /\ \A p \in I : p # <<>> => PostOrder(p, <<>>)
<1>1. \A p \in I : \A k \in Nat \ {0} : /\ Turn(p, k) \in 0 .. 2
                                        /\ Turn(p, k) < 2 <=> k <= Len(p)
                                        /\ k <= Len(p) => Turn(p, k) = p[k]
  <2> SUFFICES ASSUME NEW p \in I, NEW k \in Nat \ {0}
               PROVE  /\ Turn(p, k) \in 0 .. 2
                      /\ Turn(p, k) < 2 <=> k <= Len(p)
                      /\ k <= Len(p) => Turn(p, k) = p[k]
    OBVIOUS
  <2>1. p \in Seq({0, 1}) /\ Len(p) \in Nat OBVIOUS
  <2>2. CASE k <= Len(p)
    <3>1. k \in 1 .. Len(p) BY <2>1, <2>2
    <3>2. p[k] \in {0, 1} BY <2>1, <3>1, ElementOfSeq
    <3> QED BY <2>2, <3>2 DEF Turn
  <2>3. CASE ~(k <= Len(p)) BY <2>3 DEF Turn
  <2> QED BY <2>2, <2>3
<1>2. \A p \in I : Len(p) \in Nat OBVIOUS
<1>3. ASSUME NEW p \in I PROVE ~PostOrder(p, p)
  <2> SUFFICES ASSUME NEW k \in 1 .. Len(p) + 1, Turn(p, k) < Turn(p, k) PROVE FALSE BY DEF PostOrder
  <2>1. k \in Nat \ {0} BY <1>2
  <2>2. Turn(p, k) \in 0 .. 2 BY <2>1, <1>1
  <2> QED BY <2>2
<1>4. ASSUME NEW p \in I, NEW q \in I, p # q PROVE PostOrder(p, q) \/ PostOrder(q, p)
  <2> DEFINE T == {k \in Nat : k # 0 /\ k <= Len(p) + 1 /\ Turn(p, k) # Turn(q, k)}
  <2>1. T # {}
    <3> SUFFICES ASSUME T = {} PROVE FALSE OBVIOUS
    <3>1. \A k \in 1 .. Len(p) + 1 : Turn(p, k) = Turn(q, k)
      <4> SUFFICES ASSUME NEW k \in 1 .. Len(p) + 1 PROVE Turn(p, k) = Turn(q, k) OBVIOUS
      <4>1. k \in Nat /\ k # 0 /\ k <= Len(p) + 1 BY <1>2
      <4> QED BY <4>1
    <3> HIDE DEF T
    <3>2. \A k \in 1 .. Len(p) : k \in Nat \ {0} /\ k <= Len(p) /\ k \in 1 .. Len(p) + 1 BY <1>2
    <3>3. \A k \in 1 .. Len(p) : k <= Len(q)
      <4> SUFFICES ASSUME NEW k \in 1 .. Len(p) PROVE k <= Len(q) OBVIOUS
      <4>1. Turn(p, k) < 2 BY <3>2, <1>1
      <4>2. Turn(q, k) < 2 BY <4>1, <3>1, <3>2
      <4> QED BY <4>2, <3>2, <1>1
    <3>4. ~(Len(p) + 1 <= Len(q))
      <4> DEFINE k == Len(p) + 1
      <4>1. k \in Nat \ {0} /\ k \in 1 .. Len(p) + 1 /\ ~(k <= Len(p)) BY <1>2
      <4> HIDE DEF k
      <4>2. ~(Turn(p, k) < 2) BY <4>1, <1>1
      <4>3. ~(Turn(q, k) < 2) BY <4>1, <4>2, <3>1
      <4>4. ~(k <= Len(q)) BY <4>1, <4>3, <1>1
      <4> QED BY <4>4 DEF k
    <3>5. Len(p) = Len(q)
      <4>1. CASE Len(p) = 0 BY <4>1, <3>4, <1>2
      <4>2. CASE Len(p) # 0
        <5>1. Len(p) \in 1 .. Len(p) BY <4>2, <1>2
        <5>2. Len(p) <= Len(q) BY <5>1, <3>3
        <5> QED BY <5>2, <3>4, <1>2
      <4> QED BY <4>1, <4>2
    <3>6. \A k \in 1 .. Len(p) : p[k] = q[k]
      <4> SUFFICES ASSUME NEW k \in 1 .. Len(p) PROVE p[k] = q[k] OBVIOUS
      <4>1. Turn(p, k) = p[k] BY <3>2, <1>1
      <4>2. Turn(q, k) = q[k] BY <3>2, <3>3, <1>1
      <4> QED BY <4>1, <4>2, <3>1, <3>2
    <3>7. p \in Seq({0, 1}) /\ q \in Seq({0, 1}) OBVIOUS
    <3>8. p = q BY <3>5, <3>6, <3>7, SeqEqual
    <3> QED BY <3>8, <1>4
  <2>2. PICK k \in T : \A m \in T : k <= m
    <3>1. T \subseteq Nat OBVIOUS
    <3> HIDE DEF T
    <3> QED BY <2>1, <3>1, LeastNatural
  <2>3. k \in Nat \ {0} /\ k <= Len(p) + 1 /\ Turn(p, k) # Turn(q, k) BY <2>2
  <2>4. \A j \in 1 .. k - 1 : Turn(p, j) = Turn(q, j)
    <3> SUFFICES ASSUME NEW j \in 1 .. k - 1 PROVE Turn(p, j) = Turn(q, j) OBVIOUS
    <3>1. j \in Nat /\ j # 0 /\ j <= Len(p) + 1 /\ ~(k <= j) BY <2>3, <1>2
    <3>2. j \notin T BY <3>1, <2>2
    <3> QED BY <3>1, <3>2
  <2>5. Turn(p, k) \in 0 .. 2 /\ Turn(q, k) \in 0 .. 2 /\ (Turn(q, k) < 2 => k <= Len(q)) BY <2>3, <1>1
  <2>6. CASE Turn(p, k) < Turn(q, k)
    <3>1. k \in 1 .. Len(p) + 1 BY <2>3, <1>2
    <3> QED BY <3>1, <2>4, <2>6 DEF PostOrder
  <2>7. CASE Turn(q, k) < Turn(p, k)
    <3>1. k <= Len(q) BY <2>5, <2>7
    <3>2. k \in 1 .. Len(q) + 1 BY <3>1, <2>3, <1>2
    <3>3. \A j \in 1 .. k - 1 : Turn(q, j) = Turn(p, j) BY <2>4
    <3> QED BY <3>2, <3>3, <2>7 DEF PostOrder
  <2> QED BY <2>3, <2>5, <2>6, <2>7
<1>5. ASSUME NEW p \in I, NEW q \in I, NEW r \in I, PostOrder(p, q), PostOrder(q, r) PROVE PostOrder(p, r)
  <2>1. PICK k \in 1 .. Len(p) + 1 : Turn(p, k) < Turn(q, k) /\ \A j \in 1 .. k - 1 : Turn(p, j) = Turn(q, j)
    BY <1>5 DEF PostOrder
  <2>2. PICK h \in 1 .. Len(q) + 1 : Turn(q, h) < Turn(r, h) /\ \A j \in 1 .. h - 1 : Turn(q, j) = Turn(r, j)
    BY <1>5 DEF PostOrder
  <2>3. k \in Nat \ {0} /\ h \in Nat \ {0} /\ k <= Len(p) + 1 BY <1>2
  <2>4. /\ Turn(p, k) \in 0 .. 2 /\ Turn(q, k) \in 0 .. 2 /\ Turn(r, k) \in 0 .. 2
        /\ Turn(p, h) \in 0 .. 2 /\ Turn(q, h) \in 0 .. 2 /\ Turn(r, h) \in 0 .. 2
    BY <2>3, <1>1
  <2>5. CASE k <= h
    <3>1. \A j \in 1 .. k - 1 : j \in 1 .. h - 1 BY <2>3, <2>5
    <3>2. \A j \in 1 .. k - 1 : Turn(p, j) = Turn(r, j) BY <3>1, <2>1, <2>2
    <3>3. Turn(q, k) <= Turn(r, k)
      <4>1. CASE k = h BY <4>1, <2>2, <2>4
      <4>2. CASE k < h
        <5>1. k \in 1 .. h - 1 BY <4>2, <2>3
        <5> QED BY <5>1, <2>2, <2>4
      <4> QED BY <4>1, <4>2, <2>3, <2>5
    <3>4. Turn(p, k) < Turn(r, k) BY <3>3, <2>1, <2>4
    <3> QED BY <3>2, <3>4 DEF PostOrder
  <2>6. CASE h < k
    <3>1. \A j \in 1 .. h - 1 : j \in 1 .. k - 1 BY <2>3, <2>6
    <3>2. \A j \in 1 .. h - 1 : Turn(p, j) = Turn(r, j) BY <3>1, <2>1, <2>2
    <3>3. h \in 1 .. k - 1 /\ h \in 1 .. Len(p) + 1 BY <2>3, <2>6, <1>2
    <3>4. Turn(p, h) < Turn(r, h) BY <3>3, <2>1, <2>2
    <3> QED BY <3>2, <3>3, <3>4 DEF PostOrder
  <2> QED BY <2>3, <2>5, <2>6
<1>6. ASSUME NEW p \in I, NEW b \in {0, 1} PROVE PostOrder(Append(p, b), p)
  <2> DEFINE u == Append(p, b)
             k == Len(p) + 1
  <2>1. Len(u) = k /\ (\A j \in 1 .. Len(p) : u[j] = p[j]) /\ u[k] = b
    <3>1. p \in Seq({0, 1}) OBVIOUS
    <3> QED BY <3>1, AppendProperties
  <2>2. k \in Nat \ {0} /\ k \in 1 .. k + 1 /\ k <= k BY <1>2
  <2>3. Turn(u, k) = b BY <2>1, <2>2 DEF Turn
  <2>4. Turn(p, k) \in 0 .. 2 /\ ~(Turn(p, k) < 2)
    <3>1. ~(k <= Len(p)) BY <1>2
    <3> HIDE DEF k
    <3> QED BY <3>1, <2>2, <1>1
  <2>5. \A j \in 1 .. k - 1 : Turn(u, j) = Turn(p, j)
    <3> SUFFICES ASSUME NEW j \in 1 .. k - 1 PROVE Turn(u, j) = Turn(p, j) OBVIOUS
    <3>1. j \in 1 .. Len(p) /\ j <= Len(p) /\ j <= Len(u) BY <2>1, <1>2
    <3>2. u[j] = p[j] BY <3>1, <2>1
    <3> HIDE DEF u, k
    <3> QED BY <3>1, <3>2 DEF Turn
  <2> HIDE DEF u, k
  <2>6. Turn(u, k) < Turn(p, k) BY <2>3, <2>4
  <2>7. k \in 1 .. Len(u) + 1 BY <2>1, <2>2
  <2>8. PostOrder(u, p) BY <2>5, <2>6, <2>7 DEF PostOrder
  <2> QED BY <2>8 DEF u
<1>7. ASSUME NEW p \in I, p # <<>> PROVE PostOrder(p, <<>>)
  <2>1. p \in Seq({0, 1}) /\ Len(p) \in Nat OBVIOUS
  <2>2. Len(p) # 0 BY <2>1, <1>7, EmptySeq
  <2>3. 1 \in Nat \ {0} /\ 1 <= Len(p) /\ 1 \in 1 .. Len(p) + 1 BY <2>1, <2>2
  <2>4. Turn(p, 1) \in 0 .. 2 /\ Turn(p, 1) < 2 BY <2>3, <1>1
  <2>5. Turn(<<>>, 1) = 2 BY DEF Turn
  <2>6. \A j \in 1 .. 1 - 1 : Turn(p, j) = Turn(<<>>, j) OBVIOUS
  <2>7. Turn(p, 1) < Turn(<<>>, 1) BY <2>4, <2>5
  <2> QED BY <2>3, <2>6, <2>7 DEF PostOrder
<1> QED BY <1>3, <1>4, <1>5, <1>6, <1>7

\* The nodes in their post-order, the paths of the array that assign makes.
Paths(K) == Sorted(Inner(K), {p \in Inner(K) \X Inner(K) : PostOrder(p[1], p[2])})

\* Every node is behind its children and before the one it hangs at.
LEMMA PathsAre ==
  ASSUME NEW K, FullCode(K)
  PROVE  LET R == {p \in Inner(K) \X Inner(K) : PostOrder(p[1], p[2])}
             m == Cardinality(Inner(K))
             At(p) == Place(Inner(K), p, R)
         IN /\ m \in Nat \ {0} /\ Len(Paths(K)) = m
            /\ \A n \in 0 .. m - 1 : Paths(K)[n + 1] \in Inner(K) /\ At(Paths(K)[n + 1]) = n
            /\ \A p \in Inner(K) : At(p) \in 0 .. m - 1 /\ Paths(K)[At(p) + 1] = p
            /\ \A p \in Inner(K) : \A b \in {0, 1} : Append(p, b) \in Inner(K) => At(Append(p, b)) < At(p)
            /\ At(<<>>) = m - 1
<1> DEFINE I == Inner(K)
           R == {p \in I \X I : PostOrder(p[1], p[2])}
           m == Cardinality(I)
           At(p) == Place(I, p, R)
           s == Sorted(I, R)
<1>1. IsFiniteSet(I) /\ <<>> \in I /\ \A p \in I : p \in Seq({0, 1}) /\ Len(p) \in Nat BY InnerIs
<1>2. Paths(K) = s BY DEF Paths
<1>3. \A p, q \in I : <<p, q>> \in R <=> PostOrder(p, q)
  <2> HIDE DEF I
  <2> QED OBVIOUS
<1> HIDE DEF I, R
<1>4. /\ \A p \in I : ~PostOrder(p, p)
      /\ \A p, q \in I : p # q => PostOrder(p, q) \/ PostOrder(q, p)
      /\ \A p, q, r \in I : PostOrder(p, q) /\ PostOrder(q, r) => PostOrder(p, r)
      /\ \A p \in I : \A b \in {0, 1} : PostOrder(Append(p, b), p)
      /\ \A p \in I : p # <<>> => PostOrder(p, <<>>)
  <2>1. \A p \in I : p \in Seq({0, 1}) /\ Len(p) \in Nat BY <1>1
  <2> QED BY <2>1, PostOrderIs
<1>5. StrictOrder(I, R)
  <2>1. \A p \in I : <<p, p>> \notin R BY <1>3, <1>4
  <2>2. \A p, q \in I : p # q => <<p, q>> \in R \/ <<q, p>> \in R BY <1>3, <1>4
  <2>3. \A p, q, r \in I : <<p, q>> \in R /\ <<q, r>> \in R => <<p, r>> \in R BY <1>3, <1>4
  <2> QED BY <2>1, <2>2, <2>3 DEF StrictOrder
<1>6. /\ m \in Nat
      /\ \A x \in I : At(x) \in 0 .. m - 1
      /\ \A x, y \in I : <<x, y>> \in R <=> At(x) < At(y)
      /\ \A k \in 0 .. m - 1 : \E x \in I : At(x) = k
  <2>1. IsFiniteSet(I) /\ StrictOrder(I, R) BY <1>1, <1>5
  <2> QED BY <2>1, Places, Zenon
<1>7. /\ Len(s) = m
      /\ \A k \in 1 .. m : s[k] \in I /\ At(s[k]) = k - 1
      /\ \A x \in I : At(x) + 1 \in 1 .. m /\ s[At(x) + 1] = x
  <2>1. IsFiniteSet(I) /\ StrictOrder(I, R) BY <1>1, <1>5
  <2> QED BY <2>1, SortedIs, Zenon
<1> HIDE DEF m, At, s
<1>8. m # 0
  <2>1. At(<<>>) \in 0 .. m - 1 BY <1>1, <1>6
  <2> QED BY <2>1, <1>6
<1>9. \A n \in 0 .. m - 1 : s[n + 1] \in I /\ At(s[n + 1]) = n
  <2> SUFFICES ASSUME NEW n \in 0 .. m - 1 PROVE s[n + 1] \in I /\ At(s[n + 1]) = n OBVIOUS
  <2> DEFINE k == n + 1
  <2>1. k \in 1 .. m /\ k - 1 = n BY <1>6
  <2> HIDE DEF k
  <2>2. s[k] \in I /\ At(s[k]) = n BY <2>1, <1>7
  <2> QED BY <2>2 DEF k
<1>10. \A p \in I : \A b \in {0, 1} : Append(p, b) \in I => At(Append(p, b)) < At(p)
  <2> SUFFICES ASSUME NEW p \in I, NEW b \in {0, 1}, Append(p, b) \in I PROVE At(Append(p, b)) < At(p) OBVIOUS
  <2> DEFINE q == Append(p, b)
  <2>1. q \in I /\ PostOrder(q, p) BY <1>4
  <2> HIDE DEF q
  <2>2. At(q) < At(p) BY <2>1, <1>3, <1>6
  <2> QED BY <2>2 DEF q
<1>11. At(<<>>) = m - 1
  <2> DEFINE e == <<>>
  <2>1. e \in I /\ \A p \in I : p # e => PostOrder(p, e) BY <1>1, <1>4
  <2> HIDE DEF e
  <2>2. m - 1 \in 0 .. m - 1 BY <1>6, <1>8
  <2>3. PICK x \in I : At(x) = m - 1 BY <2>2, <1>6
  <2>4. At(e) \in 0 .. m - 1 BY <2>1, <1>6
  <2>5. x # e => At(x) < At(e) BY <2>1, <1>3, <1>6
  <2>6. ~(m - 1 < At(e)) BY <2>4, <1>6
  <2>7. x = e BY <2>3, <2>5, <2>6
  <2> QED BY <2>3, <2>7 DEF e
<1>12. \A p \in I : At(p) \in 0 .. m - 1 /\ s[At(p) + 1] = p BY <1>6, <1>7
<1>13. m \in Nat \ {0} /\ Len(Paths(K)) = m BY <1>2, <1>6, <1>7, <1>8
<1>14. \A n \in 0 .. m - 1 : Paths(K)[n + 1] \in I /\ At(Paths(K)[n + 1]) = n BY <1>2, <1>9
<1>15. \A p \in I : At(p) \in 0 .. m - 1 /\ Paths(K)[At(p) + 1] = p BY <1>2, <1>12
<1> QED BY <1>10, <1>11, <1>13, <1>14, <1>15, Zenon DEF At, m, R, I

\* What is behind a path, as assign finds it.
OnPath(K, path) ==
  IF path \in Inner(K)
    THEN Node(Place(Inner(K), path, {p \in Inner(K) \X Inner(K) : PostOrder(p[1], p[2])}))
    ELSE CHOOSE s \in DOMAIN K : K[s] = path

\* The array made from a full code has just that code.
LEMMA NumberedIs ==
  ASSUME NEW K, FullCode(K)
  PROVE  Proper(Numbered(K)) /\ DOMAIN Codes(LayOut(Numbered(K))) = DOMAIN K
         /\ \A s \in DOMAIN K : Codes(LayOut(Numbered(K)))[s] = K[s]
<1> DEFINE I == Inner(K)
           D == DOMAIN K
           m == Cardinality(I)
           At(p) == Place(I, p, {q \in I \X I : PostOrder(q[1], q[2])})
           A == [n \in 0 .. m - 1 |-> Paths(K)[n + 1]]
           c == Numbered(K)
           On(path) == OnPath(K, path)
<1>1. /\ m \in Nat \ {0} /\ Len(Paths(K)) = m
      /\ \A n \in 0 .. m - 1 : Paths(K)[n + 1] \in I /\ At(Paths(K)[n + 1]) = n
      /\ \A p \in I : At(p) \in 0 .. m - 1 /\ Paths(K)[At(p) + 1] = p
      /\ \A p \in I : \A b \in {0, 1} : Append(p, b) \in I => At(Append(p, b)) < At(p)
      /\ At(<<>>) = m - 1
  BY PathsAre, Zenon
<1>2. /\ \A p \in I : \A b \in {0, 1} : Append(p, b) \in I \/ \E s \in D : K[s] = Append(p, b)
      /\ \A s \in D : K[s] \notin I /\ \E p \in I : \E b \in {0, 1} : K[s] = Append(p, b)
      /\ \A p \in I : p = <<>> \/ \E q \in I : \E b \in {0, 1} : p = Append(q, b)
  BY InnerLeads
<1>3. <<>> \in I /\ \A p \in I : p \in Seq({0, 1}) /\ Len(p) \in Nat BY InnerIs
<1>4. D \subseteq Symbols /\ \A s, r \in D : K[s] = K[r] => s = r
  <2>1. /\ D \subseteq Symbols /\ \A s \in D : K[s] \in Seq({0, 1}) /\ Len(K[s]) \in Nat
        /\ \A s, r \in D : Shares(K[s], K[r], Len(K[s])) => s = r
    BY DEF FullCode
  <2>2. ASSUME NEW s \in D, NEW r \in D, K[s] = K[r] PROVE s = r
    <3> DEFINE u == K[s]
    <3>1. Len(u) \in Nat BY <2>1
    <3> HIDE DEF u
    <3>2. Shares(u, u, Len(u)) BY <3>1 DEF Shares
    <3>3. Shares(K[s], K[r], Len(K[s])) BY <3>2, <2>2 DEF u
    <3> QED BY <3>3, <2>1
  <2> QED BY <2>1, <2>2
<1>5. \A path \in I : On(path) = Node(At(path)) BY DEF OnPath
<1>6. \A s \in D : On(K[s]) = s
  <2> SUFFICES ASSUME NEW s \in D PROVE On(K[s]) = s OBVIOUS
  <2> DEFINE path == K[s]
             r == CHOOSE r \in D : K[r] = path
  <2>1. On(path) = r BY <1>2 DEF OnPath
  <2>2. \E x \in D : K[x] = path OBVIOUS
  <2>3. r \in D /\ K[r] = path BY <2>2
  <2> HIDE DEF r
  <2>4. r = s BY <2>3, <1>4
  <2> QED BY <2>1, <2>4
<1>7. Len(c) = m /\ \A n \in 0 .. m - 1 : \A b \in {0, 1} : Kid(c, n, b) = On(Append(Paths(K)[n + 1], b))
  <2> DEFINE P == Paths(K)
  <2>1. c = [k \in 1 .. m |-> <<On(Append(P[k], 0)), On(Append(P[k], 1))>>] BY DEF Numbered, OnPath, Paths
  <2> HIDE DEF c, m, On, P
  <2>2. Len(c) = m /\ \A k \in 1 .. m : c[k] = <<On(Append(P[k], 0)), On(Append(P[k], 1))>> BY <2>1, <1>1
  <2>3. ASSUME NEW n \in 0 .. m - 1, NEW b \in {0, 1} PROVE Kid(c, n, b) = On(Append(P[n + 1], b))
    <3> DEFINE k == n + 1
    <3>1. k \in 1 .. m BY <1>1
    <3> HIDE DEF k
    <3>2. c[k] = <<On(Append(P[k], 0)), On(Append(P[k], 1))>> BY <3>1, <2>2
    <3>3. CASE b = 0
      <4>1. c[k][0 + 1] = On(Append(P[k], 0)) BY <3>2
      <4> QED BY <3>3, <4>1 DEF Kid, k
    <3>4. CASE b = 1
      <4>1. c[k][1 + 1] = On(Append(P[k], 1)) BY <3>2
      <4> QED BY <3>4, <4>1 DEF Kid, k
    <3> QED BY <3>3, <3>4
  <2> QED BY <2>2, <2>3 DEF P
<1>8. \A n \in 0 .. m - 1 : A[n] = Paths(K)[n + 1] OBVIOUS
<1> HIDE DEF I, D, m, At, c, On
<1>9. /\ A \in [0 .. m - 1 -> I]
      /\ \A n \in 0 .. m - 1 : A[n] \in I /\ At(A[n]) = n /\ A[n] \in Seq({0, 1}) /\ Len(A[n]) \in Nat
      /\ \A p \in I : At(p) \in 0 .. m - 1 /\ A[At(p)] = p
      /\ \A n, k \in 0 .. m - 1 : A[n] = A[k] => n = k
      /\ A[m - 1] = <<>>
  <2>1. \A n \in 0 .. m - 1 : A[n] \in I /\ At(A[n]) = n BY <1>1, <1>8
  <2>2. \A p \in I : At(p) \in 0 .. m - 1 /\ A[At(p)] = p BY <1>1, <1>8
  <2>3. A \in [0 .. m - 1 -> I] BY <2>1
  <2> HIDE DEF A
  <2>4. A[m - 1] = <<>> BY <1>1, <1>3, <2>2
  <2>5. \A n, k \in 0 .. m - 1 : A[n] = A[k] => n = k BY <2>1
  <2> QED BY <1>3, <2>1, <2>2, <2>3, <2>4, <2>5
<1>10. \A n \in 0 .. m - 1 : \A b \in {0, 1} : Kid(c, n, b) = On(Append(A[n], b)) BY <1>7, <1>8
<1> HIDE DEF A
<1>11. \A n, k \in 0 .. m - 1 : \A b, d \in {0, 1} : Append(A[n], b) = Append(A[k], d) => n = k /\ b = d
  <2> SUFFICES ASSUME NEW n \in 0 .. m - 1, NEW k \in 0 .. m - 1, NEW b \in {0, 1}, NEW d \in {0, 1},
                      Append(A[n], b) = Append(A[k], d)
               PROVE  n = k /\ b = d
    OBVIOUS
  <2> DEFINE u == A[n]
             v == A[k]
  <2>1. u \in Seq({0, 1}) /\ v \in Seq({0, 1}) /\ Append(u, b) = Append(v, d) BY <1>9
  <2> HIDE DEF u, v
  <2>2. u = v /\ b = d BY <2>1, AppendInjective
  <2> QED BY <2>2, <1>9 DEF u, v
<1>12. \A n \in 0 .. m - 1 : \A b \in {0, 1} :
         \/ /\ Append(A[n], b) \in I /\ At(Append(A[n], b)) \in 0 .. n - 1
            /\ Kid(c, n, b) = Node(At(Append(A[n], b)))
         \/ \E s \in D : K[s] = Append(A[n], b) /\ Kid(c, n, b) = s
  <2> SUFFICES ASSUME NEW n \in 0 .. m - 1, NEW b \in {0, 1}
               PROVE  \/ /\ Append(A[n], b) \in I /\ At(Append(A[n], b)) \in 0 .. n - 1
                         /\ Kid(c, n, b) = Node(At(Append(A[n], b)))
                      \/ \E s \in D : K[s] = Append(A[n], b) /\ Kid(c, n, b) = s
    OBVIOUS
  <2> DEFINE q == Append(A[n], b)
  <2>1. A[n] \in I /\ At(A[n]) = n /\ Kid(c, n, b) = On(q) BY <1>9, <1>10
  <2>2. q \in I \/ \E s \in D : K[s] = q BY <2>1, <1>2
  <2>3. q \in I => At(q) < n BY <2>1, <1>1
  <2> HIDE DEF q
  <2>4. CASE q \in I
    <3>1. At(q) \in 0 .. m - 1 BY <2>4, <1>9
    <3>2. At(q) \in 0 .. n - 1 BY <3>1, <2>3, <2>4, <1>1
    <3>3. Kid(c, n, b) = Node(At(q)) BY <2>1, <2>4, <1>5
    <3> QED BY <2>4, <3>2, <3>3 DEF q
  <2>5. ASSUME NEW s \in D, K[s] = q PROVE Kid(c, n, b) = s BY <2>1, <2>5, <1>6
  <2> QED BY <2>2, <2>4, <2>5 DEF q
<1>13. Proper(c)
  <2>1. \A n \in 0 .. m - 1 : \A b \in {0, 1} : Hangs(Kid(c, n, b), n)
    <3> SUFFICES ASSUME NEW n \in 0 .. m - 1, NEW b \in {0, 1} PROVE Hangs(Kid(c, n, b), n) OBVIOUS
    <3> DEFINE q == At(Append(A[n], b))
               x == Kid(c, n, b)
    <3>1. (q \in 0 .. n - 1 /\ x = Node(q)) \/ \E s \in D : x = s BY <1>12
    <3> HIDE DEF q, x
    <3>2. Hangs(x, n) BY <3>1, <1>4 DEF Hangs
    <3> QED BY <3>2 DEF x
  <2>2. ASSUME NEW n \in 0 .. m - 1, NEW k \in 0 .. m - 1, NEW b \in {0, 1}, NEW d \in {0, 1},
               Kid(c, n, b) = Kid(c, k, d)
        PROVE  n = k /\ b = d
    <3> DEFINE q == Append(A[n], b)
               r == Append(A[k], d)
               x == Kid(c, n, b)
    <3>1. \/ q \in I /\ At(q) \in 0 .. n - 1 /\ x = Node(At(q))
          \/ \E s \in D : K[s] = q /\ x = s
      BY <1>12
    <3>2. \/ r \in I /\ At(r) \in 0 .. k - 1 /\ x = Node(At(r))
          \/ \E s \in D : K[s] = r /\ x = s
      BY <1>12, <2>2
    <3>3. q = r => n = k /\ b = d BY <1>11
    <3> HIDE DEF q, r, x
    <3>4. \A v \in Nat : \A s \in D : Node(v) # s BY <1>4, NodeIsKept
    <3>5. (At(q) \in 0 .. n - 1 => At(q) \in Nat) /\ (At(r) \in 0 .. k - 1 => At(r) \in Nat) OBVIOUS
    <3>6. CASE q \in I /\ At(q) \in 0 .. n - 1 /\ x = Node(At(q)) /\ r \in I /\ At(r) \in 0 .. k - 1 /\ x = Node(At(r))
      <4>1. At(q) = At(r)
        <5> DEFINE v == At(q)
                   w == At(r)
        <5>1. Node(v) = Node(w) BY <3>6
        <5> HIDE DEF v, w
        <5>2. v = w BY <5>1, NodesDiffer
        <5> QED BY <5>2 DEF v, w
      <4>2. q = r BY <4>1, <3>6, <1>9
      <4> QED BY <4>2, <3>3
    <3>7. CASE (\E s \in D : K[s] = q /\ x = s) /\ (\E s \in D : K[s] = r /\ x = s)
      <4>1. q = r BY <3>7
      <4> QED BY <4>1, <3>3
    <3> QED BY <3>1, <3>2, <3>4, <3>5, <3>6, <3>7
  <2>3. ASSUME NEW v \in 0 .. m - 2 PROVE \E n \in 0 .. m - 1 : \E b \in {0, 1} : Kid(c, n, b) = Node(v)
    <3>1. v \in 0 .. m - 1 /\ m - 1 \in 0 .. m - 1 /\ v # m - 1 BY <1>1
    <3>2. A[v] # <<>>
      <4> SUFFICES ASSUME A[v] = <<>> PROVE FALSE OBVIOUS
      <4>1. A[v] = A[m - 1] BY <1>9
      <4> QED BY <4>1, <3>1, <1>9
    <3>3. A[v] \in I /\ At(A[v]) = v BY <3>1, <1>9
    <3>4. PICK q \in I, b \in {0, 1} : A[v] = Append(q, b) BY <3>2, <3>3, <1>2
    <3> DEFINE n == At(q)
    <3>5. n \in 0 .. m - 1 /\ A[n] = q BY <1>9
    <3> HIDE DEF n
    <3>6. Append(A[n], b) = A[v] BY <3>4, <3>5
    <3>7. Kid(c, n, b) = On(A[v]) BY <3>5, <3>6, <1>10
    <3>8. On(A[v]) = Node(v) BY <3>3, <1>5
    <3> QED BY <3>5, <3>7, <3>8
  <2> DEFINE l == Len(c)
  <2>4. l = m BY <1>7
  <2> HIDE DEF l
  <2>5. \A n \in 0 .. l - 1 : \A b \in {0, 1} : Hangs(Kid(c, n, b), n) BY <2>1, <2>4
  <2>6. \A n, k \in 0 .. l - 1 : \A b, d \in {0, 1} : Kid(c, n, b) = Kid(c, k, d) => n = k /\ b = d BY <2>2, <2>4
  <2>7. \A v \in 0 .. l - 2 : \E n \in 0 .. l - 1 : \E b \in {0, 1} : Kid(c, n, b) = Node(v) BY <2>3, <2>4
  <2>8. l \in Nat /\ l # 0 BY <2>4, <1>1
  <2> QED BY <2>5, <2>6, <2>7, <2>8 DEF Proper, Woven, l
<1> DEFINE t == LayOut(c)
<1>14. /\ Tree(t) /\ t.m = m
       /\ \A n \in 0 .. m - 1 : \A b \in {0, 1} : Child(t, n, b) = Kid(c, n, b)
  <2>1. /\ Tree(t) /\ t.m = Len(c)
        /\ \A n \in 0 .. Len(c) - 1 : \A b \in {0, 1} : Child(t, n, b) = Kid(c, n, b)
    BY <1>13, LaidOut
  <2> HIDE DEF t
  <2> QED BY <2>1, <1>7
<1> HIDE DEF t
<1>15. Addresses(t, A)
  <2>1. A \in [0 .. m - 1 -> Seq({0, 1})] BY <1>3, <1>9
  <2>2. ASSUME NEW n \in 0 .. m - 1, NEW v \in 0 .. m - 1, NEW b \in {0, 1}, Child(t, n, b) = Node(v)
        PROVE  A[v] = Append(A[n], b)
    <3> DEFINE q == Append(A[n], b)
               w == At(q)
    <3>1. \/ q \in I /\ Node(v) = Node(w)
          \/ \E s \in D : s = Node(v)
      BY <1>12, <1>14, <2>2
    <3>2. v \in Nat BY <1>1
    <3>3. ~\E s \in D : s = Node(v) BY <3>2, <1>4, NodeIsKept
    <3>4. q \in I /\ Node(v) = Node(w) BY <3>1, <3>3
    <3> HIDE DEF w
    <3>5. v = w BY <3>4, NodesDiffer
    <3> HIDE DEF q
    <3>6. A[w] = q BY <3>4, <1>9 DEF w
    <3> QED BY <3>5, <3>6 DEF q
  <2>3. A[m - 1] = <<>> BY <1>9
  <2> QED BY <2>1, <2>2, <2>3, <1>14 DEF Addresses
<1>16. /\ \A n \in 0 .. m - 1 : \A b \in {0, 1} : Child(t, n, b) \in Symbols =>
            Child(t, n, b) \in DOMAIN Codes(t) /\ Codes(t)[Child(t, n, b)] = Append(A[n], b)
       /\ \A s \in DOMAIN Codes(t) : s \in Symbols /\ \E n \in 0 .. m - 1 : \E b \in {0, 1} :
            Child(t, n, b) = s /\ Codes(t)[s] = Append(A[n], b)
  <2>1. /\ \A n \in 0 .. t.m - 1 : \A b \in {0, 1} : Child(t, n, b) \in Symbols =>
             Child(t, n, b) \in DOMAIN Codes(t) /\ Codes(t)[Child(t, n, b)] = Append(A[n], b)
        /\ \A s \in DOMAIN Codes(t) : s \in Symbols /\ \E n \in 0 .. t.m - 1 : \E b \in {0, 1} :
             Child(t, n, b) = s /\ Codes(t)[s] = Append(A[n], b)
    BY <1>14, <1>15, CodesAre
  <2> QED BY <2>1, <1>14
<1>17. ASSUME NEW s \in DOMAIN Codes(t) PROVE s \in D
  <2>1. PICK n \in 0 .. m - 1, b \in {0, 1} : Child(t, n, b) = s /\ Codes(t)[s] = Append(A[n], b) BY <1>16
  <2> DEFINE q == Append(A[n], b)
             w == At(q)
  <2>2. \/ w \in 0 .. n - 1 /\ s = Node(w)
        \/ \E r \in D : s = r
    BY <2>1, <1>12, <1>14
  <2> HIDE DEF q, w
  <2>3. w \in 0 .. n - 1 => w \in Nat OBVIOUS
  <2>4. s \in Symbols BY <1>16
  <2> QED BY <2>2, <2>3, <2>4, NodeIsKept
<1>18. ASSUME NEW s \in D PROVE s \in DOMAIN Codes(t) /\ Codes(t)[s] = K[s]
  <2>1. K[s] \notin I /\ \E p \in I : \E b \in {0, 1} : K[s] = Append(p, b) BY <1>2
  <2>2. PICK p \in I, b \in {0, 1} : K[s] = Append(p, b) BY <2>1
  <2> DEFINE n == At(p)
  <2>3. n \in 0 .. m - 1 /\ A[n] = p BY <1>9
  <2> HIDE DEF n
  <2>4. Append(A[n], b) = K[s] BY <2>2, <2>3
  <2>5. Kid(c, n, b) = s BY <2>3, <2>4, <1>6, <1>10
  <2>6. Child(t, n, b) = s /\ s \in Symbols BY <2>3, <2>5, <1>4, <1>14
  <2> QED BY <2>3, <2>4, <2>6, <1>16
<1>19. DOMAIN Codes(t) = D BY <1>17, <1>18
<1> QED BY <1>13, <1>18, <1>19 DEF t, c, D

----------------------------------------------------------------------------
(* What the engine relies on. *)

\* A slot is one of a node's two.
LEMMA SlotsAre ==
  ASSUME NEW t, Tree(t), NEW i \in 0 .. 2 * t.m - 1
  PROVE  i % t.m \in 0 .. t.m - 1 /\ \E b \in {0, 1} : i = Slot(t, i % t.m, b)
<1> DEFINE m == t.m
<1>1. m \in Nat \ {0} BY DEF Tree
<1>2. CASE i < m
  <2>1. i = 0 * m + i /\ i \in 0 .. m - 1 /\ i \in Int BY <1>1, <1>2
  <2> HIDE DEF m
  <2>2. i % m = i BY <2>1, <1>1, DivModUnique
  <2>3. Slot(t, i, 0) = i BY DEF Slot
  <2> QED BY <2>1, <2>2, <2>3 DEF m
<1>3. CASE ~(i < m)
  <2> DEFINE n == i - m
  <2>1. i = 1 * m + n /\ n \in 0 .. m - 1 /\ i \in Int /\ m + n = i BY <1>1, <1>3
  <2> HIDE DEF m, n
  <2>2. i % m = n BY <2>1, <1>1, DivModUnique
  <2>3. Slot(t, n, 1) = i BY <2>1 DEF Slot, m
  <2> QED BY <2>1, <2>2, <2>3 DEF m
<1> QED BY <1>2, <1>3

\* Two slots for every node, and every node but one in a slot: the symbols are one more than the nodes.
LEMMA TreeIsSmall ==
  ASSUME NEW t, Tree(t)
  PROVE  /\ t.m + 1 <= Cardinality(Symbols)
         /\ \A i, j \in 0 .. 2 * t.m - 1 : Entry(t.pairs[i]) = Entry(t.pairs[j]) => i = j
         /\ \A i \in 0 .. 2 * t.m - 1 :
              Entry(t.pairs[i]) \in Symbols \/ \E v \in 0 .. t.m - 2 : v < (i % t.m) /\ Entry(t.pairs[i]) = Node(v)
<1> DEFINE m == t.m
           E(i) == Entry(t.pairs[i])
           V == 0 .. m - 2
           N == {Node(v) : v \in V}
           I == 0 .. 2 * m - 1
           g == [i \in I |-> E(i)]
           T == Symbols \cup N
<1>1. /\ m \in Nat \ {0}
      /\ \A n, k \in 0 .. m - 1 : \A b, d \in {0, 1} : Child(t, n, b) = Child(t, k, d) => n = k /\ b = d
  BY DEF Tree
<1>2. \A n \in 0 .. m - 1 : \A b \in {0, 1} :
        Child(t, n, b) \in Symbols \/ \E v \in 0 .. m - 2 : v < n /\ Child(t, n, b) = Node(v)
  BY ParentIs
<1>3. \A i \in I : (i % m) \in 0 .. m - 1 /\ \E b \in {0, 1} : i = Slot(t, i % m, b) /\ E(i) = Child(t, i % m, b)
  BY SlotsAre DEF Child
<1> HIDE DEF m, E, I
<1>4. \A i, j \in I : E(i) = E(j) => i = j
  <2> SUFFICES ASSUME NEW i \in I, NEW j \in I, E(i) = E(j) PROVE i = j OBVIOUS
  <2> DEFINE n == i % m
             k == j % m
  <2>1. n \in 0 .. m - 1 /\ k \in 0 .. m - 1 BY <1>3
  <2>2. PICK b \in {0, 1} : i = Slot(t, n, b) /\ E(i) = Child(t, n, b) BY <1>3
  <2>3. PICK d \in {0, 1} : j = Slot(t, k, d) /\ E(j) = Child(t, k, d) BY <1>3
  <2> HIDE DEF n, k
  <2>4. n = k /\ b = d
    <3>1. Child(t, n, b) = Child(t, k, d) BY <2>2, <2>3, <1>4
    <3> QED BY <3>1, <2>1, <1>1
  <2> QED BY <2>2, <2>3, <2>4
<1>5. \A i \in I : E(i) \in Symbols \/ \E v \in V : v < (i % m) /\ E(i) = Node(v)
  <2> SUFFICES ASSUME NEW i \in I PROVE E(i) \in Symbols \/ \E v \in V : v < (i % m) /\ E(i) = Node(v) OBVIOUS
  <2> DEFINE n == i % m
  <2>1. n \in 0 .. m - 1 BY <1>3
  <2>2. PICK b \in {0, 1} : E(i) = Child(t, n, b) BY <1>3
  <2> HIDE DEF n
  <2>3. E(i) \in Symbols \/ \E v \in V : v < n /\ E(i) = Node(v) BY <2>1, <2>2, <1>2
  <2> QED BY <2>3 DEF n
<1>6. IsFiniteSet(N) /\ Cardinality(N) <= m - 1 /\ Cardinality(N) \in Nat
  <2> DEFINE f == [v \in V |-> Node(v)]
  <2>1. f \in [V -> N] /\ \A y \in N : \E v \in V : f[v] = y
    <3> HIDE DEF V
    <3> QED OBVIOUS
  <2>2. IsFiniteSet(V) /\ Cardinality(V) = m - 1
    <3> DEFINE h == m - 2
    <3>1. 0 \in Int /\ h \in Int /\ (IF 0 > h THEN 0 ELSE h - 0 + 1) = m - 1 BY <1>1
    <3> HIDE DEF h
    <3>2. IsFiniteSet(0 .. h) /\ Cardinality(0 .. h) = IF 0 > h THEN 0 ELSE h - 0 + 1 BY <3>1, FS_Interval
    <3> QED BY <3>1, <3>2 DEF h
  <2> HIDE DEF V, N, f
  <2>3. f \in Surjection(V, N) BY <2>1 DEF Surjection
  <2>4. IsFiniteSet(N) /\ Cardinality(N) <= Cardinality(V) BY <2>2, <2>3, FS_Surjection
  <2> QED BY <2>2, <2>4, FS_CardinalityType
<1>7. IsFiniteSet(T) /\ Cardinality(T) <= Cardinality(Symbols) + (m - 1) /\ Cardinality(T) \in Nat
      /\ Cardinality(Symbols) \in Nat
  <2> HIDE DEF N
  <2>1. IsFiniteSet(Symbols) /\ Cardinality(Symbols) \in Nat BY SymbolsAreFew
  <2>2. IsFiniteSet(T) /\ Cardinality(T) = Cardinality(Symbols) + Cardinality(N) - Cardinality(Symbols \cap N)
    BY <2>1, <1>6, FS_Union
  <2>3. IsFiniteSet(Symbols \cap N)
    <3> DEFINE X == Symbols \cap N
    <3>1. X \in SUBSET N OBVIOUS
    <3> HIDE DEF X
    <3>2. IsFiniteSet(X) BY <3>1, <1>6, FS_Subset
    <3> QED BY <3>2 DEF X
  <2>4. Cardinality(Symbols \cap N) \in Nat BY <2>3, FS_CardinalityType
  <2> HIDE DEF T
  <2>5. Cardinality(T) \in Nat BY <2>2, FS_CardinalityType
  <2> QED BY <2>1, <2>2, <2>4, <2>5, <1>1, <1>6
<1>8. g \in Injection(I, T)
  <2>1. \A i \in I : E(i) \in T BY <1>5
  <2> HIDE DEF T
  <2>2. g \in [I -> T] /\ \A i \in I : g[i] = E(i) BY <2>1
  <2>3. DOMAIN g = I OBVIOUS
  <2> HIDE DEF g
  <2>4. \A i, j \in I : g[i] = g[j] => i = j BY <2>2, <1>4
  <2>5. IsInjective(g) BY <2>3, <2>4 DEF IsInjective
  <2> QED BY <2>2, <2>5 DEF Injection
<1>9. Cardinality(I) = 2 * m
  <2> DEFINE h == 2 * m - 1
  <2>1. 0 \in Int /\ h \in Int /\ (IF 0 > h THEN 0 ELSE h - 0 + 1) = 2 * m BY <1>1
  <2>2. I = 0 .. h BY DEF I
  <2> HIDE DEF h
  <2>3. Cardinality(0 .. h) = IF 0 > h THEN 0 ELSE h - 0 + 1 BY <2>1, FS_Interval
  <2> QED BY <2>1, <2>2, <2>3
<1> HIDE DEF g, T
<1>10. Cardinality(I) <= Cardinality(T) BY <1>7, <1>8, FS_Injection
<1>11. m + 1 <= Cardinality(Symbols) BY <1>1, <1>7, <1>9, <1>10
<1> QED BY <1>4, <1>5, <1>11 DEF m, E, I

\* A tree is what the engine's walk relies on.
LEMMA TreeIsWalked ==
  ASSUME NEW t, Tree(t)
  PROVE  /\ t.m \in 0 .. Len(Order) /\ DOMAIN t.pairs = 0 .. 2 * t.m
         /\ \A i \in DOMAIN t.pairs : t.pairs[i] \in Words
         /\ LET slots == 0 .. 2 * t.m - 1
                owner(i) == i % t.m
                nodes == {i \in slots : Entry(t.pairs[i]).kind = "NODE"}
            IN /\ t.root = t.m - 1
               /\ t.pairs[2 * t.m] = 0
               /\ \A i \in nodes : Entry(t.pairs[i]).value < owner(i)
               /\ \A n \in 0 .. t.m - 2 : Cardinality({i \in nodes : Entry(t.pairs[i]).value = n}) = 1
<1> DEFINE m == t.m
           E(i) == Entry(t.pairs[i])
           I == 0 .. 2 * m - 1
           nodes == {i \in I : E(i).kind = "NODE"}
<1>1. /\ m \in Nat \ {0} /\ t.root = m - 1 /\ DOMAIN t.pairs = 0 .. 2 * m /\ t.pairs[2 * m] = 0
      /\ \A i \in 0 .. 2 * m : t.pairs[i] \in Nat
      /\ \A v \in 0 .. m - 2 : \E n \in 0 .. m - 1 : \E b \in {0, 1} : Child(t, n, b) = Node(v)
  BY DEF Tree
<1>2. /\ m + 1 <= Cardinality(Symbols)
      /\ \A i, j \in I : E(i) = E(j) => i = j
      /\ \A i \in I : E(i) \in Symbols \/ \E v \in 0 .. m - 2 : v < (i % m) /\ E(i) = Node(v)
  BY TreeIsSmall
<1>3. \A n \in 0 .. m - 1 : \A b \in {0, 1} : Slot(t, n, b) \in I /\ E(Slot(t, n, b)) = Child(t, n, b)
  <2> SUFFICES ASSUME NEW n \in 0 .. m - 1, NEW b \in {0, 1}
               PROVE  Slot(t, n, b) \in I /\ E(Slot(t, n, b)) = Child(t, n, b)
    OBVIOUS
  <2>1. Slot(t, n, b) \in I
    <3>1. CASE b = 0 BY <3>1, <1>1 DEF Slot
    <3>2. CASE b = 1 BY <3>2, <1>1 DEF Slot
    <3> QED BY <3>1, <3>2
  <2> QED BY <2>1 DEF Child
<1>4. /\ Cardinality(Symbols) \in Nat /\ Cardinality(Symbols) <= NodeBit /\ Cardinality(Symbols) <= Len(Order)
      /\ Len(Order) \in Nat /\ NodeBit \in Nat
  BY SymbolsAreFew, WordAssumption
<1>5. \A i \in 0 .. 2 * m : i \in I \/ i = 2 * m BY <1>1
<1> HIDE DEF m, E, I
<1>6. m \in 0 .. Len(Order) /\ m <= NodeBit BY <1>1, <1>2, <1>4
<1>7. ASSUME NEW i \in 0 .. 2 * m PROVE t.pairs[i] \in Words
  <2>1. CASE i = 2 * m
    <3>1. t.pairs[i] = 0 BY <2>1, <1>1
    <3> QED BY <3>1, <1>1, <1>4, <1>6 DEF Words
  <2>2. CASE i \in I
    <3> DEFINE w == t.pairs[i]
    <3>1. w \in Nat BY <1>1
    <3>2. E(i) = Entry(w) BY DEF E
    <3> HIDE DEF w
    <3>3. CASE w < NodeBit BY <3>1, <3>3, <1>4 DEF Words, w
    <3>4. CASE w >= NodeBit
      <4> DEFINE v == w - NodeBit
      <4>1. v \in Nat /\ NodeBit + v = w BY <3>1, <3>4, <1>4
      <4> HIDE DEF v
      <4>2. E(i) = Node(v) /\ Node(v) \notin Symbols
        <5>1. Entry(NodeBit + v) = Node(v) /\ Node(v) \notin Symbols BY <4>1, NodeIsKept
        <5> QED BY <5>1, <4>1, <3>2
      <4>3. PICK u \in 0 .. m - 2 : E(i) = Node(u) BY <2>2, <4>2, <1>2
      <4>4. v = u
        <5>1. Node(v) = Node(u) BY <4>2, <4>3
        <5> QED BY <5>1, NodesDiffer
      <4>5. w < 2 * NodeBit BY <4>1, <4>4, <1>1, <1>4, <1>6
      <4> QED BY <4>5, <3>1, <1>4 DEF Words, w
    <3> QED BY <3>1, <3>3, <3>4, <1>4
  <2> QED BY <2>1, <2>2, <1>5
<1>8. ASSUME NEW i \in nodes PROVE E(i).value < (i % m) /\ E(i).value \in Nat /\ E(i) = Node(E(i).value)
  <2>1. i \in I /\ E(i).kind = "NODE" OBVIOUS
  <2>2. E(i) \notin Symbols BY <2>1, SymbolIsKept
  <2>3. PICK v \in 0 .. m - 2 : v < (i % m) /\ E(i) = Node(v) BY <2>1, <2>2, <1>2
  <2>4. v \in Nat BY <1>1
  <2>5. E(i).value = v BY <2>3, <2>4, NodeIsKept
  <2> QED BY <2>3, <2>4, <2>5
<1>9. ASSUME NEW n \in 0 .. m - 2 PROVE Cardinality({i \in nodes : E(i).value = n}) = 1
  <2>1. PICK k \in 0 .. m - 1, b \in {0, 1} : Child(t, k, b) = Node(n) BY <1>1
  <2> DEFINE j == Slot(t, k, b)
             X == {i \in nodes : E(i).value = n}
  <2>2. j \in I /\ E(j) = Node(n) BY <2>1, <1>3
  <2>3. n \in Nat BY <1>1
  <2>4. Node(n).kind = "NODE" /\ Node(n).value = n BY <2>3, NodeIsKept
  <2> HIDE DEF j
  <2>5. j \in nodes /\ E(j).value = n BY <2>2, <2>4
  <2>6. \A i \in nodes : i \in I OBVIOUS
  <2> HIDE DEF nodes
  <2>7. \A i \in nodes : E(i).value = n => i = j
    <3> SUFFICES ASSUME NEW i \in nodes, E(i).value = n PROVE i = j OBVIOUS
    <3>1. E(i) = Node(n) BY <1>8
    <3>2. E(i) = E(j) /\ i \in I BY <3>1, <2>2, <2>6
    <3> QED BY <3>2, <2>2, <1>2
  <2>8. X = {j} BY <2>5, <2>7
  <2> HIDE DEF X
  <2>9. Cardinality(X) = 1 BY <2>8, FS_Singleton
  <2> QED BY <2>9 DEF X
<1>10. DOMAIN t.pairs = 0 .. 2 * m BY <1>1
<1>11. \A i \in DOMAIN t.pairs : t.pairs[i] \in Words BY <1>7, <1>10
<1>12. \A i \in nodes : E(i).value < (i % m) BY <1>8
<1>13. t.root = m - 1 /\ t.pairs[2 * m] = 0 BY <1>1
<1> QED BY <1>6, <1>9, <1>10, <1>11, <1>12, <1>13, Zenon DEF m, E, I

\* The lengths of a tree's codes may be given to a builder, which gives codes of those lengths back.
LEMMA RebuiltIs ==
  ASSUME NEW t, Tree(t), Kraft(InOrder(LengthsOf(t))), NEW u, u = BuildFromLengths(LengthsOf(t))
  PROVE  /\ Tree(u) /\ u # NoTree /\ DOMAIN Codes(u) = DOMAIN Codes(t)
         /\ \A s \in DOMAIN Codes(t) : Len(Codes(u)[s]) = Len(Codes(t)[s])
<1> DEFINE z == LengthsOf(t)
           D == DOMAIN Codes(t)
           K == CanonicalCodes(z)
<1>1. PICK A : Addresses(t, A) BY AddressesExist
<1>2. \A s \in D : s \in Symbols /\ Len(Codes(t)[s]) \in Nat \ {0} BY <1>1, CodesAre, CodesBelow
<1>3. D # {}
  <2>1. t.m \in Nat \ {0} /\ \A n \in 0 .. t.m - 1 : \A b \in {0, 1} :
          Child(t, n, b) \in Symbols \/ \E v \in 0 .. t.m - 2 : v < n /\ Child(t, n, b) = Node(v)
    BY ParentIs
  <2>2. 0 \in 0 .. t.m - 1 /\ \A v \in 0 .. t.m - 2 : ~(v < 0) BY <2>1
  <2>3. Child(t, 0, 0) \in Symbols BY <2>1, <2>2
  <2>4. Child(t, 0, 0) \in D BY <1>1, <2>2, <2>3, CodesAre
  <2> QED BY <2>4
<1>4. z = [s \in D |-> Len(Codes(t)[s])] BY DEF LengthsOf
<1>5. IsFiniteSet(D)
  <2>1. D \in SUBSET Symbols BY <1>2
  <2> HIDE DEF D
  <2> QED BY <2>1, SymbolsAreFew, FS_Subset
<1> HIDE DEF z, D
<1>6. DOMAIN z = D /\ \A s \in D : z[s] = Len(Codes(t)[s]) BY <1>4
<1>7. Sized(z)
  <2>1. D \subseteq Symbols /\ \A s \in D : z[s] \in Nat \ {0} BY <1>2, <1>6
  <2> QED BY <2>1, <1>3, <1>5, <1>6 DEF Sized
<1>8. Kraft(InOrder(z)) BY DEF z
<1>9. FullCode(K) /\ DOMAIN K = D /\ \A s \in D : Len(K[s]) = z[s]
  <2>1. FullCode(K) /\ DOMAIN K = DOMAIN z /\ \A s \in DOMAIN z : Len(K[s]) = z[s]
    BY <1>7, <1>8, CanonicalIsFull, Zenon
  <2> QED BY <2>1, <1>6
<1>10. u = LayOut(Numbered(K)) BY DEF BuildFromLengths, z
<1> HIDE DEF K
<1>11. Proper(Numbered(K)) /\ DOMAIN Codes(u) = DOMAIN K /\ \A s \in DOMAIN K : Codes(u)[s] = K[s]
  BY <1>9, <1>10, NumberedIs
<1>12. Tree(u) /\ u # NoTree BY <1>10, <1>11, LaidOut
<1>13. ASSUME NEW s \in D PROVE Len(Codes(u)[s]) = Len(Codes(t)[s])
  <2>1. Codes(u)[s] = K[s] BY <1>9, <1>11
  <2>2. Len(K[s]) = z[s] /\ z[s] = Len(Codes(t)[s]) BY <1>6, <1>9
  <2> QED BY <2>1, <2>2
<1> QED BY <1>9, <1>11, <1>12, <1>13 DEF D

----------------------------------------------------------------------------
(* The builder from frequencies. *)

\* Whatever may be in a slot.
Hanging == Symbols \cup {Node(v) : v \in Nat}

\* The nodes made so far, and what is not below one of them yet.
Loose(c, C) ==
  /\ c \in Seq(Hanging \X Hanging) /\ Woven(c)
  /\ \A x \in C : Hangs(x, Len(c)) /\ \A n \in 0 .. Len(c) - 1 : \A b \in {0, 1} : Kid(c, n, b) # x
  /\ \A v \in 0 .. Len(c) - 1 : Node(v) \in C \/ \E n \in 0 .. Len(c) - 1 : \E b \in {0, 1} : Kid(c, n, b) = Node(v)

\* Before the first merge every symbol is loose.
LEMMA LooseFirst == ASSUME NEW C, C \subseteq Symbols PROVE Loose(<<>>, C)
<1>1. Len(<<>>) = 0 /\ <<>> \in Seq(Hanging \X Hanging) OBVIOUS
<1> QED BY <1>1 DEF Loose, Woven, Hangs

\* Two of them under a new node.
Under(c, C, x, y, d, E) ==
  /\ Loose(c, C) /\ x \in C /\ y \in C /\ x # y
  /\ d = Append(c, <<x, y>>) /\ E = (C \ {x, y}) \cup {Node(Len(c))}

\* Such a step takes two from the loose ones and gives one, the new node.
LEMMA UnderNode ==
  ASSUME NEW c, NEW C, NEW x, NEW y, NEW d, NEW E, Under(c, C, x, y, d, E)
  PROVE  Loose(d, E) /\ Len(d) = Len(c) + 1
<1> SUFFICES ASSUME Loose(c, C), x \in C, y \in C, x # y, d = Append(c, <<x, y>>),
                    E = (C \ {x, y}) \cup {Node(Len(c))}
             PROVE  Loose(d, E) /\ Len(d) = Len(c) + 1
  BY Zenon DEF Under
<1> DEFINE m == Len(c)
<1>1. /\ m \in Nat /\ c \in Seq(Hanging \X Hanging)
      /\ \A n \in 0 .. m - 1 : \A b \in {0, 1} : Hangs(Kid(c, n, b), n)
      /\ \A n, k \in 0 .. m - 1 : \A b, e \in {0, 1} : Kid(c, n, b) = Kid(c, k, e) => n = k /\ b = e
      /\ \A z \in C : Hangs(z, m) /\ \A n \in 0 .. m - 1 : \A b \in {0, 1} : Kid(c, n, b) # z
      /\ \A v \in 0 .. m - 1 : Node(v) \in C \/ \E n \in 0 .. m - 1 : \E b \in {0, 1} : Kid(c, n, b) = Node(v)
  BY DEF Loose, Woven
<1> HIDE DEF m
<1>2. \A z \in C : z \in Hanging
  <2> SUFFICES ASSUME NEW z \in C PROVE z \in Hanging OBVIOUS
  <2>1. z \in Symbols \/ \E v \in 0 .. m - 1 : z = Node(v) BY <1>1 DEF Hangs
  <2>2. \A v \in 0 .. m - 1 : v \in Nat BY <1>1
  <2> QED BY <2>1, <2>2 DEF Hanging
<1>3. /\ d \in Seq(Hanging \X Hanging) /\ Len(d) = m + 1 /\ (\A k \in 1 .. m : d[k] = c[k]) /\ d[m + 1] = <<x, y>>
  <2> DEFINE S == Hanging \X Hanging
             e == <<x, y>>
  <2>1. e \in S /\ c \in Seq(S) BY <1>1, <1>2
  <2> HIDE DEF S, e
  <2>2. Append(c, e) \in Seq(S) /\ Len(Append(c, e)) = Len(c) + 1 /\ (\A k \in 1 .. Len(c) : Append(c, e)[k] = c[k])
        /\ Append(c, e)[Len(c) + 1] = e
    BY <2>1, AppendProperties
  <2>3. d = Append(c, e) BY DEF e
  <2> QED BY <2>2, <2>3 DEF S, e, m
<1>4. \A n \in 0 .. m - 1 : \A b \in {0, 1} : Kid(d, n, b) = Kid(c, n, b)
  <2> SUFFICES ASSUME NEW n \in 0 .. m - 1, NEW b \in {0, 1} PROVE Kid(d, n, b) = Kid(c, n, b) OBVIOUS
  <2>1. n + 1 \in 1 .. m BY <1>1
  <2>2. d[n + 1] = c[n + 1] BY <2>1, <1>3
  <2> QED BY <2>2 DEF Kid
<1>5. Kid(d, m, 0) = x /\ Kid(d, m, 1) = y
  <2>1. <<x, y>>[0 + 1] = x /\ <<x, y>>[1 + 1] = y OBVIOUS
  <2> QED BY <2>1, <1>3 DEF Kid
<1>6. \A n \in 0 .. m : n \in 0 .. m - 1 \/ n = m BY <1>1
<1>7. \A n \in Nat : \A z : Hangs(z, n) => Hangs(z, n + 1)
  <2> SUFFICES ASSUME NEW n \in Nat, NEW z, Hangs(z, n) PROVE Hangs(z, n + 1) OBVIOUS
  <2>1. \A v \in 0 .. n - 1 : v \in 0 .. (n + 1) - 1 OBVIOUS
  <2> QED BY <2>1 DEF Hangs
<1>8. \A n \in 0 .. m : \A b \in {0, 1} : Hangs(Kid(d, n, b), n)
  <2> SUFFICES ASSUME NEW n \in 0 .. m, NEW b \in {0, 1} PROVE Hangs(Kid(d, n, b), n) OBVIOUS
  <2>1. CASE n \in 0 .. m - 1 BY <2>1, <1>1, <1>4
  <2>2. CASE n = m
    <3>1. Hangs(x, m) /\ Hangs(y, m) BY <1>1
    <3> QED BY <2>2, <3>1, <1>5
  <2> QED BY <2>1, <2>2, <1>6
<1>9. \A n \in 0 .. m - 1 : \A b, e \in {0, 1} : Kid(d, n, b) # Kid(d, m, e)
  <2> SUFFICES ASSUME NEW n \in 0 .. m - 1, NEW b \in {0, 1}, NEW e \in {0, 1} PROVE Kid(d, n, b) # Kid(d, m, e)
    OBVIOUS
  <2>1. Kid(d, m, e) \in C BY <1>5
  <2>2. Kid(c, n, b) # Kid(d, m, e) BY <2>1, <1>1
  <2> QED BY <2>2, <1>4
<1>10. \A n, k \in 0 .. m : \A b, e \in {0, 1} : Kid(d, n, b) = Kid(d, k, e) => n = k /\ b = e
  <2> SUFFICES ASSUME NEW n \in 0 .. m, NEW k \in 0 .. m, NEW b \in {0, 1}, NEW e \in {0, 1},
                      Kid(d, n, b) = Kid(d, k, e)
               PROVE  n = k /\ b = e
    OBVIOUS
  <2>1. CASE n \in 0 .. m - 1 /\ k \in 0 .. m - 1
    <3>1. Kid(c, n, b) = Kid(c, k, e) BY <2>1, <1>4
    <3> QED BY <2>1, <3>1, <1>1
  <2>2. CASE n \in 0 .. m - 1 /\ k = m BY <2>2, <1>9
  <2>3. CASE n = m /\ k \in 0 .. m - 1 BY <2>3, <1>9
  <2>4. CASE n = m /\ k = m BY <2>4, <1>5
  <2> QED BY <2>1, <2>2, <2>3, <2>4, <1>6
<1>11. Woven(d)
  <2> DEFINE l == Len(d)
  <2>1. l = m + 1 /\ l - 1 = m /\ l \in Nat BY <1>1, <1>3
  <2> HIDE DEF l
  <2>2. \A n \in 0 .. l - 1 : \A b \in {0, 1} : Hangs(Kid(d, n, b), n) BY <2>1, <1>8
  <2>3. \A n, k \in 0 .. l - 1 : \A b, e \in {0, 1} : Kid(d, n, b) = Kid(d, k, e) => n = k /\ b = e BY <2>1, <1>10
  <2> QED BY <2>1, <2>2, <2>3 DEF Woven, l
<1>12. \A z \in C : z # Node(m)
  <2> SUFFICES ASSUME NEW z \in C, z = Node(m) PROVE FALSE OBVIOUS
  <2>1. z \in Symbols \/ \E v \in 0 .. m - 1 : z = Node(v) BY <1>1 DEF Hangs
  <2>2. Node(m) \notin Symbols BY <1>1, NodeIsKept
  <2>3. PICK v \in 0 .. m - 1 : Node(m) = Node(v) BY <2>1, <2>2
  <2>4. m = v BY <2>3, NodesDiffer
  <2> QED BY <2>4, <1>1
<1>13. ASSUME NEW z \in E PROVE Hangs(z, m + 1) /\ \A n \in 0 .. m : \A b \in {0, 1} : Kid(d, n, b) # z
  <2>1. CASE z \in C /\ z # x /\ z # y
    <3>1. Hangs(z, m + 1) BY <2>1, <1>1, <1>7
    <3>2. ASSUME NEW n \in 0 .. m - 1, NEW b \in {0, 1} PROVE Kid(d, n, b) # z
      <4>1. Kid(c, n, b) # z BY <2>1, <1>1
      <4>2. Kid(d, n, b) = Kid(c, n, b) BY <1>4
      <4> QED BY <4>1, <4>2
    <3>3. \A b \in {0, 1} : Kid(d, m, b) # z BY <2>1, <1>5
    <3> QED BY <3>1, <3>2, <3>3, <1>6
  <2>2. CASE z = Node(m)
    <3>1. m \in 0 .. (m + 1) - 1 BY <1>1
    <3>2. Hangs(z, m + 1) BY <3>1, <2>2 DEF Hangs
    <3>3. ASSUME NEW n \in 0 .. m, NEW b \in {0, 1}, Kid(d, n, b) = z PROVE FALSE
      <4>1. Hangs(z, n) BY <3>3, <1>8
      <4>2. z \notin Symbols BY <2>2, <1>1, NodeIsKept
      <4>3. PICK v \in 0 .. n - 1 : Node(m) = Node(v) BY <4>1, <4>2, <2>2 DEF Hangs
      <4>4. m = v BY <4>3, NodesDiffer
      <4> QED BY <4>4, <1>1
    <3> QED BY <3>2, <3>3
  <2>3. z \in (C \ {x, y}) \cup {Node(m)} BY DEF m
  <2> QED BY <2>1, <2>2, <2>3
<1>14. ASSUME NEW v \in 0 .. m
       PROVE  Node(v) \in E \/ \E n \in 0 .. m : \E b \in {0, 1} : Kid(d, n, b) = Node(v)
  <2>1. CASE v = m BY <2>1 DEF m
  <2>2. CASE v \in 0 .. m - 1
    <3>1. CASE Node(v) = x
      <4>1. m \in 0 .. m BY <1>1
      <4> QED BY <4>1, <3>1, <1>5
    <3>2. CASE Node(v) = y
      <4>1. m \in 0 .. m BY <1>1
      <4> QED BY <4>1, <3>2, <1>5
    <3>3. CASE Node(v) \in C /\ Node(v) # x /\ Node(v) # y BY <3>3
    <3>4. ASSUME NEW n \in 0 .. m - 1, NEW b \in {0, 1}, Kid(c, n, b) = Node(v)
          PROVE  \E k \in 0 .. m : \E e \in {0, 1} : Kid(d, k, e) = Node(v)
      <4>1. n \in 0 .. m /\ Kid(d, n, b) = Node(v) BY <3>4, <1>1, <1>4
      <4> QED BY <4>1
    <3> QED BY <2>2, <3>1, <3>2, <3>3, <3>4, <1>1
  <2> QED BY <2>1, <2>2, <1>6
<1>15. Loose(d, E)
  <2> DEFINE l == Len(d)
  <2>1. l = m + 1 /\ l - 1 = m BY <1>1, <1>3
  <2> HIDE DEF l
  <2>2. \A z \in E : Hangs(z, l) /\ \A n \in 0 .. l - 1 : \A b \in {0, 1} : Kid(d, n, b) # z BY <2>1, <1>13
  <2>3. \A v \in 0 .. l - 1 : Node(v) \in E \/ \E n \in 0 .. l - 1 : \E b \in {0, 1} : Kid(d, n, b) = Node(v)
    BY <2>1, <1>14
  <2> QED BY <2>2, <2>3, <1>3, <1>11 DEF Loose, l
<1> QED BY <1>3, <1>15 DEF m

\* When one is left it is the root.
LEMMA LooseLast ==
  ASSUME NEW c, NEW x, Loose(c, {x}), Len(c) # 0
  PROVE  Proper(c)
<1> DEFINE m == Len(c)
<1>1. /\ m \in Nat \ {0}
      /\ \A n \in 0 .. m - 1 : \A b \in {0, 1} : Hangs(Kid(c, n, b), n)
      /\ \A v \in 0 .. m - 1 : Node(v) = x \/ \E n \in 0 .. m - 1 : \E b \in {0, 1} : Kid(c, n, b) = Node(v)
  BY DEF Loose, Woven
<1> HIDE DEF m
<1>2. Node(m - 1) = x
  <2> SUFFICES ASSUME NEW n \in 0 .. m - 1, NEW b \in {0, 1}, Kid(c, n, b) = Node(m - 1) PROVE FALSE
    <3>1. m - 1 \in 0 .. m - 1 BY <1>1
    <3> QED BY <3>1, <1>1
  <2> DEFINE w == m - 1
  <2>1. w \in Nat BY <1>1
  <2>2. Node(w) \notin Symbols BY <2>1, NodeIsKept
  <2>3. Hangs(Node(w), n) BY <1>1
  <2> HIDE DEF w
  <2>4. PICK v \in 0 .. n - 1 : Node(w) = Node(v) BY <2>2, <2>3 DEF Hangs
  <2>5. w = v BY <2>4, NodesDiffer
  <2> QED BY <2>5, <1>1 DEF w
<1>3. ASSUME NEW v \in 0 .. m - 2 PROVE \E n \in 0 .. m - 1 : \E b \in {0, 1} : Kid(c, n, b) = Node(v)
  <2> DEFINE w == m - 1
  <2>1. v \in 0 .. m - 1 /\ v # w BY <1>1
  <2>2. Node(v) # x
    <3> SUFFICES ASSUME Node(v) = x PROVE FALSE OBVIOUS
    <3>1. Node(v) = Node(w) BY <1>2
    <3> HIDE DEF w
    <3>2. v = w BY <3>1, NodesDiffer
    <3> QED BY <3>2, <2>1
  <2> QED BY <2>1, <2>2, <1>1
<1> QED BY <1>1, <1>3 DEF Proper, Loose, m

\* An item's tag is its symbol's position, or behind all of those by the node it stands for.
Tagged(x, m) ==
  \/ x.child \in Symbols /\ x.tag = Position(x.child)
  \/ \E v \in 0 .. m - 1 : x.child = Node(v) /\ x.tag = Len(Order) + v + 1

\* The heap and the nodes made so far, while there is something to merge.
Heaped(h, c) ==
  /\ IsFiniteSet(h) /\ \A x \in h : x.weight \in Nat /\ Tagged(x, Len(c))
  /\ \A x, y \in h : x.child = y.child => x = y
  /\ Loose(c, {x.child : x \in h})
  /\ Cardinality(h) + Len(c) \in 2 .. Len(Order)

\* The tags of a heap tell its items apart.
LEMMA TagsAre ==
  ASSUME NEW h, NEW c, Heaped(h, c)
  PROVE  /\ Len(c) \in Nat /\ Cardinality(h) \in Nat /\ Len(Order) \in Nat
         /\ \A x \in h : x.tag \in 1 .. 2 * Len(Order)
         /\ \A x, y \in h : x.tag = y.tag => x = y
<1> DEFINE m == Len(c)
           l == Len(Order)
           k == Cardinality(h)
<1>1. m \in Nat BY DEF Heaped, Loose, Woven
<1>2. k \in Nat BY FS_CardinalityType DEF Heaped
<1>3. l \in Nat BY SymbolsAreFew
<1>4. k + m <= l BY <1>1, <1>2, <1>3 DEF Heaped
<1>5. \A x \in h : Tagged(x, m) BY DEF Heaped
<1>6. \A x, y \in h : x.child = y.child => x = y BY DEF Heaped
<1> HIDE DEF m, k
<1>7. \A s \in Symbols : Position(s) \in 1 .. l /\ Order[Position(s)] = s BY PositionsAre
<1> HIDE DEF l
<1>8. \A x \in h : x.tag \in 1 .. 2 * l
  <2> SUFFICES ASSUME NEW x \in h PROVE x.tag \in 1 .. 2 * l OBVIOUS
  <2>1. Tagged(x, m) BY <1>5
  <2>2. ASSUME x.child \in Symbols, x.tag = Position(x.child) PROVE x.tag \in 1 .. 2 * l
    <3>1. x.tag \in 1 .. l BY <2>2, <1>7
    <3> QED BY <3>1, <1>3
  <2>3. ASSUME NEW v \in 0 .. m - 1, x.tag = Len(Order) + v + 1 PROVE x.tag \in 1 .. 2 * l
    <3>1. x.tag = l + v + 1 BY <2>3 DEF l
    <3> QED BY <3>1, <1>1, <1>2, <1>3, <1>4
  <2> QED BY <2>1, <2>2, <2>3 DEF Tagged
<1>9. ASSUME NEW x \in h, NEW y \in h, x.tag = y.tag PROVE x = y
  <2> DEFINE A(z) == z.child \in Symbols /\ z.tag = Position(z.child)
             B(z) == \E v \in 0 .. m - 1 : z.child = Node(v) /\ z.tag = l + v + 1
  <2>1. (A(x) \/ B(x)) /\ (A(y) \/ B(y)) BY <1>5 DEF Tagged, l
  <2>2. ASSUME NEW z, A(z) PROVE z.tag <= l /\ z.child = Order[z.tag] /\ z.tag \in Nat BY <2>2, <1>3, <1>7
  <2>3. ASSUME NEW z, B(z) PROVE z.tag > l /\ z.child = Node(z.tag - l - 1) /\ z.tag \in Nat
    <3>1. PICK v \in 0 .. m - 1 : z.child = Node(v) /\ z.tag = l + v + 1 BY <2>3
    <3>2. v \in Nat /\ (l + v + 1) - l - 1 = v BY <1>1, <1>3
    <3> QED BY <3>1, <3>2, <1>3
  <2> HIDE DEF A, B
  <2>4. CASE A(x) /\ A(y)
    <3>1. x.child = Order[x.tag] /\ y.child = Order[y.tag] BY <2>2, <2>4
    <3> QED BY <3>1, <1>6, <1>9
  <2>5. CASE B(x) /\ B(y)
    <3>1. x.child = Node(x.tag - l - 1) /\ y.child = Node(y.tag - l - 1) BY <2>3, <2>5
    <3> QED BY <3>1, <1>6, <1>9
  <2>6. CASE A(x) /\ B(y)
    <3>1. x.tag <= l /\ x.tag \in Nat BY <2>2, <2>6
    <3>2. y.tag > l /\ y.tag \in Nat BY <2>3, <2>6
    <3> QED BY <3>1, <3>2, <1>3, <1>9
  <2>7. CASE B(x) /\ A(y)
    <3>1. y.tag <= l /\ y.tag \in Nat BY <2>2, <2>7
    <3>2. x.tag > l /\ x.tag \in Nat BY <2>3, <2>7
    <3> QED BY <3>1, <3>2, <1>3, <1>9
  <2> QED BY <2>1, <2>4, <2>5, <2>6, <2>7
<1> QED BY <1>1, <1>2, <1>3, <1>8, <1>9 DEF m, k, l

\* What the heap pops is in it and none is lighter: weight and tag order any items whose tags differ.
LEMMA LightestIs ==
  ASSUME NEW h, IsFiniteSet(h), h # {}, \A x \in h : x.weight \in Nat /\ x.tag \in Nat,
         \A x, y \in h : x.tag = y.tag => x = y
  PROVE  Lightest(h) \in h /\ \A x \in h : Lightest(h).weight <= x.weight
<1> DEFINE R == {p \in h \X h : Less(p[1], p[2])}
<1>1. \A x, y \in h : <<x, y>> \in R <=> Less(x, y) OBVIOUS
<1> HIDE DEF R
<1>2. \A x \in h : ~Less(x, x) BY DEF Less
<1>3. \A x, y \in h : x # y => Less(x, y) \/ Less(y, x)
  <2> SUFFICES ASSUME NEW x \in h, NEW y \in h, x # y PROVE Less(x, y) \/ Less(y, x) OBVIOUS
  <2>1. x.weight \in Nat /\ y.weight \in Nat /\ x.tag \in Nat /\ y.tag \in Nat /\ x.tag # y.tag OBVIOUS
  <2> QED BY <2>1 DEF Less
<1>4. \A x, y, z \in h : Less(x, y) /\ Less(y, z) => Less(x, z)
  <2> SUFFICES ASSUME NEW x \in h, NEW y \in h, NEW z \in h, Less(x, y), Less(y, z) PROVE Less(x, z) OBVIOUS
  <2>1. x.weight \in Nat /\ y.weight \in Nat /\ z.weight \in Nat /\ x.tag \in Nat /\ y.tag \in Nat /\ z.tag \in Nat
    OBVIOUS
  <2> QED BY <2>1 DEF Less
<1>5. StrictOrder(h, R)
  <2>1. \A x \in h : <<x, x>> \notin R BY <1>1, <1>2
  <2>2. \A x, y \in h : x # y => <<x, y>> \in R \/ <<y, x>> \in R BY <1>1, <1>3
  <2>3. \A x, y, z \in h : <<x, y>> \in R /\ <<y, z>> \in R => <<x, z>> \in R BY <1>1, <1>4
  <2> QED BY <2>1, <2>2, <2>3 DEF StrictOrder
<1> DEFINE n == Cardinality(h)
           At(x) == Place(h, x, R)
<1>6. /\ n \in Nat
      /\ \A x \in h : At(x) \in 0 .. n - 1
      /\ \A x, y \in h : <<x, y>> \in R <=> At(x) < At(y)
      /\ \A x, y \in h : At(x) = At(y) => x = y
      /\ \A k \in 0 .. n - 1 : \E x \in h : At(x) = k
  <2>1. IsFiniteSet(h) /\ StrictOrder(h, R) BY <1>5
  <2> QED BY <2>1, Places, Zenon
<1> HIDE DEF n, At
<1>7. 0 \in 0 .. n - 1
  <2>1. PICK x \in h : TRUE OBVIOUS
  <2>2. At(x) \in 0 .. n - 1 BY <1>6
  <2> QED BY <2>2, <1>6
<1>8. PICK a \in h : At(a) = 0 BY <1>6, <1>7
<1>9. \A b \in h \ {a} : Less(a, b)
  <2> SUFFICES ASSUME NEW b \in h, b # a PROVE Less(a, b) OBVIOUS
  <2>1. At(b) \in 0 .. n - 1 /\ At(b) # At(a) BY <1>6
  <2>2. At(a) < At(b) BY <2>1, <1>6, <1>8
  <2> QED BY <2>2, <1>1, <1>6
<1> HIDE DEF Less
<1>10. \E x \in h : \A b \in h \ {x} : Less(x, b) BY <1>8, <1>9
<1> DEFINE e == Lightest(h)
<1>11. e \in h /\ \A b \in h \ {e} : Less(e, b) BY <1>10 DEF Lightest
<1> HIDE DEF e
<1>12. \A x \in h : e.weight <= x.weight
  <2> SUFFICES ASSUME NEW x \in h PROVE e.weight <= x.weight OBVIOUS
  <2>1. e.weight \in Nat /\ x.weight \in Nat BY <1>11
  <2>2. CASE x = e BY <2>1, <2>2
  <2>3. CASE x # e
    <3>1. Less(e, x) BY <2>3, <1>11
    <3> QED BY <3>1, <2>1 DEF Less
  <2> QED BY <2>2, <2>3
<1> QED BY <1>11, <1>12 DEF e

\* As long as there are enough of them the lightest are different items.
LEMMA LightestsAre ==
  ASSUME NEW h, NEW c, Heaped(h, c), NEW X, X \in SUBSET h, IsFiniteSet(X), Cardinality(X) < Cardinality(h)
  PROVE  Lightest(h \ X) \in h \ X /\ \A x \in h \ X : Lightest(h \ X).weight <= x.weight
<1>1. /\ IsFiniteSet(h) /\ \A x \in h : x.weight \in Nat
  BY DEF Heaped
<1>2. /\ Cardinality(h) \in Nat /\ Len(Order) \in Nat
      /\ \A x \in h : x.tag \in 1 .. 2 * Len(Order)
      /\ \A x, y \in h : x.tag = y.tag => x = y
  BY TagsAre
<1> DEFINE g == h \ X
<1>3. IsFiniteSet(g)
  <2>1. g \in SUBSET h OBVIOUS
  <2> HIDE DEF g
  <2> QED BY <2>1, <1>1, FS_Subset
<1>4. g # {}
  <2> SUFFICES ASSUME g = {} PROVE FALSE OBVIOUS
  <2>1. h = X OBVIOUS
  <2>2. Cardinality(X) = Cardinality(h) BY <2>1
  <2> HIDE DEF g
  <2> QED BY <2>2, <1>2
<1>5. \A x \in g : x.weight \in Nat /\ x.tag \in Nat
  <2> SUFFICES ASSUME NEW x \in h PROVE x.weight \in Nat /\ x.tag \in Nat OBVIOUS
  <2>1. x.tag \in 1 .. 2 * Len(Order) BY <1>2
  <2> QED BY <2>1, <1>1, <1>2
<1>6. \A x, y \in g : x.tag = y.tag => x = y BY <1>2
<1> HIDE DEF g
<1>7. Lightest(g) \in g /\ \A x \in g : Lightest(g).weight <= x.weight BY <1>3, <1>4, <1>5, <1>6, LightestIs
<1> QED BY <1>7 DEF g

\* The heap of the frequencies, one item for each symbol.
LEMMA HeapFirst ==
  ASSUME NEW f, DOMAIN f \subseteq Symbols, \A s \in DOMAIN f : f[s] \in Nat,
         NEW h, h = {[weight |-> f[s], tag |-> Position(s), child |-> s] : s \in DOMAIN f}
  PROVE  /\ \A x \in h : x.weight \in Nat /\ x.tag \in 1 .. 2 * Len(Order)
         /\ Cardinality(DOMAIN f) >= 2 => Heaped(h, <<>>)
<1> DEFINE D == DOMAIN f
           I(s) == [weight |-> f[s], tag |-> Position(s), child |-> s]
           g == [s \in D |-> I(s)]
<1>1. \A s \in Symbols : Position(s) \in 1 .. Len(Order) BY PositionsAre
<1>2. IsFiniteSet(Symbols) /\ Cardinality(Symbols) \in Nat /\ Cardinality(Symbols) <= Len(Order) /\ Len(Order) \in Nat
  BY SymbolsAreFew
<1>3. \A s \in D : I(s).weight \in Nat /\ I(s).child = s /\ I(s).tag = Position(s) /\ s \in Symbols OBVIOUS
<1>4. h = {I(s) : s \in D} OBVIOUS
<1> HIDE DEF D, I
<1>5. \A x \in h : \E s \in D : x = I(s) BY <1>4
<1>6. ASSUME NEW x \in h PROVE x.weight \in Nat /\ x.tag \in 1 .. 2 * Len(Order) /\ Tagged(x, 0)
  <2>1. PICK s \in D : x = I(s) BY <1>5
  <2>2. x.child = s /\ s \in Symbols /\ x.tag = Position(s) /\ x.weight \in Nat BY <2>1, <1>3
  <2>3. x.tag \in 1 .. Len(Order) BY <2>2, <1>1
  <2> QED BY <2>2, <2>3, <1>2 DEF Tagged
<1>7. ASSUME Cardinality(D) >= 2 PROVE Heaped(h, <<>>)
  <2>1. IsFiniteSet(D) /\ Cardinality(D) <= Cardinality(Symbols) /\ Cardinality(D) \in Nat
    <3>1. D \in SUBSET Symbols BY <1>3
    <3>2. IsFiniteSet(D) /\ Cardinality(D) <= Cardinality(Symbols) BY <3>1, <1>2, FS_Subset
    <3> QED BY <3>2, FS_CardinalityType
  <2>2. g \in [D -> h] /\ (\A y \in h : \E s \in D : g[s] = y) /\ DOMAIN g = D /\ \A s \in D : g[s] = I(s) BY <1>4
  <2> HIDE DEF g
  <2>3. g \in Surjection(D, h) BY <2>2 DEF Surjection
  <2>4. \A s, r \in D : g[s] = g[r] => s = r
    <3> SUFFICES ASSUME NEW s \in D, NEW r \in D, g[s] = g[r] PROVE s = r OBVIOUS
    <3>1. I(s) = I(r) BY <2>2
    <3>2. I(s).child = I(r).child BY <3>1
    <3> QED BY <3>2, <1>3
  <2>5. g \in Injection(D, h)
    <3>1. IsInjective(g) BY <2>2, <2>4 DEF IsInjective
    <3> QED BY <3>1, <2>2 DEF Injection
  <2>6. IsFiniteSet(h) /\ Cardinality(h) = Cardinality(D) BY <2>1, <2>3, <2>5, FS_Surjection
  <2>7. \A x, y \in h : x.child = y.child => x = y
    <3> SUFFICES ASSUME NEW x \in h, NEW y \in h, x.child = y.child PROVE x = y OBVIOUS
    <3>1. PICK s \in D : x = I(s) BY <1>5
    <3>2. PICK r \in D : y = I(r) BY <1>5
    <3>3. s = r BY <3>1, <3>2, <1>3
    <3> QED BY <3>1, <3>2, <3>3
  <2>8. Loose(<<>>, {x.child : x \in h})
    <3> DEFINE C == {x.child : x \in h}
    <3>1. C \subseteq Symbols BY <1>3, <1>5
    <3> HIDE DEF C
    <3>2. Loose(<<>>, C) BY <3>1, LooseFirst
    <3> QED BY <3>2 DEF C
  <2>9. Len(<<>>) = 0 OBVIOUS
  <2>10. Cardinality(h) + Len(<<>>) \in 2 .. Len(Order) BY <2>1, <2>6, <2>9, <1>2, <1>7
  <2>11. \A x \in h : x.weight \in Nat /\ Tagged(x, Len(<<>>)) BY <2>9, <1>6
  <2> QED BY <2>6, <2>7, <2>8, <2>10, <2>11 DEF Heaped
<1> QED BY <1>6, <1>7 DEF D

\* Merging keeps it.
LEMMA MergedIs ==
  ASSUME NEW h, NEW c, Heaped(h, c), Cardinality(h) > 1,
         NEW a, a = Lightest(h), NEW b, b = Lightest(h \ {a}),
         NEW d, d = Append(c, <<a.child, b.child>>),
         NEW i, i = [weight |-> a.weight + b.weight, tag |-> Len(Order) + Len(d), child |-> Node(Len(c))],
         NEW g, g = (h \ {a, b}) \cup {i}
  PROVE  Heaped(g, d)
<1>1. /\ IsFiniteSet(h) /\ \A x \in h : x.weight \in Nat /\ Tagged(x, Len(c))
      /\ \A x, y \in h : x.child = y.child => x = y
      /\ Loose(c, {x.child : x \in h})
      /\ Cardinality(h) + Len(c) \in 2 .. Len(Order)
  BY DEF Heaped
<1>2. Len(c) \in Nat /\ Cardinality(h) \in Nat /\ Len(Order) \in Nat BY TagsAre
<1>3. a \in h
  <2>1. {} \in SUBSET h /\ IsFiniteSet({}) /\ Cardinality({}) = 0 BY FS_EmptySet
  <2>2. Cardinality({}) < Cardinality(h) BY <2>1, <1>2
  <2>3. Lightest(h \ {}) \in h \ {} BY <2>1, <2>2, LightestsAre
  <2>4. h \ {} = h OBVIOUS
  <2> QED BY <2>3, <2>4
<1>4. b \in h /\ b # a
  <2>1. {a} \in SUBSET h BY <1>3
  <2>2. IsFiniteSet({a}) /\ Cardinality({a}) = 1 BY FS_Singleton
  <2>3. Cardinality({a}) < Cardinality(h) BY <2>2, <1>2
  <2>4. Lightest(h \ {a}) \in h \ {a} BY <2>1, <2>2, <2>3, LightestsAre
  <2> QED BY <2>4
<1> DEFINE C == {x.child : x \in h}
           E == {x.child : x \in g}
           r == a.child
           s == b.child
           m == Len(c)
<1>5. r \in C /\ s \in C /\ r # s BY <1>1, <1>3, <1>4
<1>6. i.child = Node(m) /\ i.weight = a.weight + b.weight /\ i.tag = Len(Order) + Len(d) OBVIOUS
<1>7. E = (C \ {r, s}) \cup {Node(m)}
  <2>1. \A x \in h : x # a /\ x # b => x.child # r /\ x.child # s BY <1>1, <1>3, <1>4
  <2> SUFFICES ASSUME NEW z PROVE z \in E <=> z \in (C \ {r, s}) \cup {Node(m)} OBVIOUS
  <2>2. z \in E <=> \E x \in g : z = x.child OBVIOUS
  <2>3. z \in C <=> \E x \in h : z = x.child OBVIOUS
  <2>4. \A x : x \in g <=> (x \in h /\ x # a /\ x # b) \/ x = i OBVIOUS
  <2>5. r = a.child /\ s = b.child /\ i.child = Node(m) BY <1>6
  <2> HIDE DEF E, C, r, s, m
  <2>6. z = Node(m) => z \in E BY <2>2, <2>4, <2>5
  <2>7. z \in C /\ z # r /\ z # s => z \in E BY <2>2, <2>3, <2>4, <2>5
  <2>8. ASSUME z \in E PROVE z = Node(m) \/ (z \in C /\ z # r /\ z # s)
    <3>1. PICK x \in g : z = x.child BY <2>2, <2>8
    <3>2. CASE x = i BY <3>1, <3>2, <2>5
    <3>3. CASE x \in h /\ x # a /\ x # b BY <3>1, <3>3, <2>1, <2>3
    <3> QED BY <3>1, <3>2, <3>3, <2>4
  <2> QED BY <2>6, <2>7, <2>8
<1>8. Loose(c, C) /\ d = Append(c, <<r, s>>) BY <1>1
<1> HIDE DEF C, E, r, s
<1>9. Loose(d, E) /\ Len(d) = Len(c) + 1
  <2>1. E = (C \ {r, s}) \cup {Node(Len(c))} BY <1>7 DEF m
  <2>2. Loose(c, C) /\ r \in C /\ s \in C /\ r # s BY <1>5, <1>8
  <2>3. d = Append(c, <<r, s>>) BY <1>8, Zenon
  <2>4. Under(c, C, r, s, d, E) BY <2>1, <2>2, <2>3, Zenon DEF Under
  <2> QED BY <2>4, UnderNode, Zenon
<1>10. \A z \in C : z # Node(m)
  <2> SUFFICES ASSUME NEW z \in C, z = Node(m) PROVE FALSE OBVIOUS
  <2>1. Hangs(z, m) BY <1>8 DEF Loose, m
  <2>2. z \in Symbols \/ \E v \in 0 .. m - 1 : z = Node(v) BY <2>1 DEF Hangs
  <2>3. Node(m) \notin Symbols BY <1>2, NodeIsKept DEF m
  <2>4. PICK v \in 0 .. m - 1 : Node(m) = Node(v) BY <2>2, <2>3
  <2>5. m = v BY <2>4, NodesDiffer
  <2> QED BY <2>5, <1>2 DEF m
<1>11. \A x \in h : x.child # Node(m) BY <1>10 DEF C
<1>12. \A x, y \in g : x.child = y.child => x = y
  <2>1. \A x : x \in g <=> (x \in h /\ x # a /\ x # b) \/ x = i OBVIOUS
  <2> QED BY <2>1, <1>1, <1>6, <1>11
<1>13. IsFiniteSet(g) /\ Cardinality(g) + Len(d) = Cardinality(h) + Len(c)
  <2> DEFINE h1 == h \ {a}
             h2 == h1 \ {b}
             H == h2 \cup {i}
  <2>1. IsFiniteSet(h1) /\ Cardinality(h1) = Cardinality(h) - 1 BY <1>1, <1>3, FS_RemoveElement
  <2>2. b \in h1 BY <1>4
  <2>3. i \notin h2 BY <1>6, <1>11
  <2>5. g = H OBVIOUS
  <2> HIDE DEF h1
  <2>6. IsFiniteSet(h2) /\ Cardinality(h2) = Cardinality(h1) - 1 BY <2>1, <2>2, FS_RemoveElement
  <2> HIDE DEF h2
  <2>7. IsFiniteSet(H) /\ Cardinality(H) = Cardinality(h2) + 1 BY <2>3, <2>6, FS_AddElement
  <2> HIDE DEF H
  <2>8. Cardinality(H) = Cardinality(h) - 1 BY <2>1, <2>6, <2>7, <1>2
  <2>9. IsFiniteSet(g) /\ Cardinality(g) = Cardinality(h) - 1 BY <2>5, <2>7, <2>8, Zenon
  <2>10. Len(d) = Len(c) + 1 BY <1>9, Zenon
  <2> DEFINE x1 == Cardinality(g)
             x2 == Cardinality(h)
             x3 == Len(d)
             x4 == Len(c)
  <2>11. x1 = x2 - 1 /\ x3 = x4 + 1 /\ x2 \in Nat /\ x4 \in Nat BY <2>9, <2>10, <1>2, Zenon
  <2> HIDE DEF x1, x2, x3, x4
  <2>12. x1 + x3 = x2 + x4 BY <2>11
  <2> QED BY <2>9, <2>12, Zenon DEF x1, x2, x3, x4
<1>14. \A x \in h : Tagged(x, Len(d))
  <2> SUFFICES ASSUME NEW x \in h PROVE Tagged(x, Len(d)) OBVIOUS
  <2>1. Tagged(x, m) BY <1>1 DEF m
  <2>2. \A v \in 0 .. m - 1 : v \in 0 .. Len(d) - 1 BY <1>2, <1>9 DEF m
  <2> QED BY <2>1, <2>2 DEF Tagged
<1>15. Tagged(i, Len(d))
  <2>1. m \in 0 .. Len(d) - 1 /\ i.tag = Len(Order) + m + 1 BY <1>2, <1>6, <1>9 DEF m
  <2> QED BY <2>1, <1>6 DEF Tagged
<1>16. i.weight \in Nat BY <1>1, <1>3, <1>4, <1>6
<1>17. \A x \in g : x.weight \in Nat /\ Tagged(x, Len(d))
  <2>1. \A x \in g : x \in h \/ x = i OBVIOUS
  <2> QED BY <2>1, <1>1, <1>14, <1>15, <1>16
<1> QED BY <1>1, <1>9, <1>12, <1>13, <1>17 DEF Heaped, E

\* The last four, and how they are paired.
LEMMA JoinedAre ==
  ASSUME Heaped(heap, children), Cardinality(heap) = 4
  PROVE  \E a, b, c, d :
           /\ heap = {a, b, c, d}
           /\ a.child # b.child /\ a.child # c.child /\ a.child # d.child
           /\ b.child # c.child /\ b.child # d.child /\ c.child # d.child
           /\ Joined = <<<<a.child, b.child>>, <<c.child, d.child>>,
                         <<Node(Len(children)), Node(Len(children) + 1)>>>>
<1> DEFINE h == heap
<1>0. Cardinality(h) = 4 OBVIOUS
<1>1. IsFiniteSet(h) /\ \A x, y \in h : x.child = y.child => x = y BY DEF Heaped
<1> DEFINE a == Lightest(h)
           b == Lightest(h \ {a})
           c == Lightest(h \ {a, b})
           d == Lightest(h \ {a, b, c})
<1>2. a \in h
  <2>1. {} \in SUBSET h /\ IsFiniteSet({}) /\ Cardinality({}) = 0 BY FS_EmptySet
  <2>2. Cardinality({}) < Cardinality(h) BY <2>1, <1>0
  <2>3. Lightest(h \ {}) \in h \ {} BY <2>1, <2>2, LightestsAre
  <2>4. h \ {} = h OBVIOUS
  <2> QED BY <2>3, <2>4
<1> HIDE DEF a
<1>3. b \in h /\ b # a /\ IsFiniteSet({a}) /\ Cardinality({a}) = 1
  <2>1. {a} \in SUBSET h BY <1>2
  <2>2. IsFiniteSet({a}) /\ Cardinality({a}) = 1 BY FS_Singleton
  <2>3. Cardinality({a}) < Cardinality(h) BY <2>2, <1>0
  <2>4. Lightest(h \ {a}) \in h \ {a} BY <2>1, <2>2, <2>3, LightestsAre
  <2> QED BY <2>2, <2>4
<1> HIDE DEF b
<1>4. c \in h /\ c # a /\ c # b /\ IsFiniteSet({a, b}) /\ Cardinality({a, b}) = 2
  <2> DEFINE X == {a, b}
  <2>1. X \in SUBSET h BY <1>2, <1>3
  <2>2. X = {a} \cup {b} OBVIOUS
  <2>3. b \notin {a} BY <1>3
  <2>4. IsFiniteSet({a} \cup {b}) /\ Cardinality({a} \cup {b}) = Cardinality({a}) + 1
    BY <1>3, <2>3, FS_AddElement
  <2> HIDE DEF X
  <2>5. IsFiniteSet(X) /\ Cardinality(X) = 2 BY <2>2, <2>4, <1>3
  <2>6. Cardinality(X) < Cardinality(h) BY <2>5, <1>0
  <2>7. Lightest(h \ X) \in h \ X BY <2>1, <2>5, <2>6, LightestsAre
  <2> QED BY <2>5, <2>7 DEF X
<1> HIDE DEF c
<1>5. d \in h /\ d # a /\ d # b /\ d # c /\ IsFiniteSet({a, b, c}) /\ Cardinality({a, b, c}) = 3
  <2> DEFINE X == {a, b, c}
  <2>1. X \in SUBSET h BY <1>2, <1>3, <1>4
  <2>2. X = {a, b} \cup {c} OBVIOUS
  <2>3. c \notin {a, b} BY <1>4
  <2>4. IsFiniteSet({a, b} \cup {c}) /\ Cardinality({a, b} \cup {c}) = Cardinality({a, b}) + 1
    BY <1>4, <2>3, FS_AddElement
  <2> HIDE DEF X
  <2>5. IsFiniteSet(X) /\ Cardinality(X) = 3 BY <2>2, <2>4, <1>4
  <2>6. Cardinality(X) < Cardinality(h) BY <2>5, <1>0
  <2>7. Lightest(h \ X) \in h \ X BY <2>1, <2>5, <2>6, LightestsAre
  <2> QED BY <2>5, <2>7 DEF X
<1> HIDE DEF d
<1>6. h = {a, b, c, d}
  <2> DEFINE X == {a, b, c, d}
  <2>1. X \in SUBSET h BY <1>2, <1>3, <1>4, <1>5
  <2>2. X = {a, b, c} \cup {d} OBVIOUS
  <2>3. d \notin {a, b, c} BY <1>5
  <2>4. Cardinality({a, b, c} \cup {d}) = Cardinality({a, b, c}) + 1 BY <1>5, <2>3, FS_AddElement
  <2>5. Cardinality(X) = 4 BY <2>2, <2>4, <1>5
  <2> HIDE DEF X
  <2>6. X = h BY <2>1, <2>5, <1>0, <1>1, FS_Subset
  <2> QED BY <2>6 DEF X
<1>7. /\ a.child # b.child /\ a.child # c.child /\ a.child # d.child
      /\ b.child # c.child /\ b.child # d.child /\ c.child # d.child
  BY <1>1, <1>2, <1>3, <1>4, <1>5
<1>8. Joined = <<<<a.child, b.child>>, <<c.child, d.child>>, <<Node(Len(children)), Node(Len(children) + 1)>>>>
  BY DEF Joined, a, b, c, d
<1> HIDE DEF h
<1>9. heap = {a, b, c, d} BY <1>6 DEF h
<1> QED BY <1>7, <1>8, <1>9

\* What is left of it is laid out under one root.
LEMMA LaidIs ==
  ASSUME Heaped(heap, children), Cardinality(heap) = Stop
  PROVE  Proper(children \o (IF minDepth = 2 THEN Joined ELSE <<>>))
<1> DEFINE h == heap
           k == children
           m == Len(k)
           C == {x.child : x \in h}
<1>1. /\ IsFiniteSet(h)
      /\ \A x, y \in h : x.child = y.child => x = y
      /\ Loose(k, C)
      /\ Cardinality(h) + m \in 2 .. Len(Order)
  BY DEF Heaped
<1>2. m \in Nat /\ k \in Seq(Hanging \X Hanging) BY <1>1 DEF Loose, Woven
<1>3. CASE minDepth = 2
  <2>1. Cardinality(h) = 4 BY <1>3 DEF Stop
  <2>2. PICK a, b, c, d :
          /\ h = {a, b, c, d}
          /\ a.child # b.child /\ a.child # c.child /\ a.child # d.child
          /\ b.child # c.child /\ b.child # d.child /\ c.child # d.child
          /\ Joined = <<<<a.child, b.child>>, <<c.child, d.child>>, <<Node(m), Node(m + 1)>>>>
    BY <2>1, JoinedAre
  <2> DEFINE p == a.child
             q == b.child
             r == c.child
             s == d.child
  <2>7. p # q /\ p # r /\ p # s /\ q # r /\ q # s /\ r # s
    BY <2>2
  <2>8. C = {p, q, r, s} BY <2>2
  <2>9. Joined = <<<<p, q>>, <<r, s>>, <<Node(m), Node(m + 1)>>>>
    BY <2>2
  <2> HIDE DEF p, q, r, s, C, k, m
  <2> DEFINE e1 == <<p, q>>
             e2 == <<r, s>>
             e3 == <<Node(m), Node(m + 1)>>
             k1 == Append(k, e1)
             k2 == Append(k1, e2)
             k3 == Append(k2, e3)
             C1 == (C \ {p, q}) \cup {Node(Len(k))}
             C2 == (C1 \ {r, s}) \cup {Node(Len(k1))}
             C3 == (C2 \ {Node(m), Node(m + 1)}) \cup {Node(Len(k2))}
  <2>10. \A z \in C : Hangs(z, m) BY <1>1 DEF Loose, m
  <2>11. \A z \in C : z # Node(m) /\ z # Node(m + 1)
    <3> SUFFICES ASSUME NEW z \in C, NEW j \in {m, m + 1}, z = Node(j) PROVE FALSE OBVIOUS
    <3>1. z \in Symbols \/ \E v \in 0 .. m - 1 : z = Node(v) BY <2>10 DEF Hangs
    <3>2. j \in Nat BY <1>2 DEF m, k
    <3>3. Node(j) \notin Symbols BY <3>2, NodeIsKept
    <3>4. PICK v \in 0 .. m - 1 : Node(j) = Node(v) BY <3>1, <3>3
    <3>5. j = v BY <3>4, NodesDiffer
    <3> QED BY <3>5, <1>2 DEF m, k
  <2>12. Loose(k1, C1) /\ Len(k1) = Len(k) + 1
    <3>1. Loose(k, C) /\ p \in C /\ q \in C /\ p # q BY <1>1, <2>7, <2>8 DEF k
    <3>2. k1 = Append(k, <<p, q>>) /\ C1 = (C \ {p, q}) \cup {Node(Len(k))} BY Zenon
    <3> HIDE DEF k1, C1
    <3>3. Under(k, C, p, q, k1, C1) BY <3>1, <3>2, Zenon DEF Under
    <3> QED BY <3>3, UnderNode, Zenon
  <2>13. r \in C1 /\ s \in C1 /\ r # s BY <2>7, <2>8
  <2> HIDE DEF k1, C1
  <2>14. Loose(k2, C2) /\ Len(k2) = Len(k1) + 1
    <3>1. k2 = Append(k1, <<r, s>>) /\ C2 = (C1 \ {r, s}) \cup {Node(Len(k1))} BY Zenon
    <3> HIDE DEF k2, C2
    <3>2. Loose(k1, C1) /\ r \in C1 /\ s \in C1 /\ r # s BY <2>12, <2>13
    <3>3. Under(k1, C1, r, s, k2, C2) BY <3>1, <3>2, Zenon DEF Under
    <3> QED BY <3>3, UnderNode, Zenon
  <2>15. Len(k) = m /\ m \in Nat /\ Len(k1) = m + 1 /\ Len(k2) = m + 2 BY <1>2, <2>12, <2>14 DEF m, k
  <2>16. Node(m) # Node(m + 1)
    <3> SUFFICES ASSUME Node(m) = Node(m + 1) PROVE FALSE OBVIOUS
    <3> DEFINE n == m + 1
    <3>1. n # m BY <2>15
    <3> HIDE DEF n
    <3>2. Node(m) = Node(n) BY DEF n
    <3>3. m = n BY <3>2, NodesDiffer
    <3> QED BY <3>1, <3>3
  <2>17. C2 = {Node(m), Node(m + 1)}
    <3>1. C1 = {r, s, Node(m)} BY <2>7, <2>8, <2>15 DEF C1
    <3>2. r # Node(m) /\ s # Node(m) BY <2>8, <2>11
    <3> QED BY <3>1, <3>2, <2>15
  <2> HIDE DEF k2, C2
  <2>18. Loose(k3, C3) /\ Len(k3) = Len(k2) + 1
    <3> DEFINE x == Node(m)
               y == Node(m + 1)
    <3>1. k3 = Append(k2, <<x, y>>) /\ C3 = (C2 \ {x, y}) \cup {Node(Len(k2))} OBVIOUS
    <3>2. x \in C2 /\ y \in C2 /\ x # y BY <2>16, <2>17
    <3> HIDE DEF x, y, k3, C3
    <3>3. Loose(k2, C2) BY <2>14
    <3>4. Under(k2, C2, x, y, k3, C3) BY <3>1, <3>2, <3>3, Zenon DEF Under
    <3> QED BY <3>4, UnderNode, Zenon
  <2>19. C3 = {Node(m + 2)} BY <2>15, <2>17
  <2> HIDE DEF C3
  <2>20. Proper(k3)
    <3>1. Loose(k3, {Node(m + 2)}) /\ Len(k3) # 0 BY <2>15, <2>18, <2>19
    <3> HIDE DEF k3
    <3> QED BY <3>1, LooseLast
  <2>21. k3 = k \o <<e1, e2, e3>> BY DEF k2, k1
  <2>22. k \o Joined = k \o <<e1, e2, e3>> BY <2>9
  <2> QED BY <1>3, <2>20, <2>21, <2>22 DEF k
<1>4. CASE minDepth # 2
  <2>1. Cardinality(h) = 1 BY <1>4 DEF Stop
  <2>2. m # 0 BY <2>1, <1>1
  <2>3. PICK x : h = {x} BY <2>1, <1>1, FS_Singleton
  <2>4. C = {x.child} BY <2>3
  <2> HIDE DEF C
  <2>5. Loose(k, {x.child}) BY <2>4, <1>1
  <2>6. Proper(k) BY <2>2, <2>5, LooseLast
  <2>7. children \o <<>> = children
    <3>1. children \in Seq(Hanging \X Hanging) BY <1>2
    <3> DEFINE S == Hanging \X Hanging
    <3> HIDE DEF S
    <3>2. children \in Seq(S) BY <3>1 DEF S
    <3> QED BY <3>2
  <2> QED BY <2>6, <2>7, <1>4
<1> QED BY <1>3, <1>4

----------------------------------------------------------------------------
(* The specification. *)

\* The address of every node of a tree.
Where(t) == CHOOSE A : Addresses(t, A)

\* A node is somewhere.
LEMMA WhereIs == ASSUME NEW t, Tree(t) PROVE Addresses(t, Where(t))
BY AddressesExist, Zenon DEF Where

\* A stream is a sequence of bits, a whole number of bytes of them.
LEMMA StreamsAre ==
  ASSUME NEW bits \in Streams
  PROVE  /\ bits \in Seq({0, 1}) /\ Len(bits) \in Nat
         /\ \E b \in 0 .. MaxBytes : Len(bits) = b * Byte
<1>1. PICK b \in 0 .. MaxBytes : bits \in [1 .. b * Byte -> {0, 1}] BY DEF Streams
<1>2. b * Byte \in Nat BY InputAssumption
<1> DEFINE n == b * Byte
           S == {0, 1}
<1>3. n \in Nat /\ bits \in [1 .. n -> S] BY <1>1, <1>2
<1> HIDE DEF n, S
<1>4. bits \in Seq(S) /\ Len(bits) = n BY <1>3, SeqDef, LenProperties
<1> QED BY <1>3, <1>4 DEF n, S

\* So is what an encoder writes.
LEMMA PackedIs ==
  ASSUME NEW w, w \in Seq({0, 1}), NEW b \in 0 .. MaxBytes, NEW n, n = b * Byte
  PROVE  Packed(w, n) \in Streams /\ Len(Packed(w, n)) = n /\ n \in Nat
<1>1. n \in Nat BY InputAssumption
<1>2. Len(w) \in Nat /\ \A k \in 1 .. Len(w) : w[k] \in {0, 1} BY LenProperties, ElementOfSeq
<1>3. \A k \in 1 .. n : (IF k <= Len(w) THEN w[k] ELSE 0) \in {0, 1} BY <1>1, <1>2
<1> DEFINE p == Packed(w, n)
<1>4. p \in [1 .. n -> {0, 1}] BY <1>3 DEF Packed
<1> HIDE DEF p
<1>5. p \in [1 .. b * Byte -> {0, 1}] BY <1>4
<1>6. p \in Streams BY <1>5, Zenon DEF Streams
<1>7. Len(p) = n
  <2> DEFINE S == {0, 1}
  <2>1. p \in [1 .. n -> S] BY <1>4
  <2> HIDE DEF S
  <2>2. p \in Seq(S) BY <2>1, <1>1, SeqDef
  <2>3. DOMAIN p = 1 .. n BY <2>1
  <2>4. DOMAIN p = 1 .. Len(p) /\ Len(p) \in Nat BY <2>2, LenProperties
  <2> QED BY <2>1, <2>2, <1>1, LenProperties
<1> QED BY <1>1, <1>6, <1>7 DEF p

\* The builder: its items stand for what hangs below no node yet.
BuilderInv ==
  /\ phase \in {"idle", "merge", "built", "reading", "read", "raised"} /\ minDepth \in {1, 2}
  /\ \A item \in heap : item.weight \in Nat /\ item.tag \in 1 .. 2 * Len(Order)
  /\ phase = "idle" => children = <<>>
  /\ phase = "merge" => Heaped(heap, children)

\* From the end of a build there is a tree.
TreeInv ==
  /\ phase \in {"built", "reading", "read"} => tree # NoTree
  /\ tree # NoTree => Tree(tree)

\* The reader: it has read the codes of out and the way to the node it is at.
Reading == phase \in {"reading", "read"}
ReaderInv ==
  /\ stream \in Streams /\ at \in 0 .. Len(stream)
  /\ \A k \in DOMAIN out : out[k] \in Symbols
  /\ \A k \in DOMAIN starts : starts[k] \in 0 .. at
  /\ Reading => Reads(tree, Where(tree), stream, at, nn, out) /\ Started(Codes(tree), out, starts)
  /\ phase = "read" => at = Len(stream)

\* What a stream was written from is what is read from it.
TextInv ==
  /\ phase \in {"idle", "merge", "built"} => text = NoText /\ old = NoText
  /\ Reading /\ text # NoText /\ Len(Bits(Codes(tree), text)) <= Len(stream) =>
       Fits(tree, stream, text) /\ Follows(tree, Where(tree), nn, out, text)
  /\ Reading /\ old # NoText =>
       /\ Fits(tree, stream, old.out) /\ Follows(tree, Where(tree), nn, out, old.out)
       /\ Started(Codes(tree), old.out, old.starts)

\* The inductive invariant.
IInv == BuilderInv /\ TreeInv /\ ReaderInv /\ TextInv

\* It holds before anything is built, and every action keeps it.
LEMMA InvFirst == Init => IInv
<1> SUFFICES ASSUME Init PROVE IInv OBVIOUS
<1> USE DEF Init
<1>1. BuilderInv BY DEF BuilderInv
<1>2. TreeInv BY DEF TreeInv
<1>3. ReaderInv
  <2>1. <<>> \in Streams
    <3>1. 0 \in 0 .. MaxBytes /\ 0 * Byte = 0 BY InputAssumption
    <3>2. <<>> \in [1 .. 0 -> {0, 1}] OBVIOUS
    <3> QED BY <3>1, <3>2 DEF Streams
  <2>2. Len(<<>>) = 0 /\ 0 \in 0 .. Len(<<>>) OBVIOUS
  <2>3. \A k \in DOMAIN <<>> : FALSE OBVIOUS
  <2>4. \A k \in DOMAIN <<0>> : <<0>>[k] \in 0 .. 0 OBVIOUS
  <2>5. ~Reading /\ phase # "read" BY DEF Reading
  <2>6. stream \in Streams /\ at \in 0 .. Len(stream) BY <2>1, <2>2
  <2>7. \A k \in DOMAIN out : out[k] \in Symbols BY <2>3
  <2>8. \A k \in DOMAIN starts : starts[k] \in 0 .. at BY <2>4
  <2> QED BY <2>5, <2>6, <2>7, <2>8 DEF ReaderInv
<1>4. TextInv BY DEF TextInv, Reading
<1> QED BY <1>1, <1>2, <1>3, <1>4 DEF IInv

\* A build begins.
LEMMA InvBuild ==
  ASSUME IInv, NEW f \in Frequencies, NEW depth \in MinDepths, Build(f, depth)
  PROVE  IInv'
<1>1. /\ phase = "idle" /\ minDepth' = depth
      /\ heap' = {[weight |-> f[s], tag |-> Position(s), child |-> s] : s \in DOMAIN f}
      /\ phase' = (IF Cardinality(DOMAIN f) < 2 * depth THEN "raised" ELSE "merge")
      /\ children' = children /\ tree' = tree /\ stream' = stream /\ text' = text /\ old' = old
      /\ at' = at /\ nn' = nn /\ out' = out /\ starts' = starts
  BY DEF Build, reader
<1>2. DOMAIN f \subseteq Symbols /\ (\A s \in DOMAIN f : f[s] \in Nat) /\ depth \in {1, 2} BY InputAssumption
<1>3. /\ \A x \in heap' : x.weight \in Nat /\ x.tag \in 1 .. 2 * Len(Order)
      /\ Cardinality(DOMAIN f) >= 2 => Heaped(heap', <<>>)
  <2> DEFINE h == {[weight |-> f[s], tag |-> Position(s), child |-> s] : s \in DOMAIN f}
  <2>1. /\ \A x \in h : x.weight \in Nat /\ x.tag \in 1 .. 2 * Len(Order)
        /\ Cardinality(DOMAIN f) >= 2 => Heaped(h, <<>>)
    BY <1>2, HeapFirst
  <2>2. heap' = h BY <1>1
  <2> HIDE DEF h
  <2> QED BY <2>1, <2>2
<1>4. children = <<>> BY <1>1 DEF IInv, BuilderInv
<1>5. phase' = "merge" => Cardinality(DOMAIN f) >= 2
  <2>1. DOMAIN f \in SUBSET Symbols BY <1>2
  <2> DEFINE D == DOMAIN f
  <2> HIDE DEF D
  <2>2. IsFiniteSet(D) BY <2>1, SymbolsAreFew, FS_Subset DEF D
  <2>3. Cardinality(D) \in Nat BY <2>2, FS_CardinalityType
  <2> QED BY <2>3, <1>1, <1>2 DEF D
<1>6. BuilderInv' BY <1>1, <1>2, <1>3, <1>4, <1>5 DEF BuilderInv
<1>7. phase' \notin {"built", "reading", "read", "idle"} /\ ~Reading' BY <1>1 DEF Reading
<1>8. TreeInv' BY <1>1, <1>7 DEF IInv, TreeInv
<1>9. ReaderInv' BY <1>1, <1>7 DEF IInv, ReaderInv
<1>10. TextInv' BY <1>1, <1>7 DEF IInv, TextInv
<1> QED BY <1>6, <1>8, <1>9, <1>10 DEF IInv

\* Two items are merged.
LEMMA InvMerge == ASSUME IInv, Merge PROVE IInv'
<1> DEFINE a == Lightest(heap)
           b == Lightest(heap \ {a})
           i == [weight |-> a.weight + b.weight, tag |-> Len(Order) + Len(children'), child |-> Node(Len(children))]
<1>1. /\ phase = "merge" /\ Cardinality(heap) > Stop
      /\ children' = Append(children, <<a.child, b.child>>)
      /\ heap' = (heap \ {a, b}) \cup {i}
      /\ phase' = phase /\ minDepth' = minDepth
      /\ tree' = tree /\ stream' = stream /\ text' = text /\ old' = old
      /\ at' = at /\ nn' = nn /\ out' = out /\ starts' = starts
  BY DEF Merge, reader
<1>2. Heaped(heap, children) /\ Cardinality(heap) > 1
  <2>1. Heaped(heap, children) BY <1>1 DEF IInv, BuilderInv
  <2>2. Cardinality(heap) \in Nat BY <2>1, TagsAre
  <2>3. Stop \in Nat \ {0} BY DEF Stop
  <2> QED BY <2>1, <2>2, <2>3, <1>1
<1>3. Heaped(heap', children')
  <2>1. a = Lightest(heap) /\ b = Lightest(heap \ {a}) OBVIOUS
  <2>2. i = [weight |-> a.weight + b.weight, tag |-> Len(Order) + Len(children'), child |-> Node(Len(children))]
    OBVIOUS
  <2> HIDE DEF a, b, i
  <2> QED BY <1>1, <1>2, <2>1, <2>2, MergedIs, Zenon
<1> HIDE DEF a, b, i
<1>4. \A x \in heap' : x.weight \in Nat /\ x.tag \in 1 .. 2 * Len(Order)
  <2>1. \A x \in heap' : x.weight \in Nat BY <1>3 DEF Heaped
  <2>2. \A x \in heap' : x.tag \in 1 .. 2 * Len(Order) BY <1>3, TagsAre
  <2> QED BY <2>1, <2>2
<1>5. BuilderInv'
  <2>1. minDepth \in {1, 2} BY DEF IInv, BuilderInv
  <2> QED BY <2>1, <1>1, <1>3, <1>4 DEF BuilderInv
<1>6. ~Reading' /\ phase' \notin {"built", "reading", "read", "idle"} BY <1>1 DEF Reading
<1>7. TreeInv' BY <1>1, <1>6 DEF IInv, TreeInv
<1>8. ReaderInv' BY <1>1, <1>6 DEF IInv, ReaderInv
<1>9. TextInv' BY <1>1, <1>6 DEF IInv, TextInv
<1> QED BY <1>5, <1>7, <1>8, <1>9 DEF IInv

\* The array is laid out.
LEMMA InvLay == ASSUME IInv, Lay PROVE IInv'
<1> DEFINE c == children \o (IF minDepth = 2 THEN Joined ELSE <<>>)
<1>1. /\ phase = "merge" /\ Cardinality(heap) = Stop
      /\ tree' = LayOut(c) /\ phase' = "built" /\ heap' = {}
      /\ minDepth' = minDepth /\ stream' = stream /\ text' = text /\ old' = old
      /\ at' = at /\ nn' = nn /\ out' = out /\ starts' = starts
  BY DEF Lay, reader
<1>2. Heaped(heap, children) BY <1>1 DEF IInv, BuilderInv
<1>3. Proper(c) BY <1>1, <1>2, LaidIs
<1> HIDE DEF c
<1>4. Tree(tree') /\ tree' # NoTree BY <1>1, <1>3, LaidOut
<1>5. BuilderInv' BY <1>1 DEF IInv, BuilderInv
<1>6. ~Reading' /\ phase' # "read" BY <1>1 DEF Reading
<1>7. TreeInv' BY <1>4 DEF TreeInv
<1>8. ReaderInv' BY <1>1, <1>6 DEF IInv, ReaderInv
<1>9. TextInv' BY <1>1, <1>6 DEF IInv, TextInv
<1> QED BY <1>5, <1>7, <1>8, <1>9 DEF IInv

\* A reader that is put before the first bit.
LEMMA InvRewound ==
  ASSUME IInv, phase' = "reading", Tree(tree'), tree' # NoTree, stream' \in Streams, Rewound, minDepth' \in {1, 2},
         \A item \in heap' : item.weight \in Nat /\ item.tag \in 1 .. 2 * Len(Order),
         \/ text' = NoText
         \/ text' \in Seq(DOMAIN Codes(tree')) /\ stream' = Packed(Bits(Codes(tree'), text'), Len(stream')),
         \/ old' = NoText
         \/ Fits(tree', stream', old'.out) /\ Started(Codes(tree'), old'.out, old'.starts)
  PROVE  IInv'
<1> DEFINE t == tree'
           A == Where(t)
           K == Codes(t)
<1>1. at' = 0 /\ nn' = t.root /\ out' = <<>> /\ starts' = <<0>> BY DEF Rewound
<1>2. Addresses(t, A) BY WhereIs
<1>3. stream' \in Seq({0, 1}) /\ Len(stream') \in Nat BY StreamsAre
<1>4. Reads(t, A, stream', 0, t.root, <<>>) BY <1>2, <1>3, ReadsNone
<1>5. Started(K, <<>>, <<0>>) BY StartedFirst
<1>6. ASSUME NEW x, x \in Seq(DOMAIN K) PROVE Follows(t, A, t.root, <<>>, x)
  <2> DEFINE w == <<>>
  <2>1. Len(w) = 0 /\ 0 \in Nat OBVIOUS
  <2>2. Len(x) \in Nat BY <1>6, <1>2, TextsAreCoded
  <2>3. Len(w) \in Nat /\ Len(w) <= Len(x) /\ \A k \in 1 .. Len(w) : w[k] = x[k] BY <2>1, <2>2
  <2> HIDE DEF w, A
  <2>4. Follows(t, A, t.root, w, x) BY <2>3, <1>2, <1>6, FollowsFirst
  <2> QED BY <2>4 DEF w
<1>7. BuilderInv' BY DEF BuilderInv
<1>8. TreeInv' BY DEF TreeInv
<1>9. ReaderInv'
  <2>1. stream' \in Streams /\ at' \in 0 .. Len(stream') /\ phase' # "read" BY <1>1, <1>3
  <2>2. \A k \in DOMAIN out' : out'[k] \in Symbols BY <1>1
  <2>3. \A k \in DOMAIN starts' : starts'[k] \in 0 .. at'
    <3>1. \A k \in DOMAIN <<0>> : <<0>>[k] \in 0 .. 0 OBVIOUS
    <3> QED BY <3>1, <1>1
  <2>4. Reads(tree', Where(tree'), stream', at', nn', out') /\ Started(Codes(tree'), out', starts')
    BY <1>1, <1>4, <1>5, Zenon
  <2> QED BY <2>1, <2>2, <2>3, <2>4 DEF ReaderInv
<1>10. TextInv'
  <2>1. ASSUME text' # NoText, Len(Bits(Codes(tree'), text')) <= Len(stream')
        PROVE  Fits(tree', stream', text') /\ Follows(tree', Where(tree'), nn', out', text')
    <3>1. text' \in Seq(DOMAIN K) /\ stream' = Packed(Bits(K, text'), Len(stream')) BY <2>1
    <3>2. Follows(tree', Where(tree'), nn', out', text') BY <3>1, <1>1, <1>6, Zenon
    <3>3. Fits(tree', stream', text') BY <2>1, <3>1, Zenon DEF Fits
    <3> QED BY <3>2, <3>3
  <2>2. ASSUME old' # NoText
        PROVE  /\ Fits(tree', stream', old'.out) /\ Follows(tree', Where(tree'), nn', out', old'.out)
               /\ Started(Codes(tree'), old'.out, old'.starts)
    <3>1. Fits(tree', stream', old'.out) /\ Started(Codes(tree'), old'.out, old'.starts) BY <2>2
    <3>2. old'.out \in Seq(DOMAIN K) BY <3>1 DEF Fits
    <3>3. Follows(tree', Where(tree'), nn', out', old'.out) BY <3>2, <1>1, <1>6, Zenon
    <3> QED BY <3>1, <3>3
  <2>3. phase' \notin {"idle", "merge", "built"} OBVIOUS
  <2> HIDE DEF K, A, t
  <2> QED BY <2>1, <2>2, <2>3, Zenon DEF TextInv
<1> QED BY <1>7, <1>8, <1>9, <1>10 DEF IInv

\* A text is written, or does not fit.
LEMMA InvEncode ==
  ASSUME IInv, NEW symbols \in Texts, NEW bytes \in 0 .. MaxBytes, Encode(symbols, bytes)
  PROVE  IInv'
<1> DEFINE K == Codes(tree)
           known == \A k \in DOMAIN symbols : symbols[k] \in DOMAIN K
           bits == Bits(K, symbols)
           n == bytes * Byte
<1>1. /\ phase = "built" /\ tree' = tree /\ old' = old /\ Rewound /\ minDepth' = 2
      /\ heap' = heap /\ children' = children
      /\ IF known /\ ~Overruns(bits, n)
           THEN phase' = "reading" /\ stream' = Packed(bits, n) /\ text' = symbols
           ELSE phase' = "raised" /\ stream' = stream /\ text' = text
  BY DEF Encode, Forgotten
<1>2. tree # NoTree /\ Tree(tree) BY <1>1 DEF IInv, TreeInv
<1>3. text = NoText /\ old = NoText BY <1>1 DEF IInv, TextInv
<1>4. \A item \in heap : item.weight \in Nat /\ item.tag \in 1 .. 2 * Len(Order) BY DEF IInv, BuilderInv
<1>5. CASE known /\ ~Overruns(bits, n)
  <2>1. phase' = "reading" /\ stream' = Packed(bits, n) /\ text' = symbols BY <1>1, <1>5
  <2>2. symbols \in Seq(DOMAIN K)
    <3>1. symbols \in Seq(Symbols) BY InputAssumption
    <3>2. Len(symbols) \in Nat /\ DOMAIN symbols = 1 .. Len(symbols) BY <3>1, LenProperties
    <3>3. \A k \in DOMAIN symbols : symbols[k] \in DOMAIN K BY <1>5
    <3> DEFINE D == DOMAIN K
               l == Len(symbols)
    <3>4. symbols = [k \in 1 .. l |-> symbols[k]] BY <3>1, <3>2
    <3>5. l \in Nat /\ \A k \in 1 .. l : symbols[k] \in D BY <3>2, <3>3
    <3> HIDE DEF D, l
    <3>6. symbols \in [1 .. l -> D] BY <3>4, <3>5
    <3>7. symbols \in Seq(D) BY <3>5, <3>6, SeqDef
    <3> QED BY <3>7 DEF D
  <2>3. bits \in Seq({0, 1}) BY <2>2, <1>2, WhereIs, TextsAreCoded
  <2> HIDE DEF bits
  <2>4. stream' \in Streams /\ Len(stream') = n BY <2>1, <2>3, PackedIs
  <2>5. stream' = Packed(bits, Len(stream')) BY <2>1, <2>4, Zenon
  <2>6. text' \in Seq(DOMAIN Codes(tree')) /\ stream' = Packed(Bits(Codes(tree'), text'), Len(stream'))
    BY <2>1, <2>2, <2>5, <1>1, Zenon DEF bits
  <2>7. /\ phase' = "reading" /\ Tree(tree') /\ tree' # NoTree /\ stream' \in Streams /\ Rewound /\ minDepth' \in {1, 2}
        /\ \A item \in heap' : item.weight \in Nat /\ item.tag \in 1 .. 2 * Len(Order)
        /\ old' = NoText
    BY <2>1, <2>4, <1>1, <1>2, <1>3, <1>4
  <2> QED BY <2>6, <2>7, InvRewound, Zenon
<1>6. CASE ~(known /\ ~Overruns(bits, n))
  <2>1. phase' = "raised" /\ stream' = stream /\ text' = text BY <1>1, <1>6
  <2>2. ~Reading' BY <2>1 DEF Reading
  <2>3. BuilderInv' BY <2>1, <1>1, <1>4 DEF BuilderInv
  <2>4. TreeInv' BY <1>1, <1>2 DEF TreeInv
  <2>5. ReaderInv'
    <3>1. at' = 0 /\ out' = <<>> /\ starts' = <<0>> BY <1>1 DEF Rewound
    <3>2. \A k \in DOMAIN <<0>> : <<0>>[k] \in 0 .. 0 OBVIOUS
    <3>3. stream \in Streams BY DEF IInv, ReaderInv
    <3>4. Len(stream) \in Nat BY <3>3, StreamsAre
    <3>5. stream' \in Streams /\ at' \in 0 .. Len(stream') /\ phase' # "read" BY <3>1, <3>3, <3>4, <2>1
    <3>6. \A k \in DOMAIN out' : out'[k] \in Symbols BY <3>1
    <3>7. \A k \in DOMAIN starts' : starts'[k] \in 0 .. at' BY <3>1, <3>2
    <3> QED BY <3>5, <3>6, <3>7, <2>2 DEF ReaderInv
  <2>6. TextInv' BY <2>1, <2>2 DEF TextInv
  <2> QED BY <2>3, <2>4, <2>5, <2>6 DEF IInv
<1> QED BY <1>5, <1>6

\* A stream is found in an archive.
LEMMA InvLoad == ASSUME IInv, NEW bits \in Streams, Load(bits) PROVE IInv'
<1>1. /\ phase = "built" /\ phase' = "reading" /\ stream' = bits /\ tree' = tree /\ text' = text /\ old' = old
      /\ Rewound /\ minDepth' = 2 /\ heap' = heap
  BY DEF Load, Forgotten
<1>2. tree # NoTree /\ Tree(tree) BY <1>1 DEF IInv, TreeInv
<1>3. text = NoText /\ old = NoText BY <1>1 DEF IInv, TextInv
<1>4. \A item \in heap : item.weight \in Nat /\ item.tag \in 1 .. 2 * Len(Order) BY DEF IInv, BuilderInv
<1>5. /\ phase' = "reading" /\ Tree(tree') /\ tree' # NoTree /\ stream' \in Streams /\ Rewound /\ minDepth' \in {1, 2}
      /\ \A item \in heap' : item.weight \in Nat /\ item.tag \in 1 .. 2 * Len(Order)
      /\ text' = NoText /\ old' = NoText
  BY <1>1, <1>2, <1>3, <1>4
<1> QED BY <1>5, InvRewound, Zenon

\* The stream ends.
LEMMA InvEndOfStream == ASSUME IInv, EndOfStream PROVE IInv'
<1>1. /\ phase = "reading" /\ at = Len(stream) /\ phase' = "read"
      /\ minDepth' = minDepth /\ heap' = heap /\ children' = children /\ tree' = tree /\ stream' = stream
      /\ at' = at /\ nn' = nn /\ out' = out /\ starts' = starts /\ text' = text /\ old' = old
  BY DEF EndOfStream, building, reader
<1>2. Reading /\ Reading' BY <1>1 DEF Reading
<1>3. BuilderInv' BY <1>1 DEF IInv, BuilderInv
<1>4. TreeInv' BY <1>1 DEF IInv, TreeInv
<1>5. ReaderInv' BY <1>1, <1>2 DEF IInv, ReaderInv
<1>6. TextInv' BY <1>1, <1>2 DEF IInv, TextInv
<1> QED BY <1>3, <1>4, <1>5, <1>6 DEF IInv

\* What was read is written with a tree of the same lengths.
LEMMA InvRecode == ASSUME IInv, Recode PROVE IInv'
<1>1. /\ phase = "read" /\ old = NoText /\ text' = NoText
      /\ minDepth' = minDepth /\ heap' = heap /\ children' = children
  BY DEF Recode, building
<1>2. Reading /\ at = Len(stream) BY <1>1 DEF IInv, ReaderInv, Reading
<1>3. tree # NoTree /\ Tree(tree) BY <1>1 DEF IInv, TreeInv
<1>4. minDepth \in {1, 2} /\ \A item \in heap : item.weight \in Nat /\ item.tag \in 1 .. 2 * Len(Order)
  BY DEF IInv, BuilderInv
<1> DEFINE A == Where(tree)
           K == Codes(tree)
           N == Len(stream)
<1>5. Reads(tree, A, stream, at, nn, out) /\ Started(K, out, starts) /\ stream \in Streams
  BY <1>2 DEF IInv, ReaderInv
<1>6. CASE Kraft(InOrder(LengthsOf(tree)))
  <2> DEFINE u == tree'
             L == Codes(u)
  <2>1. /\ phase' = "reading" /\ u = BuildFromLengths(LengthsOf(tree))
        /\ stream' = Packed(Bits(L, out), N) /\ old' = [out |-> out, starts |-> starts] /\ Rewound
    BY <1>6 DEF Recode
  <2>2. /\ Tree(u) /\ u # NoTree /\ DOMAIN L = DOMAIN K
        /\ \A s \in DOMAIN K : Len(L[s]) = Len(K[s])
    BY <2>1, <1>3, <1>6, RebuiltIs
  <2>3. Addresses(tree, A) BY <1>3, WhereIs
  <2>4. Addresses(u, Where(u)) BY <2>2, WhereIs
  <2>5. out \in Seq(DOMAIN K) BY <1>5 DEF Reads
  <2>6. out \in Seq(DOMAIN L) BY <2>2, <2>5
  <2>7. Coded(K, out) /\ Len(out) \in Nat /\ \A k \in 1 .. Len(out) : out[k] \in DOMAIN K
    BY <1>3, <2>3, <2>5, TextsAreCoded
  <2>8. Coded(L, out) /\ Bits(L, out) \in Seq({0, 1}) BY <2>2, <2>4, <2>6, TextsAreCoded
  <2>9. AsLong(K, L, out) BY <2>2, <2>7 DEF AsLong, CodeAt
  <2>10. Started(L, out, starts) BY <2>7, <2>8, <2>9, <1>5, StartedAlike
  <2>11. AsFar(K, L, out, Len(out)) BY <2>7, <2>8, <2>9, BitsAsLong
  <2>12. Len(Bits(K, out)) = Len(Bits(L, out)) BY <2>11, Zenon DEF AsFar, Bits
  <2>13. Len(Bits(K, out)) <= Len(stream)
    <3>1. stream \in Seq({0, 1}) BY <1>5, StreamsAre
    <3>2. Reads(tree, A, stream, Len(stream), nn, out) BY <1>2, <1>5
    <3> HIDE DEF A
    <3> QED BY <3>1, <3>2, <2>3, <1>3, ReadsStream
  <2> HIDE DEF A, K, L, u
  <2>14. stream' \in Streams /\ Len(stream') = N
    <3>1. PICK b \in 0 .. MaxBytes : N = b * Byte BY <1>5, StreamsAre
    <3> DEFINE w == Bits(L, out)
    <3>2. w \in Seq({0, 1}) BY <2>8
    <3>3. stream' = Packed(w, N) BY <2>1
    <3> HIDE DEF w, N
    <3>4. Packed(w, N) \in Streams /\ Len(Packed(w, N)) = N BY <3>1, <3>2, PackedIs
    <3> QED BY <3>3, <3>4
  <2>15. stream' = Packed(Bits(L, out), Len(stream')) BY <2>1, <2>14, Zenon
  <2>16. Len(Bits(L, out)) <= Len(stream') BY <2>12, <2>13, <2>14
  <2>17. old'.out = out /\ old'.starts = starts BY <2>1
  <2>18. Fits(u, stream', out) BY <2>6, <2>15, <2>16, Zenon DEF Fits, L
  <2>19. Fits(tree', stream', old'.out) /\ Started(Codes(tree'), old'.out, old'.starts)
    BY <2>10, <2>17, <2>18, Zenon DEF u, L
  <2>20. /\ phase' = "reading" /\ Tree(tree') /\ tree' # NoTree /\ stream' \in Streams /\ Rewound /\ minDepth' \in {1, 2}
         /\ \A item \in heap' : item.weight \in Nat /\ item.tag \in 1 .. 2 * Len(Order)
         /\ text' = NoText
    <3>1. phase' = "reading" /\ Rewound /\ text' = NoText /\ minDepth' \in {1, 2} BY <1>1, <1>4, <2>1
    <3>2. \A item \in heap' : item.weight \in Nat /\ item.tag \in 1 .. 2 * Len(Order) BY <1>1, <1>4
    <3>3. Tree(tree') /\ tree' # NoTree BY <2>2 DEF u
    <3> QED BY <3>1, <3>2, <3>3, <2>14
  <2> QED BY <2>19, <2>20, InvRewound, Zenon
<1>7. CASE ~Kraft(InOrder(LengthsOf(tree)))
  <2>1. /\ phase' = "raised" /\ tree' = tree /\ stream' = stream /\ old' = old
        /\ at' = at /\ nn' = nn /\ out' = out /\ starts' = starts
    BY <1>7 DEF Recode, reader
  <2>2. ~Reading' /\ phase' # "read" BY <2>1 DEF Reading
  <2>3. BuilderInv' BY <2>1, <1>1, <1>4 DEF BuilderInv
  <2>4. TreeInv' BY <2>1, <1>3 DEF TreeInv
  <2>5. ReaderInv' BY <2>1, <2>2 DEF IInv, ReaderInv
  <2>6. TextInv' BY <2>1, <2>2 DEF TextInv
  <2> QED BY <2>3, <2>4, <2>5, <2>6 DEF IInv
<1> QED BY <1>6, <1>7

\* A bit is read.
LEMMA InvReadBit == ASSUME IInv, ReadBit PROVE IInv'
<1> DEFINE i == Slot(tree, nn, stream[at + 1])
           c == Entry(tree.pairs[i])
           A == Where(tree)
           K == Codes(tree)
<1>1. /\ phase = "reading" /\ at < Len(stream) /\ at' = at + 1
      /\ IF i \in DOMAIN tree.pairs
           THEN /\ nn' = (IF c.kind = "NODE" THEN c.value ELSE tree.root)
                /\ out' = (IF c.kind = "NODE" THEN out ELSE Append(out, c))
                /\ starts' = (IF c.kind = "END" THEN Append(starts, at') ELSE starts)
                /\ phase' = phase
           ELSE phase' = "raised" /\ nn' = nn /\ out' = out /\ starts' = starts
      /\ minDepth' = minDepth /\ heap' = heap /\ children' = children
      /\ tree' = tree /\ stream' = stream /\ text' = text /\ old' = old
  BY DEF ReadBit, building
<1>2. Reading /\ tree # NoTree /\ Tree(tree) BY <1>1 DEF IInv, TreeInv, Reading
<1>3. Addresses(tree, A) BY <1>2, WhereIs
<1>4. /\ stream \in Streams /\ at \in 0 .. Len(stream) /\ (\A k \in DOMAIN out : out[k] \in Symbols)
      /\ (\A k \in DOMAIN starts : starts[k] \in 0 .. at)
      /\ Reads(tree, A, stream, at, nn, out) /\ Started(K, out, starts)
  BY <1>2 DEF IInv, ReaderInv
<1>5. /\ text # NoText /\ Len(Bits(K, text)) <= Len(stream) =>
           Fits(tree, stream, text) /\ Follows(tree, A, nn, out, text)
      /\ old # NoText => /\ Fits(tree, stream, old.out) /\ Follows(tree, A, nn, out, old.out)
                         /\ Started(K, old.out, old.starts)
  BY <1>2 DEF IInv, TextInv
<1>6. stream \in Seq({0, 1}) /\ Len(stream) \in Nat BY <1>4, StreamsAre
<1> DEFINE e == stream[at + 1]
<1> HIDE DEF A
<1>7. /\ at + 1 \in 1 .. Len(stream) /\ e \in {0, 1}
      /\ \/ /\ Child(tree, nn, e) \in Symbols /\ Child(tree, nn, e) \in DOMAIN K
            /\ Reads(tree, A, stream, at + 1, tree.root, Append(out, Child(tree, nn, e)))
            /\ at + 1 = Len(Bits(K, Append(out, Child(tree, nn, e))))
         \/ \E v \in 0 .. tree.m - 2 : Child(tree, nn, e) = Node(v) /\ Reads(tree, A, stream, at + 1, v, out)
  BY <1>1, <1>2, <1>3, <1>4, <1>6, ReadsOn
<1>8. c = Child(tree, nn, e) BY DEF Child
<1>9. tree.m \in Nat \ {0} /\ DOMAIN tree.pairs = 0 .. 2 * tree.m /\ nn \in 0 .. tree.m - 1
      /\ tree.root \in 0 .. tree.m - 1 /\ out \in Seq(DOMAIN K)
  BY <1>2, <1>4 DEF Tree, Reads
<1>10. i \in DOMAIN tree.pairs
  <2>1. Slot(tree, nn, e) = nn \/ Slot(tree, nn, e) = tree.m + nn BY DEF Slot
  <2> HIDE DEF e
  <2>2. Slot(tree, nn, e) \in 0 .. 2 * tree.m BY <2>1, <1>9
  <2> QED BY <2>2, <1>9 DEF e
<1>11. /\ nn' = (IF c.kind = "NODE" THEN c.value ELSE tree.root)
       /\ out' = (IF c.kind = "NODE" THEN out ELSE Append(out, c))
       /\ starts' = (IF c.kind = "END" THEN Append(starts, at') ELSE starts)
       /\ phase' = "reading" /\ Reading'
  BY <1>1, <1>10 DEF Reading
<1>12. BuilderInv' BY <1>1, <1>11 DEF IInv, BuilderInv
<1>13. TreeInv' BY <1>1, <1>2 DEF TreeInv
<1>14. ASSUME NEW x, Fits(tree, stream, x), Follows(tree, A, nn, out, x)
       PROVE  /\ c \in Symbols => Follows(tree, A, tree.root, Append(out, c), x)
              /\ \A v \in 0 .. tree.m - 2 : c = Node(v) => Follows(tree, A, v, out, x)
  <2>1. /\ Child(tree, nn, stream[at + 1]) \in Symbols =>
              Follows(tree, A, tree.root, Append(out, Child(tree, nn, stream[at + 1])), x)
        /\ \A v \in 0 .. tree.m - 2 : Child(tree, nn, stream[at + 1]) = Node(v) => Follows(tree, A, v, out, x)
    BY <1>1, <1>2, <1>3, <1>4, <1>6, <1>14, FollowsOn
  <2>2. c = Child(tree, nn, stream[at + 1]) BY <1>8
  <2> HIDE DEF c
  <2> QED BY <2>1, <2>2, Zenon
<1>15. at' = at + 1 /\ at' \in 0 .. Len(stream) /\ at \in Nat BY <1>1, <1>4, <1>6, <1>7
<1>16. Started(K, out, starts) /\ starts \in Seq(Nat) /\ DOMAIN starts = 1 .. Len(starts) /\ Len(starts) \in Nat
  <2>1. starts \in Seq(Nat) BY <1>4 DEF Started
  <2> QED BY <2>1, <1>4, LenProperties
<1>17. \A k \in DOMAIN starts' : starts'[k] \in 0 .. at'
  <2>1. \A k \in DOMAIN starts : starts[k] \in 0 .. at' BY <1>4, <1>15
  <2>2. CASE c.kind = "END"
    <3>1. starts' = Append(starts, at') BY <2>2, <1>11
    <3>2. at' \in Nat BY <1>15
    <3> DEFINE a == at'
               q == Append(starts, a)
    <3>3. a \in Nat BY <3>2
    <3> HIDE DEF a
    <3>4. DOMAIN q = 1 .. Len(starts) + 1 /\ q[Len(starts) + 1] = a /\ \A k \in 1 .. Len(starts) : q[k] = starts[k]
      <4>1. q \in Seq(Nat) /\ Len(q) = Len(starts) + 1 /\ q[Len(starts) + 1] = a
            /\ \A k \in 1 .. Len(starts) : q[k] = starts[k]
        BY <3>3, <1>16, AppendProperties
      <4> HIDE DEF q
      <4>2. DOMAIN q = 1 .. Len(q) BY <4>1, LenProperties
      <4> QED BY <4>1, <4>2
    <3> HIDE DEF q
    <3>5. \A k \in 1 .. Len(starts) : q[k] \in 0 .. a BY <3>4, <2>1, <1>16 DEF a
    <3>6. a \in 0 .. a BY <3>3
    <3>7. \A k \in 1 .. Len(starts) + 1 : k \in 1 .. Len(starts) \/ k = Len(starts) + 1 BY <1>16
    <3>8. \A k \in DOMAIN q : q[k] \in 0 .. a BY <3>4, <3>5, <3>6, <3>7
    <3>9. starts' = q BY <3>1 DEF q, a
    <3> QED BY <3>8, <3>9 DEF a
  <2>3. CASE c.kind # "END"
    <3>1. starts' = starts BY <2>3, <1>11
    <3> QED BY <2>1, <3>1
  <2> QED BY <2>2, <2>3
<1>18. CASE c \in Symbols
  <2>1. c.kind # "NODE" BY <1>18, SymbolIsKept
  <2>2. nn' = tree.root /\ out' = Append(out, c) BY <2>1, <1>11
  <2>3. \A v \in Nat : c # Node(v) BY <1>18, NodeIsKept
  <2>4. /\ c \in DOMAIN K /\ Reads(tree, A, stream, at + 1, tree.root, Append(out, c))
        /\ at + 1 = Len(Bits(K, Append(out, c)))
    <3>1. \A v \in 0 .. tree.m - 2 : v \in Nat BY <1>9
    <3> HIDE DEF c, e, K
    <3> QED BY <3>1, <2>3, <1>7, <1>8
  <2>5. \A s \in DOMAIN K : K[s] \in Seq({0, 1}) BY <1>2, <1>3, CodesBelow
  <2> DEFINE D == DOMAIN K
  <2>6. out \in Seq(D) /\ c \in D /\ \A s \in D : K[s] \in Seq({0, 1}) BY <1>9, <2>4, <2>5
  <2> HIDE DEF c, e, D, K, i
  <2>7. IF c.kind = "END" THEN Started(K, Append(out, c), Append(starts, Len(Bits(K, Append(out, c)))))
                          ELSE Started(K, Append(out, c), starts)
    BY <2>6, <1>16, StartedOn
  <2>8. Started(K, out', starts')
    <3>1. CASE c.kind = "END"
      <4>1. starts' = Append(starts, Len(Bits(K, Append(out, c)))) BY <3>1, <2>4, <1>11, <1>15, Zenon
      <4> QED BY <3>1, <4>1, <2>2, <2>7, Zenon
    <3>2. CASE c.kind # "END"
      <4>1. starts' = starts BY <3>2, <1>11
      <4> QED BY <3>2, <4>1, <2>2, <2>7, Zenon
    <3> QED BY <3>1, <3>2
  <2>9. \A k \in DOMAIN out' : out'[k] \in Symbols
    <3> DEFINE q == Append(out, c)
    <3>1. \A s \in D : s \in Symbols BY <1>2, <1>3, CodesAre DEF D, K
    <3>2. q \in Seq(D) BY <2>6, AppendProperties
    <3> HIDE DEF q
    <3>3. \A k \in DOMAIN q : q[k] \in D BY <3>2, LenProperties, ElementOfSeq
    <3>4. out' = q BY <2>2 DEF q
    <3> QED BY <3>1, <3>3, <3>4
  <2>10. Reads(tree, A, stream, at', nn', out') BY <2>2, <2>4, <1>15, Zenon
  <2>11. ReaderInv'
    <3>1. Reads(tree', Where(tree'), stream', at', nn', out') /\ Started(Codes(tree'), out', starts')
      BY <2>8, <2>10, <1>1, Zenon DEF A, K
    <3>2. stream' \in Streams /\ at' \in 0 .. Len(stream') BY <1>1, <1>4, <1>15
    <3> QED BY <3>1, <3>2, <2>9, <1>11, <1>17 DEF ReaderInv
  <2>12. \A x : Fits(tree, stream, x) /\ Follows(tree, A, nn, out, x) => Follows(tree, A, nn', out', x)
    BY <2>2, <1>14, <1>18, Zenon
  <2>13. TextInv'
    <3>1. /\ text' # NoText /\ Len(Bits(Codes(tree'), text')) <= Len(stream') =>
               Fits(tree', stream', text') /\ Follows(tree', Where(tree'), nn', out', text')
          /\ old' # NoText => /\ Fits(tree', stream', old'.out) /\ Follows(tree', Where(tree'), nn', out', old'.out)
                              /\ Started(Codes(tree'), old'.out, old'.starts)
      BY <2>12, <1>1, <1>5, Zenon DEF A, K
    <3>2. phase' \notin {"idle", "merge", "built"} BY <1>11
    <3> QED BY <3>1, <3>2, Zenon DEF TextInv
  <2> QED BY <2>11, <2>13, <1>12, <1>13 DEF IInv
<1>19. ASSUME NEW v \in 0 .. tree.m - 2, c = Node(v), Reads(tree, A, stream, at + 1, v, out) PROVE IInv'
  <2>1. v \in Nat BY <1>9
  <2>2. c.kind = "NODE" /\ c.value = v BY <2>1, <1>19, NodeIsKept
  <2>3. nn' = v /\ out' = out /\ starts' = starts BY <2>2, <1>11
  <2> HIDE DEF c, e, K, i
  <2>4. Reads(tree, A, stream, at', nn', out') BY <2>3, <1>15, <1>19, Zenon
  <2>5. ReaderInv'
    <3>1. Reads(tree', Where(tree'), stream', at', nn', out') /\ Started(Codes(tree'), out', starts')
      BY <2>3, <2>4, <1>1, <1>16, Zenon DEF A, K
    <3>2. stream' \in Streams /\ at' \in 0 .. Len(stream') BY <1>1, <1>4, <1>15
    <3>3. \A k \in DOMAIN out' : out'[k] \in Symbols BY <2>3, <1>4
    <3> QED BY <3>1, <3>2, <3>3, <1>11, <1>17 DEF ReaderInv
  <2>6. \A x : Fits(tree, stream, x) /\ Follows(tree, A, nn, out, x) => Follows(tree, A, nn', out', x)
    BY <2>3, <1>14, <1>19, Zenon
  <2>7. TextInv'
    <3>1. /\ text' # NoText /\ Len(Bits(Codes(tree'), text')) <= Len(stream') =>
               Fits(tree', stream', text') /\ Follows(tree', Where(tree'), nn', out', text')
          /\ old' # NoText => /\ Fits(tree', stream', old'.out) /\ Follows(tree', Where(tree'), nn', out', old'.out)
                              /\ Started(Codes(tree'), old'.out, old'.starts)
      BY <2>6, <1>1, <1>5, Zenon DEF A, K
    <3>2. phase' \notin {"idle", "merge", "built"} BY <1>11
    <3> QED BY <3>1, <3>2, Zenon DEF TextInv
  <2> QED BY <2>5, <2>7, <1>12, <1>13 DEF IInv
<1>20. c \in Symbols \/ \E v \in 0 .. tree.m - 2 : c = Node(v) /\ Reads(tree, A, stream, at + 1, v, out)
  <2> HIDE DEF c, e, K
  <2> QED BY <1>7, <1>8
<1> HIDE DEF c
<1> QED BY <1>18, <1>19, <1>20

\* Every reachable state of the builder, the writer and the reader satisfies the invariant.
THEOREM InvHolds == Spec => []IInv
<1>1. IInv /\ [Next]_vars => IInv'
  <2> SUFFICES ASSUME IInv, [Next]_vars PROVE IInv' OBVIOUS
  <2>1. ASSUME NEW f \in Frequencies, NEW depth \in MinDepths, Build(f, depth) PROVE IInv' BY <2>1, InvBuild
  <2>2. CASE Merge BY <2>2, InvMerge
  <2>3. CASE Lay BY <2>3, InvLay
  <2>4. ASSUME NEW symbols \in Texts, NEW bytes \in 0 .. MaxBytes, Encode(symbols, bytes) PROVE IInv'
    BY <2>4, InvEncode
  <2>5. ASSUME NEW bits \in Streams, Load(bits) PROVE IInv' BY <2>5, InvLoad
  <2>6. CASE ReadBit BY <2>6, InvReadBit
  <2>7. CASE EndOfStream BY <2>7, InvEndOfStream
  <2>8. CASE Recode BY <2>8, InvRecode
  <2>9. CASE UNCHANGED vars
    <3>1. BuilderInv' BY <2>9 DEF IInv, BuilderInv, vars
    <3>2. TreeInv' BY <2>9 DEF IInv, TreeInv, vars
    <3>3. ReaderInv' BY <2>9 DEF IInv, ReaderInv, Reading, vars
    <3>4. TextInv' BY <2>9 DEF IInv, TextInv, Reading, vars
    <3> QED BY <3>1, <3>2, <3>3, <3>4 DEF IInv
  <2> QED BY <2>1, <2>2, <2>3, <2>4, <2>5, <2>6, <2>7, <2>8, <2>9 DEF Next
<1> QED BY <1>1, InvFirst, PTL DEF Spec

\* A text that fits comes back whole, and only zeros are read behind it.
THEOREM TextBack == Spec => []TextComesBack
<1>1. IInv => TextComesBack
  <2> SUFFICES ASSUME IInv, phase = "read", text # NoText, Len(Bits(Codes(tree), text)) <= Len(stream)
               PROVE  /\ Begins(text, out)
                      /\ \A k \in Len(text) + 1 .. Len(out) :
                           \A j \in DOMAIN Codes(tree)[out[k]] : Codes(tree)[out[k]][j] = 0
    BY DEF TextComesBack
  <2>1. Reading BY DEF Reading
  <2>2. Tree(tree) BY DEF IInv, TreeInv
  <2>3. stream \in Streams /\ at = Len(stream) /\ Reads(tree, Where(tree), stream, at, nn, out)
    BY <2>1 DEF IInv, ReaderInv
  <2>4. Fits(tree, stream, text) /\ Follows(tree, Where(tree), nn, out, text) BY <2>1 DEF IInv, TextInv
  <2>5. Addresses(tree, Where(tree)) BY <2>2, WhereIs
  <2>6. stream \in Seq({0, 1}) BY <2>3, StreamsAre
  <2>7. Reads(tree, Where(tree), stream, Len(stream), nn, out) BY <2>3
  <2>8. Begins(text, out) BY <2>2, <2>4, <2>5, <2>6, <2>7, ReadsText
  <2>9. ASSUME NEW k \in Len(text) + 1 .. Len(out), NEW j \in DOMAIN Codes(tree)[out[k]]
        PROVE  Codes(tree)[out[k]][j] = 0
    BY <2>2, <2>4, <2>5, <2>6, <2>7, ReadsText
  <2> QED BY <2>8, <2>9
<1> QED BY <1>1, InvHolds, PTL

\* Whatever is read from a stream encodes to that stream, but for a tail that ends inside a code.
THEOREM RoundTripHolds == Spec => []RoundTrip
<1>1. IInv => RoundTrip
  <2> SUFFICES ASSUME IInv, phase = "read" PROVE RoundTrip BY DEF RoundTrip
  <2>1. Reading BY DEF Reading
  <2>2. Tree(tree) BY <2>1 DEF IInv, TreeInv, Reading
  <2>3. stream \in Streams /\ at = Len(stream) /\ Reads(tree, Where(tree), stream, at, nn, out)
    BY <2>1 DEF IInv, ReaderInv
  <2>4. Addresses(tree, Where(tree)) BY <2>2, WhereIs
  <2>5. stream \in Seq({0, 1}) BY <2>3, StreamsAre
  <2>6. Reads(tree, Where(tree), stream, Len(stream), nn, out) BY <2>3
  <2>7. LET b == Bits(Codes(tree), out) IN
          /\ Packed(b, Len(stream)) = stream <=> \A k \in Len(b) + 1 .. Len(stream) : stream[k] = 0
          /\ SubSeq(stream, Len(b) + 1, Len(stream)) \in Inner(Codes(tree))
    BY <2>2, <2>4, <2>5, <2>6, ReadsStream
  <2> QED BY <2>7 DEF RoundTrip
<1> QED BY <1>1, InvHolds, PTL

\* Every string start is behind an END, and the bits from it to the next are one string.
THEOREM StartsHold == Spec => []StartsAreStrings
<1>1. IInv => StartsAreStrings
  <2> DEFINE K == Codes(tree)
             D == DOMAIN K
  <2> SUFFICES ASSUME IInv, phase = "read"
               PROVE  /\ Len(starts) = Cardinality(Ends) + 1
                      /\ \A e \in Ends :
                           SubSeq(stream, starts[Cardinality({d \in Ends : d <= e})] + 1,
                                          starts[Cardinality({d \in Ends : d <= e}) + 1])
                             = Bits(K, SubSeq(out, Largest({d \in Ends : d < e} \cup {0}) + 1, e))
    BY DEF StartsAreStrings
  <2>1. Reading BY DEF Reading
  <2>2. Tree(tree) BY <2>1 DEF IInv, TreeInv, Reading
  <2>3. /\ stream \in Streams /\ at = Len(stream) /\ Reads(tree, Where(tree), stream, at, nn, out)
        /\ Started(K, out, starts)
    BY <2>1 DEF IInv, ReaderInv
  <2>4. Addresses(tree, Where(tree)) BY <2>2, WhereIs
  <2>5. stream \in Seq({0, 1}) BY <2>3, StreamsAre
  <2>6. Reads(tree, Where(tree), stream, Len(stream), nn, out) BY <2>3
  <2>7. Len(Bits(K, out)) <= Len(stream) /\ SubSeq(stream, 1, Len(Bits(K, out))) = Bits(K, out)
    BY <2>2, <2>4, <2>5, <2>6, ReadsStream
  <2>8. Begins(Bits(K, out), stream) BY <2>7 DEF Begins
  <2>9. out \in Seq(D) BY <2>3 DEF Reads
  <2>10. \A s \in D : K[s] \in Seq({0, 1}) BY <2>2, <2>4, CodesBelow
  <2>11. Ends = EndsOf(out)
    <3>1. DOMAIN out = 1 .. Len(out)
      <4> HIDE DEF D
      <4> QED BY <2>9, LenProperties
    <3> QED BY <3>1 DEF Ends, EndsOf
  <2> HIDE DEF K
  <2> DEFINE E == EndsOf(out)
  <2>12. Len(starts) = Cardinality(E) + 1 BY <2>3 DEF Started
  <2>13. ASSUME NEW e \in E
         PROVE  SubSeq(stream, starts[Upto(E, e)] + 1, starts[Upto(E, e) + 1])
                  = Bits(K, SubSeq(out, Largest({d \in E : d < e} \cup {0}) + 1, e))
    <3>1. Started(K, out, starts) BY <2>3
    <3> HIDE DEF D
    <3>2. \A s \in D : K[s] \in Seq({0, 1}) BY <2>10
    <3>3. e \in EndsOf(out) BY <2>13
    <3>4. OneString(K, out, starts, stream, e) BY <3>1, <3>2, <3>3, <2>5, <2>8, <2>9, StartsBetween
    <3> QED BY <3>4, Zenon DEF OneString
  <2>14. Ends = E BY <2>11
  <2> HIDE DEF E
  <2>15. \A e \in E : SubSeq(stream, starts[Cardinality({d \in E : d <= e})] + 1,
                                     starts[Cardinality({d \in E : d <= e}) + 1])
                        = Bits(K, SubSeq(out, Largest({d \in E : d < e} \cup {0}) + 1, e))
    BY <2>13, Zenon DEF Upto
  <2> QED BY <2>12, <2>14, <2>15, Zenon
<1> QED BY <1>1, InvHolds, PTL

\* Re-encoding with another tree of the same lengths moves no string.
THEOREM StartsStay == Spec => []StartsKept
<1>1. IInv => StartsKept
  <2> DEFINE K == Codes(tree)
             D == DOMAIN K
  <2> SUFFICES ASSUME IInv, phase = "read", old # NoText
               PROVE  Begins(old.out, out) /\ Begins(old.starts, starts)
    BY DEF StartsKept
  <2>1. Reading BY DEF Reading
  <2>2. Tree(tree) BY <2>1 DEF IInv, TreeInv, Reading
  <2>3. /\ stream \in Streams /\ at = Len(stream) /\ Reads(tree, Where(tree), stream, at, nn, out)
        /\ Started(K, out, starts)
    BY <2>1 DEF IInv, ReaderInv
  <2>4. Fits(tree, stream, old.out) /\ Follows(tree, Where(tree), nn, out, old.out) /\ Started(K, old.out, old.starts)
    BY <2>1 DEF IInv, TextInv
  <2>5. Addresses(tree, Where(tree)) BY <2>2, WhereIs
  <2>6. stream \in Seq({0, 1}) BY <2>3, StreamsAre
  <2>7. Reads(tree, Where(tree), stream, Len(stream), nn, out) BY <2>3
  <2>8. Begins(old.out, out) BY <2>2, <2>4, <2>5, <2>6, <2>7, ReadsText
  <2>9. out \in Seq(D) /\ old.out \in Seq(D) BY <2>3, <2>4 DEF Reads, Fits
  <2>10. Coded(K, out) /\ Coded(K, old.out) BY <2>2, <2>5, <2>9, TextsAreCoded
  <2> HIDE DEF K
  <2>11. Begins(old.starts, starts) BY <2>3, <2>4, <2>8, <2>10, StartsBegin
  <2> QED BY <2>8, <2>11
<1> QED BY <1>1, InvHolds, PTL

\* Both builders, from frequencies and from code lengths, lay out an array the engine walks.
THEOREM Walked == Spec => []AsTheEngineWalks
<1>1. IInv => AsTheEngineWalks
  <2> SUFFICES ASSUME IInv PROVE AsTheEngineWalks OBVIOUS
  <2>1. CASE tree = NoTree
    <3>1. tree.m = 0 /\ tree.pairs = [i \in {0} |-> 0] BY <2>1 DEF NoTree
    <3>2. tree.m \in 0 .. Len(Order) BY <3>1, SymbolsAreFew
    <3>3. DOMAIN tree.pairs = 0 .. 2 * tree.m BY <3>1
    <3>4. \A i \in DOMAIN tree.pairs : tree.pairs[i] \in Words BY <3>1, WordAssumption DEF Words
    <3>5. ~(tree.m > 0) BY <3>1
    <3>6. TypeOK BY <3>2, <3>3, <3>4, <3>5 DEF IInv, BuilderInv, ReaderInv, TypeOK
    <3> QED BY <2>1, <3>6 DEF AsTheEngineWalks
  <2>2. CASE tree # NoTree
    <3>1. Tree(tree) BY <2>2 DEF IInv, TreeInv
    <3>2. /\ tree.m \in 0 .. Len(Order) /\ DOMAIN tree.pairs = 0 .. 2 * tree.m
          /\ \A i \in DOMAIN tree.pairs : tree.pairs[i] \in Words
          /\ LET slots == 0 .. 2 * tree.m - 1
                 owner(i) == i % tree.m
                 nodes == {i \in slots : Entry(tree.pairs[i]).kind = "NODE"}
             IN /\ tree.root = tree.m - 1
                /\ tree.pairs[2 * tree.m] = 0
                /\ \A i \in nodes : Entry(tree.pairs[i]).value < owner(i)
                /\ \A n \in 0 .. tree.m - 2 : Cardinality({i \in nodes : Entry(tree.pairs[i]).value = n}) = 1
      BY <3>1, TreeIsWalked, Zenon
    <3>3. phase \in {"reading", "read"} => nn \in 0 .. tree.m - 1
      BY DEF IInv, ReaderInv, Reading, Reads
    <3>4. TypeOK BY <3>2, <3>3 DEF IInv, BuilderInv, ReaderInv, TypeOK
    <3> QED BY <3>2, <3>4, Zenon DEF AsTheEngineWalks
  <2> QED BY <2>1, <2>2
<1> QED BY <1>1, InvHolds, PTL

----------------------------------------------------------------------------
(* What a total makes of a change of its numbers. *)

\* p is a row of n natural numbers.
Row(n, p) == p \in [1 .. n -> Nat]

\* f holds the totals of the first numbers of p.
Sums(n, p, f) ==
  /\ f \in [0 .. n -> Nat] /\ f[0] = 0 /\ Total(p) = f[n]
  /\ \A k \in 1 .. n : f[k] = f[k - 1] + p[k]

\* A total, as the sums of its first numbers.
LEMMA TotalOf ==
  ASSUME NEW n \in Nat, NEW p, Row(n, p)
  PROVE  /\ Total(p) \in Nat
         /\ \E f : Sums(n, p, f)
<1>0. p \in [1 .. n -> Nat] BY DEF Row
<1>1. Len(p) = n BY <1>0
<1>2. Len(p) \in Nat /\ \A k \in 1 .. Len(p) : p[k] \in Nat BY <1>0, <1>1
<1>3. PICK f : /\ f \in [0 .. Len(p) -> Nat] /\ f[0] = 0 /\ Total(p) = f[Len(p)]
               /\ \A k \in 1 .. Len(p) : f[k] = f[k - 1] + p[k]
  BY <1>2, TotalIs
<1>4. /\ f \in [0 .. n -> Nat] /\ f[0] = 0 /\ Total(p) = f[n]
      /\ \A k \in 1 .. n : f[k] = f[k - 1] + p[k]
  BY <1>1, <1>3
<1>5. Total(p) \in Nat BY <1>4
<1> QED BY <1>4, <1>5 DEF Sums

\* Where only one number changes, the total changes by as much.
LEMMA TotalPoint ==
  ASSUME NEW n \in Nat, NEW p, Row(n, p), NEW q, Row(n, q), NEW x \in 1 .. n,
         \A k \in 1 .. n : k # x => p[k] = q[k]
  PROVE  Total(q) + p[x] = Total(p) + q[x]
<1>0. p \in [1 .. n -> Nat] /\ q \in [1 .. n -> Nat] BY DEF Row
<1>a. PICK f : Sums(n, p, f) BY TotalOf
<1>b. PICK g : Sums(n, q, g) BY TotalOf
<1>1. /\ f \in [0 .. n -> Nat] /\ f[0] = 0 /\ Total(p) = f[n]
      /\ \A k \in 1 .. n : f[k] = f[k - 1] + p[k]
  BY <1>a DEF Sums
<1>2. /\ g \in [0 .. n -> Nat] /\ g[0] = 0 /\ Total(q) = g[n]
      /\ \A k \in 1 .. n : g[k] = g[k - 1] + q[k]
  BY <1>b DEF Sums
<1> DEFINE T == {k \in Nat : k <= n => (k < x => f[k] = g[k]) /\ (k >= x => g[k] + p[x] = f[k] + q[x])}
<1>3. 0 \in T BY <1>1, <1>2
<1>4. ASSUME NEW k \in Nat, k \in T PROVE k + 1 \in T
  <2> DEFINE j == k + 1
  <2> SUFFICES ASSUME j <= n
               PROVE  (j < x => f[j] = g[j]) /\ (j >= x => g[j] + p[x] = f[j] + q[x])
    OBVIOUS
  <2>1. j \in 1 .. n /\ j - 1 = k OBVIOUS
  <2>2. f[j] = f[k] + p[j] /\ g[j] = g[k] + q[j] BY <2>1, <1>1, <1>2
  <2>3. f[k] \in Nat /\ g[k] \in Nat /\ p[j] \in Nat /\ q[j] \in Nat /\ p[x] \in Nat /\ q[x] \in Nat
    BY <2>1, <1>0, <1>1, <1>2
  <2>4. (k < x => f[k] = g[k]) /\ (k >= x => g[k] + p[x] = f[k] + q[x]) BY <2>1, <1>4
  <2>5. k < x <=> j <= x BY <2>1
  <2> HIDE DEF j
  <2>6. ASSUME j < x PROVE f[j] = g[j]
    <3>1. p[j] = q[j] /\ f[k] = g[k] BY <2>1, <2>4, <2>5, <2>6
    <3> QED BY <3>1, <2>2
  <2>7. ASSUME j = x PROVE g[j] + p[x] = f[j] + q[x]
    <3>1. f[k] = g[k] /\ p[j] = p[x] /\ q[j] = q[x] BY <2>1, <2>4, <2>5, <2>7
    <3> QED BY <3>1, <2>2, <2>3, <2>7
  <2>8. ASSUME j > x PROVE g[j] + p[x] = f[j] + q[x]
    <3>1. p[j] = q[j] /\ g[k] + p[x] = f[k] + q[x] BY <2>1, <2>4, <2>5, <2>8
    <3> QED BY <3>1, <2>1, <2>2, <2>3
  <2> QED BY <2>1, <2>6, <2>7, <2>8
<1> HIDE DEF T
<1>5. n \in T
  <2>1. Nat \subseteq T BY <1>3, <1>4, Inductive
  <2> QED BY <2>1
<1>6. g[n] + p[x] = f[n] + q[x] BY <1>5 DEF T
<1> QED BY <1>1, <1>2, <1>6

\* And where two do.
LEMMA TotalPoints ==
  ASSUME NEW n \in Nat, NEW p, Row(n, p), NEW q, Row(n, q), NEW x \in 1 .. n, NEW y \in 1 .. n,
         x # y, \A k \in 1 .. n : k # x /\ k # y => p[k] = q[k]
  PROVE  Total(q) + p[x] + p[y] = Total(p) + q[x] + q[y]
<1>0. p \in [1 .. n -> Nat] /\ q \in [1 .. n -> Nat] BY DEF Row
<1> DEFINE r == [k \in 1 .. n |-> IF k = x THEN q[x] ELSE p[k]]
<1>1. Row(n, r) /\ r[x] = q[x] /\ r[y] = p[y] BY <1>0 DEF Row
<1>2. \A k \in 1 .. n : k # x => p[k] = r[k] OBVIOUS
<1>3. \A k \in 1 .. n : k # y => r[k] = q[k] OBVIOUS
<1> HIDE DEF r
<1>4. Total(r) + p[x] = Total(p) + r[x] BY <1>1, <1>2, TotalPoint
<1>5. Total(q) + r[y] = Total(r) + q[y] BY <1>1, <1>3, TotalPoint
<1>6. Total(p) \in Nat /\ Total(q) \in Nat /\ Total(r) \in Nat BY <1>1, TotalOf
<1>7. p[x] \in Nat /\ p[y] \in Nat /\ q[x] \in Nat /\ q[y] \in Nat BY <1>0
<1>8. Total(r) + p[x] = Total(p) + q[x] BY <1>1, <1>4, Zenon
<1>9. Total(q) + p[y] = Total(r) + q[y] BY <1>1, <1>5, Zenon
<1> DEFINE a == Total(p)
           b == Total(q)
           c == Total(r)
           v == p[x]
           w == q[x]
<1>10. a \in Nat /\ b \in Nat /\ c \in Nat /\ v \in Nat /\ w \in Nat BY <1>6, <1>7
<1>11. c + v = a + w /\ b + p[y] = c + q[y] BY <1>8, <1>9
<1> HIDE DEF a, b, c, v, w
<1>12. b + v + p[y] = a + w + q[y] BY <1>7, <1>10, <1>11
<1> QED BY <1>12 DEF a, b, v, w

\* And where three do.
LEMMA TotalThree ==
  ASSUME NEW n \in Nat, NEW p, Row(n, p), NEW q, Row(n, q),
         NEW x \in 1 .. n, NEW y \in 1 .. n, NEW z \in 1 .. n, x # y, x # z, y # z,
         \A k \in 1 .. n : k # x /\ k # y /\ k # z => p[k] = q[k]
  PROVE  Total(q) + p[x] + p[y] + p[z] = Total(p) + q[x] + q[y] + q[z]
<1>0. p \in [1 .. n -> Nat] /\ q \in [1 .. n -> Nat] BY DEF Row
<1> DEFINE r == [k \in 1 .. n |-> IF k = x THEN q[x] ELSE p[k]]
<1>1. Row(n, r) /\ r[x] = q[x] /\ r[y] = p[y] /\ r[z] = p[z] BY <1>0 DEF Row
<1>2. \A k \in 1 .. n : k # x => p[k] = r[k] OBVIOUS
<1>3. \A k \in 1 .. n : k # y /\ k # z => r[k] = q[k] OBVIOUS
<1> HIDE DEF r
<1>4. Total(r) + p[x] = Total(p) + r[x] BY <1>1, <1>2, TotalPoint
<1>5. Total(q) + r[y] + r[z] = Total(r) + q[y] + q[z] BY <1>1, <1>3, TotalPoints
<1>6. Total(p) \in Nat /\ Total(q) \in Nat /\ Total(r) \in Nat BY <1>1, TotalOf
<1>7. p[x] \in Nat /\ p[y] \in Nat /\ p[z] \in Nat /\ q[x] \in Nat /\ q[y] \in Nat /\ q[z] \in Nat BY <1>0
<1>8. Total(r) + p[x] = Total(p) + q[x] BY <1>1, <1>4, Zenon
<1>9. Total(q) + p[y] + p[z] = Total(r) + q[y] + q[z] BY <1>1, <1>5, Zenon
<1> DEFINE a == Total(p)
           b == Total(q)
           c == Total(r)
           v == p[x]
           w == q[x]
           d == p[y]
           e == q[y]
           g == p[z]
           h == q[z]
<1>10. a \in Nat /\ b \in Nat /\ c \in Nat /\ v \in Nat /\ w \in Nat BY <1>6, <1>7
<1>11. d \in Nat /\ e \in Nat /\ g \in Nat /\ h \in Nat BY <1>7
<1>12. c + v = a + w /\ b + d + g = c + e + h BY <1>8, <1>9
<1> HIDE DEF a, b, c, v, w, d, e, g, h
<1>13. b + v + d + g = a + w + e + h BY <1>10, <1>11, <1>12
<1> QED BY <1>13 DEF a, b, v, w, d, e, g, h

\* A total of products with one factor is a product with it.
LEMMA TotalScaled ==
  ASSUME NEW n \in Nat, NEW p, Row(n, p), NEW q, Row(n, q), NEW c \in Nat,
         \A k \in 1 .. n : q[k] = c * p[k]
  PROVE  Total(q) = c * Total(p)
<1>0. p \in [1 .. n -> Nat] /\ q \in [1 .. n -> Nat] BY DEF Row
<1>a. PICK f : Sums(n, p, f) BY TotalOf
<1>b. PICK g : Sums(n, q, g) BY TotalOf
<1>1. /\ f \in [0 .. n -> Nat] /\ f[0] = 0 /\ Total(p) = f[n]
      /\ \A k \in 1 .. n : f[k] = f[k - 1] + p[k]
  BY <1>a DEF Sums
<1>2. /\ g \in [0 .. n -> Nat] /\ g[0] = 0 /\ Total(q) = g[n]
      /\ \A k \in 1 .. n : g[k] = g[k - 1] + q[k]
  BY <1>b DEF Sums
<1> DEFINE T == {k \in Nat : k <= n => g[k] = c * f[k]}
<1>3. 0 \in T BY <1>1, <1>2
<1>4. ASSUME NEW k \in Nat, k \in T PROVE k + 1 \in T
  <2> SUFFICES ASSUME k + 1 <= n PROVE g[k + 1] = c * f[k + 1] OBVIOUS
  <2> DEFINE j == k + 1
  <2>1. j \in 1 .. n /\ j - 1 = k /\ k \in 0 .. n OBVIOUS
  <2>2. f[j] = f[k] + p[j] /\ g[j] = g[k] + c * p[j] BY <2>1, <1>1, <1>2
  <2>3. f[k] \in Int /\ p[j] \in Int /\ c \in Int BY <2>1, <1>0, <1>1
  <2>4. c * (f[k] + p[j]) = c * f[k] + c * p[j] BY <2>3, Distribute
  <2>5. g[k] = c * f[k] BY <2>1, <1>4
  <2> QED BY <2>2, <2>4, <2>5
<1> HIDE DEF T
<1>5. n \in T
  <2>1. Nat \subseteq T BY <1>3, <1>4, Inductive
  <2> QED BY <2>1
<1> QED BY <1>1, <1>2, <1>5 DEF T

\* Larger numbers have a larger total.
LEMMA TotalRises ==
  ASSUME NEW n \in Nat, NEW p, Row(n, p), NEW q, Row(n, q),
         \A k \in 1 .. n : p[k] <= q[k]
  PROVE  Total(p) <= Total(q)
<1>0. p \in [1 .. n -> Nat] /\ q \in [1 .. n -> Nat] BY DEF Row
<1>a. PICK f : Sums(n, p, f) BY TotalOf
<1>b. PICK g : Sums(n, q, g) BY TotalOf
<1>1. /\ f \in [0 .. n -> Nat] /\ f[0] = 0 /\ Total(p) = f[n]
      /\ \A k \in 1 .. n : f[k] = f[k - 1] + p[k]
  BY <1>a DEF Sums
<1>2. /\ g \in [0 .. n -> Nat] /\ g[0] = 0 /\ Total(q) = g[n]
      /\ \A k \in 1 .. n : g[k] = g[k - 1] + q[k]
  BY <1>b DEF Sums
<1> DEFINE T == {k \in Nat : k <= n => f[k] <= g[k]}
<1>3. 0 \in T BY <1>1, <1>2
<1>4. ASSUME NEW k \in Nat, k \in T PROVE k + 1 \in T
  <2> SUFFICES ASSUME k + 1 <= n PROVE f[k + 1] <= g[k + 1] OBVIOUS
  <2> DEFINE j == k + 1
  <2>1. j \in 1 .. n /\ j - 1 = k /\ k \in 0 .. n OBVIOUS
  <2>2. f[j] = f[k] + p[j] /\ g[j] = g[k] + q[j] BY <2>1, <1>1, <1>2
  <2>3. f[k] \in Int /\ p[j] \in Int /\ g[k] \in Int /\ q[j] \in Int BY <2>1, <1>0, <1>1, <1>2
  <2>4. p[j] <= q[j] /\ f[k] <= g[k] BY <2>1, <1>4
  <2> QED BY <2>2, <2>3, <2>4
<1> HIDE DEF T
<1>5. n \in T
  <2>1. Nat \subseteq T BY <1>3, <1>4, Inductive
  <2> QED BY <2>1
<1> QED BY <1>1, <1>2, <1>5 DEF T

\* q has the numbers of p at the places u, and zeros elsewhere.
Spreads(n, l, u, p, q) ==
  /\ n \in Nat /\ l \in Nat /\ u \in [1 .. n -> 1 .. l] /\ Row(n, p) /\ Row(l, q)
  /\ \A k, h \in 1 .. n : u[k] = u[h] => k = h
  /\ \A k \in 1 .. n : q[u[k]] = p[k]
  /\ \A t \in 1 .. l : (\A k \in 1 .. n : u[k] # t) => q[t] = 0

\* They have the total they have by themselves.
LEMMA TotalSpread ==
  ASSUME NEW n, NEW l, NEW u, NEW p, NEW q, Spreads(n, l, u, p, q)
  PROVE  Total(q) = Total(p)
<1> SUFFICES ASSUME n \in Nat, l \in Nat, u \in [1 .. n -> 1 .. l], Row(n, p), Row(l, q),
                    \A k, h \in 1 .. n : u[k] = u[h] => k = h,
                    \A k \in 1 .. n : q[u[k]] = p[k],
                    \A t \in 1 .. l : (\A k \in 1 .. n : u[k] # t) => q[t] = 0
             PROVE  Total(q) = Total(p)
  BY DEF Spreads
<1>0. p \in [1 .. n -> Nat] /\ q \in [1 .. l -> Nat] BY DEF Row
<1>a. PICK f : Sums(n, p, f) BY TotalOf
<1>1. /\ f \in [0 .. n -> Nat] /\ f[0] = 0 /\ Total(p) = f[n]
      /\ \A k \in 1 .. n : f[k] = f[k - 1] + p[k]
  BY <1>a DEF Sums
<1> DEFINE row(k) == [t \in 1 .. l |-> IF \E h \in 1 .. k : u[h] = t THEN q[t] ELSE 0]
           T == {k \in Nat : k <= n => Total(row(k)) = f[k]}
<1>2. \A k \in Nat : Row(l, row(k)) BY <1>0 DEF Row
<1>3. 0 \in T
  <2> DEFINE r == row(0)
  <2>1. Row(l, r)
    <3>1. 0 \in Nat OBVIOUS
    <3> HIDE DEF row
    <3> QED BY <3>1, <1>2
  <2>2. \A t \in 1 .. l : r[t] = 0 OBVIOUS
  <2> HIDE DEF r
  <2> DEFINE c == 0
  <2>3. c \in Nat /\ \A t \in 1 .. l : r[t] = c * r[t] BY <2>2
  <2> HIDE DEF c
  <2>4. Total(r) = c * Total(r) BY <2>1, <2>3, TotalScaled
  <2>5. Total(r) \in Nat BY <2>1, TotalOf
  <2>6. Total(r) = 0 BY <2>4, <2>5 DEF c
  <2> QED BY <2>6, <1>1 DEF r
<1>4. ASSUME NEW k \in Nat, k \in T PROVE k + 1 \in T
  <2> SUFFICES ASSUME k + 1 <= n PROVE Total(row(k + 1)) = f[k + 1] OBVIOUS
  <2> DEFINE j == k + 1
             x == u[j]
             r == row(k)
             s == row(j)
  <2>1. j \in 1 .. n /\ j - 1 = k /\ k \in 0 .. n /\ x \in 1 .. l /\ j \in Nat OBVIOUS
  <2>2. Row(l, r) /\ Row(l, s) BY <2>1, <1>2
  <2>3. \A h \in 1 .. k : h \in 1 .. n /\ h # j BY <2>1
  <2>4. r[x] = 0
    <3>1. ~\E h \in 1 .. k : u[h] = x BY <2>1, <2>3
    <3> QED BY <3>1, <2>1
  <2>5. s[x] = p[j]
    <3>1. j \in 1 .. j BY <2>1
    <3>2. s[x] = q[x] BY <3>1, <2>1
    <3> QED BY <3>2, <2>1
  <2>6. ASSUME NEW t \in 1 .. l, t # x PROVE r[t] = s[t]
    <3>1. (\E h \in 1 .. j : u[h] = t) <=> \E h \in 1 .. k : u[h] = t
      <4>1. \A h \in 1 .. j : h = j \/ h \in 1 .. k BY <2>1
      <4>2. \A h \in 1 .. k : h \in 1 .. j BY <2>1
      <4> QED BY <4>1, <4>2, <2>6
    <3> QED BY <3>1
  <2> HIDE DEF r, s, x
  <2>7. Total(s) + r[x] = Total(r) + s[x]
    <3>1. x \in 1 .. l BY <2>1
    <3>2. \A t \in 1 .. l : t # x => r[t] = s[t] BY <2>6
    <3> QED BY <3>1, <3>2, <2>2, TotalPoint
  <2>8. Total(r) = f[k] BY <2>1, <1>4 DEF r
  <2>9. f[j] = f[k] + p[j] BY <2>1, <1>1
  <2>10. Total(s) \in Nat /\ Total(r) \in Nat BY <2>2, TotalOf
  <2>11. Total(s) = f[j] BY <2>4, <2>5, <2>7, <2>8, <2>9, <2>10
  <2> QED BY <2>11 DEF s
<1> HIDE DEF T
<1>5. n \in T
  <2>1. Nat \subseteq T BY <1>3, <1>4, Inductive
  <2> QED BY <2>1
<1>6. row(n) = q
  <2> DEFINE r == row(n)
  <2>1. \A t \in 1 .. l : r[t] = q[t]
    <3> SUFFICES ASSUME NEW t \in 1 .. l PROVE r[t] = q[t] OBVIOUS
    <3>1. CASE \E h \in 1 .. n : u[h] = t BY <3>1
    <3>2. CASE ~\E h \in 1 .. n : u[h] = t
      <4>1. q[t] = 0 BY <3>2
      <4> QED BY <4>1, <3>2
    <3> QED BY <3>1, <3>2
  <2>2. r \in [1 .. l -> Nat] BY <1>2 DEF Row
  <2> HIDE DEF r
  <2>3. r = q BY <1>0, <2>1, <2>2
  <2> QED BY <2>3 DEF r
<1>7. Total(row(n)) = f[n] BY <1>5 DEF T
<1> QED BY <1>1, <1>6, <1>7

----------------------------------------------------------------------------
(* Lengths that fill a tree, and what they cost. *)

\* The tags a heap item can have.
Span == 2 * Len(Order)

\* What the items of A cost, each of weight w and at the end of a path of length l.
Weights(A, w, l) == [t \in 1 .. Span |-> IF t \in A THEN w[t] * l[t] ELSE 0]
Price(A, w, l) == Total(Weights(A, w, l))

\* How many of the paths of length N begin with theirs.
Portions(A, l, N) == [t \in 1 .. Span |-> IF t \in A THEN Power[N - l[t]] ELSE 0]

\* Between lo and N long, they are the lengths of a full tree.
Fills(A, l, lo, N) ==
  /\ A \in SUBSET (1 .. Span) /\ Row(Span, l) /\ lo \in Nat /\ N \in Nat
  /\ \A t \in A : lo <= l[t] /\ l[t] <= N
  /\ Total(Portions(A, l, N)) = Power[N]

\* Both are rows of natural numbers.
LEMMA RowsAre ==
  /\ Span \in Nat
  /\ \A A \in SUBSET (1 .. Span) : \A w, l : Row(Span, w) /\ Row(Span, l) =>
       Row(Span, Weights(A, w, l)) /\ Price(A, w, l) \in Nat
  /\ \A A \in SUBSET (1 .. Span) : \A l : \A N \in Nat : Row(Span, l) /\ (\A t \in A : l[t] <= N) =>
       Row(Span, Portions(A, l, N))
<1>1. Span \in Nat
  <2>1. Len(Order) \in Nat BY SymbolsAreFew
  <2> QED BY <2>1 DEF Span
<1>2. ASSUME NEW A \in SUBSET (1 .. Span), NEW w, NEW l, Row(Span, w), Row(Span, l)
      PROVE  Row(Span, Weights(A, w, l)) /\ Price(A, w, l) \in Nat
  <2>1. \A t \in 1 .. Span : w[t] \in Nat /\ l[t] \in Nat BY <1>2 DEF Row
  <2>2. \A x, y \in Nat : x * y \in Nat OBVIOUS
  <2>3. \A t \in 1 .. Span : (IF t \in A THEN w[t] * l[t] ELSE 0) \in Nat BY <2>1, <2>2
  <2>4. Row(Span, Weights(A, w, l)) BY <2>3 DEF Row, Weights
  <2>5. Total(Weights(A, w, l)) \in Nat BY <2>4, <1>1, TotalOf
  <2> QED BY <2>4, <2>5 DEF Price
<1>3. ASSUME NEW A \in SUBSET (1 .. Span), NEW l, NEW N \in Nat, Row(Span, l), \A t \in A : l[t] <= N
      PROVE  Row(Span, Portions(A, l, N))
  <2>1. \A t \in 1 .. Span : l[t] \in Nat BY <1>3 DEF Row
  <2>2. \A t \in A : N - l[t] \in Nat BY <2>1, <1>3
  <2>3. \A t \in A : Power[N - l[t]] \in Nat BY <2>2, PowersAre
  <2>4. \A t \in 1 .. Span : (IF t \in A THEN Power[N - l[t]] ELSE 0) \in Nat BY <2>3
  <2> QED BY <2>4 DEF Row, Portions
<1> QED BY <1>1, <1>2, <1>3

\* Two items under a new one, which is one nearer to the root, cost their weights more.
LEMMA PriceMerged ==
  ASSUME NEW A \in SUBSET (1 .. Span), NEW a \in A, NEW b \in A, a # b, NEW i \in (1 .. Span) \ A,
         NEW w, Row(Span, w), NEW v, Row(Span, v), NEW l, Row(Span, l), NEW m, Row(Span, m),
         \A t \in A \ {a, b} : m[t] = l[t] /\ v[t] = w[t],
         l[a] = m[i] + 1, l[b] = m[i] + 1, v[i] = w[a] + w[b]
  PROVE  Price((A \ {a, b}) \cup {i}, v, m) + (w[a] + w[b]) = Price(A, w, l)
<1> DEFINE B == (A \ {a, b}) \cup {i}
           p == Weights(A, w, l)
           q == Weights(B, v, m)
<1>1. Span \in Nat BY RowsAre
<1>2. B \in SUBSET (1 .. Span) OBVIOUS
<1>3. a \in 1 .. Span /\ b \in 1 .. Span /\ i \in 1 .. Span /\ a # i /\ b # i OBVIOUS
<1>4. a \notin B /\ b \notin B /\ i \in B /\ i \notin A BY <1>3
<1>5. \A t \in 1 .. Span : t # a /\ t # b /\ t # i => (t \in A <=> t \in B) OBVIOUS
<1> HIDE DEF B
<1>6. Row(Span, p) /\ Row(Span, q) BY <1>2, RowsAre
<1>7. \A t \in 1 .. Span : p[t] = (IF t \in A THEN w[t] * l[t] ELSE 0) /\ q[t] = (IF t \in B THEN v[t] * m[t] ELSE 0)
  BY DEF Weights
<1> HIDE DEF p, q
<1>8. \A t \in 1 .. Span : t # a /\ t # b /\ t # i => p[t] = q[t]
  <2> SUFFICES ASSUME NEW t \in 1 .. Span, t # a, t # b, t # i PROVE p[t] = q[t] OBVIOUS
  <2>1. CASE t \in A
    <3>1. t \in B /\ t \in A \ {a, b} BY <2>1, <1>5
    <3>2. m[t] = l[t] /\ v[t] = w[t] BY <3>1
    <3> QED BY <3>1, <3>2, <1>7
  <2>2. CASE t \notin A
    <3>1. t \notin B BY <2>2, <1>5
    <3> QED BY <3>1, <2>2, <1>7
  <2> QED BY <2>1, <2>2
<1>9. Total(q) + p[a] + p[b] + p[i] = Total(p) + q[a] + q[b] + q[i]
  BY <1>1, <1>3, <1>6, <1>8, TotalThree
<1> DEFINE x == w[a]
           y == w[b]
           k == m[i]
           P == Total(p)
           Q == Total(q)
<1>10. x \in Nat /\ y \in Nat /\ k \in Nat BY <1>3 DEF Row
<1>11. P \in Nat /\ Q \in Nat BY <1>1, <1>6, TotalOf
<1>12. p[a] = x * (k + 1) /\ p[b] = y * (k + 1) /\ p[i] = 0 BY <1>3, <1>4, <1>7
<1>13. q[a] = 0 /\ q[b] = 0 /\ q[i] = (x + y) * k BY <1>3, <1>4, <1>7
<1> HIDE DEF x, y, k, P, Q
<1>14. x * (k + 1) = x * k + x /\ y * (k + 1) = y * k + y /\ (x + y) * k = x * k + y * k BY <1>10
<1>15. x * k \in Nat /\ y * k \in Nat BY <1>10
<1>16. Q + x * (k + 1) + y * (k + 1) + 0 = P + 0 + 0 + (x + y) * k BY <1>9, <1>12, <1>13 DEF P, Q
<1>17. Q + (x + y) = P
  <2> DEFINE e == x * k
             f == y * k
  <2>1. Q + (e + x) + (f + y) + 0 = P + 0 + 0 + (e + f) BY <1>14, <1>16
  <2>2. e \in Nat /\ f \in Nat BY <1>15
  <2> HIDE DEF e, f
  <2> QED BY <2>1, <2>2, <1>10, <1>11
<1> QED BY <1>17 DEF P, Q, p, q, x, y, B, Price

\* And they fill the tree as before.
LEMMA FillsMerged ==
  ASSUME NEW A, NEW l, NEW lo, NEW N, Fills(A, l, lo, N), NEW a \in A, NEW b \in A, a # b, NEW i \in (1 .. Span) \ A,
         NEW m, Row(Span, m), \A t \in A \ {a, b} : m[t] = l[t],
         l[a] = m[i] + 1, l[b] = m[i] + 1, lo <= m[i]
  PROVE  Fills((A \ {a, b}) \cup {i}, m, lo, N)
<1> DEFINE B == (A \ {a, b}) \cup {i}
           p == Portions(A, l, N)
           q == Portions(B, m, N)
<1>0. /\ A \in SUBSET (1 .. Span) /\ Row(Span, l) /\ lo \in Nat /\ N \in Nat
      /\ \A t \in A : lo <= l[t] /\ l[t] <= N
      /\ Total(p) = Power[N]
  BY DEF Fills
<1>1. Span \in Nat BY RowsAre
<1>2. B \in SUBSET (1 .. Span) BY <1>0
<1>3. a \in 1 .. Span /\ b \in 1 .. Span /\ i \in 1 .. Span /\ a # i /\ b # i BY <1>0
<1>4. a \notin B /\ b \notin B /\ i \in B /\ i \notin A BY <1>3
<1>5. \A t \in 1 .. Span : t # a /\ t # b /\ t # i => (t \in A <=> t \in B) OBVIOUS
<1>6. \A t \in B : t = i \/ (t \in A /\ t \in A \ {a, b}) OBVIOUS
<1> HIDE DEF B
<1> DEFINE k == m[i]
<1>7. k \in Nat /\ l[a] = k + 1 /\ l[b] = k + 1 /\ k + 1 <= N BY <1>0, <1>3 DEF Row
<1>8. \A t \in B : lo <= m[t] /\ m[t] <= N
  <2> SUFFICES ASSUME NEW t \in B PROVE lo <= m[t] /\ m[t] <= N OBVIOUS
  <2>1. CASE t = i BY <2>1, <1>0, <1>7
  <2>2. CASE t \in A /\ t \in A \ {a, b}
    <3>1. m[t] = l[t] BY <2>2
    <3> QED BY <3>1, <2>2, <1>0
  <2> QED BY <2>1, <2>2, <1>6
<1>9. Row(Span, p) /\ Row(Span, q) BY <1>0, <1>2, <1>8, RowsAre
<1>10. \A t \in 1 .. Span : p[t] = (IF t \in A THEN Power[N - l[t]] ELSE 0) /\ q[t] = (IF t \in B THEN Power[N - m[t]] ELSE 0)
  BY DEF Portions
<1> HIDE DEF p, q
<1>11. \A t \in 1 .. Span : t # a /\ t # b /\ t # i => p[t] = q[t]
  <2> SUFFICES ASSUME NEW t \in 1 .. Span, t # a, t # b, t # i PROVE p[t] = q[t] OBVIOUS
  <2>1. CASE t \in A
    <3>1. t \in B /\ t \in A \ {a, b} BY <2>1, <1>5
    <3>2. m[t] = l[t] BY <3>1
    <3> QED BY <3>1, <3>2, <1>10
  <2>2. CASE t \notin A
    <3>1. t \notin B BY <2>2, <1>5
    <3> QED BY <3>1, <2>2, <1>10
  <2> QED BY <2>1, <2>2
<1>12. Total(q) + p[a] + p[b] + p[i] = Total(p) + q[a] + q[b] + q[i]
  BY <1>1, <1>3, <1>9, <1>11, TotalThree
<1> DEFINE P == Total(p)
           Q == Total(q)
           x == Power[N - (k + 1)]
           y == Power[N - k]
<1>13. P \in Nat /\ Q \in Nat BY <1>1, <1>9, TotalOf
<1>14. p[a] = x /\ p[b] = x /\ p[i] = 0 BY <1>3, <1>4, <1>7, <1>10
<1>15. q[a] = 0 /\ q[b] = 0 /\ q[i] = y BY <1>3, <1>4, <1>10
<1>16. x \in Nat /\ y = 2 * x
  <2> DEFINE j == N - (k + 1)
  <2>1. j \in Nat /\ N - k = j + 1 BY <1>0, <1>7
  <2> HIDE DEF j
  <2>2. Power[j] \in Nat /\ Power[j + 1] = 2 * Power[j] BY <2>1, PowersAre
  <2> QED BY <2>1, <2>2 DEF j
<1> HIDE DEF P, Q, x, y
<1>17. Q + x + x + 0 = P + 0 + 0 + y BY <1>12, <1>14, <1>15 DEF P, Q
<1>18. Q = P BY <1>13, <1>16, <1>17
<1>19. Total(q) = Power[N] BY <1>0, <1>18 DEF P, Q
<1>20. Fills(B, m, lo, N) BY <1>0, <1>2, <1>8, <1>19 DEF Fills, q
<1> QED BY <1>20 DEF B

\* Where a lighter item has the shorter path, exchanging the two costs nothing.
LEMMA Exchanged ==
  ASSUME NEW A, NEW l, NEW lo, NEW N, Fills(A, l, lo, N), NEW w, Row(Span, w),
         NEW x \in A, NEW y \in A, w[x] <= w[y], l[x] <= l[y]
  PROVE  \E m : /\ Fills(A, m, lo, N) /\ Price(A, w, m) <= Price(A, w, l)
                /\ m[x] = l[y] /\ m[y] = l[x] /\ \A t \in A \ {x, y} : m[t] = l[t]
<1>0. /\ A \in SUBSET (1 .. Span) /\ Row(Span, l) /\ lo \in Nat /\ N \in Nat
      /\ \A t \in A : lo <= l[t] /\ l[t] <= N
      /\ Total(Portions(A, l, N)) = Power[N]
  BY DEF Fills
<1>1. Span \in Nat BY RowsAre
<1>2. CASE x = y
  <2>1. Price(A, w, l) \in Nat BY <1>0, RowsAre
  <2>2. Price(A, w, l) <= Price(A, w, l) BY <2>1
  <2> QED BY <2>2, <1>2
<1>3. CASE x # y
  <2> DEFINE m == [t \in 1 .. Span |-> IF t = x THEN l[y] ELSE IF t = y THEN l[x] ELSE l[t]]
             p == Portions(A, l, N)
             q == Portions(A, m, N)
             g == Weights(A, w, l)
             h == Weights(A, w, m)
  <2>1. x \in 1 .. Span /\ y \in 1 .. Span BY <1>0
  <2>2. \A t \in 1 .. Span : l[t] \in Nat /\ w[t] \in Nat BY <1>0 DEF Row
  <2>3. m \in [1 .. Span -> Nat] BY <2>1, <2>2
  <2>4. m[x] = l[y] /\ m[y] = l[x] /\ \A t \in 1 .. Span : t # x /\ t # y => m[t] = l[t] BY <2>1, <1>3
  <2> HIDE DEF m
  <2>5. Row(Span, m) BY <2>3 DEF Row
  <2>6. \A t \in A : lo <= m[t] /\ m[t] <= N
    <3> SUFFICES ASSUME NEW t \in A PROVE lo <= m[t] /\ m[t] <= N OBVIOUS
    <3>1. t = x \/ t = y \/ m[t] = l[t] BY <2>4, <1>0
    <3> QED BY <3>1, <2>4, <1>0
  <2>7. Row(Span, p) /\ Row(Span, q) /\ Row(Span, g) /\ Row(Span, h) BY <1>0, <2>5, <2>6, RowsAre
  <2>8. \A t \in 1 .. Span : p[t] = (IF t \in A THEN Power[N - l[t]] ELSE 0) /\ q[t] = (IF t \in A THEN Power[N - m[t]] ELSE 0)
    BY DEF Portions
  <2>9. \A t \in 1 .. Span : g[t] = (IF t \in A THEN w[t] * l[t] ELSE 0) /\ h[t] = (IF t \in A THEN w[t] * m[t] ELSE 0)
    BY DEF Weights
  <2> HIDE DEF p, q, g, h
  <2>10. \A t \in 1 .. Span : t # x /\ t # y => p[t] = q[t] /\ g[t] = h[t] BY <2>4, <2>8, <2>9
  <2>11. Total(q) + p[x] + p[y] = Total(p) + q[x] + q[y]
    BY <1>1, <1>3, <2>1, <2>7, <2>10, TotalPoints
  <2>12. Total(h) + g[x] + g[y] = Total(g) + h[x] + h[y]
    BY <1>1, <1>3, <2>1, <2>7, <2>10, TotalPoints
  <2>13. Total(p) \in Nat /\ Total(q) \in Nat /\ Total(g) \in Nat /\ Total(h) \in Nat BY <1>1, <2>7, TotalOf
  <2>14. p[x] = q[y] /\ p[y] = q[x] /\ p[x] \in Nat /\ p[y] \in Nat
    <3>1. p[x] \in Nat /\ p[y] \in Nat BY <2>1, <2>7 DEF Row
    <3> QED BY <3>1, <2>1, <2>4, <2>8
  <2> DEFINE P == Total(p)
             Q == Total(q)
             G == Total(g)
             H == Total(h)
             i == p[x]
             k == p[y]
  <2>15. Q + i + k = P + k + i BY <2>11, <2>14
  <2>16. P \in Nat /\ Q \in Nat /\ G \in Nat /\ H \in Nat /\ i \in Nat /\ k \in Nat BY <2>13, <2>14
  <2>17. Q = P
    <3> HIDE DEF P, Q, i, k
    <3> QED BY <2>15, <2>16
  <2>18. Fills(A, m, lo, N) BY <1>0, <2>5, <2>6, <2>17 DEF Fills, p, q
  <2> DEFINE a == w[x]
             b == w[y]
             c == l[x]
             d == l[y]
  <2>19. a \in Nat /\ b \in Nat /\ c \in Nat /\ d \in Nat /\ a <= b /\ c <= d BY <2>1, <2>2
  <2>20. g[x] = a * c /\ g[y] = b * d /\ h[x] = a * d /\ h[y] = b * c BY <2>1, <2>4, <2>9
  <2>21. H + a * c + b * d = G + a * d + b * c BY <2>12, <2>20
  <2> HIDE DEF a, b, c, d, G, H
  <2>22. a * d + b * c <= a * c + b * d
    <3> DEFINE e == b - a
               f == d - c
    <3>1. e \in Nat /\ f \in Nat /\ b = a + e /\ d = c + f BY <2>19
    <3> HIDE DEF e, f
    <3>2. a * (c + f) = a * c + a * f BY <3>1, <2>19
    <3>3. (a + e) * c = a * c + e * c BY <3>1, <2>19
    <3>4. (a + e) * (c + f) = (a * c + a * f) + (e * c + e * f) BY <3>1, <2>19
    <3> DEFINE u == a * c
               v == a * f
               r == e * c
               s == e * f
    <3>5. u \in Nat /\ v \in Nat /\ r \in Nat /\ s \in Nat BY <3>1, <2>19
    <3>6. a * d = u + v /\ b * c = u + r /\ b * d = (u + v) + (r + s) BY <3>1, <3>2, <3>3, <3>4
    <3> HIDE DEF u, v, r, s
    <3>7. (u + v) + (u + r) <= u + ((u + v) + (r + s)) BY <3>5
    <3> QED BY <3>6, <3>7 DEF u
  <2>23. H <= G
    <3> DEFINE u == a * c
               v == b * d
               r == a * d
               s == b * c
    <3>1. u \in Nat /\ v \in Nat /\ r \in Nat /\ s \in Nat BY <2>19
    <3>2. r + s <= u + v BY <2>22
    <3>3. H + u + v = G + r + s BY <2>21
    <3> HIDE DEF u, v, r, s
    <3> QED BY <3>1, <3>2, <3>3, <2>16
  <2>24. Price(A, w, m) <= Price(A, w, l) BY <2>23 DEF Price, G, H, g, h
  <2>25. \A t \in A \ {x, y} : m[t] = l[t] BY <2>4, <1>0
  <2> QED BY <2>4, <2>18, <2>24, <2>25
<1> QED BY <1>2, <1>3

\* The longest path of a full tree is not alone: those that are shorter fill an even share.
LEMMA Another ==
  ASSUME NEW A, NEW l, NEW lo, NEW N, Fills(A, l, lo, N), NEW x \in A, l[x] # 0, \A t \in A : l[t] <= l[x]
  PROVE  \E y \in A : y # x /\ l[y] = l[x]
<1>0. /\ A \in SUBSET (1 .. Span) /\ Row(Span, l) /\ lo \in Nat /\ N \in Nat
      /\ \A t \in A : lo <= l[t] /\ l[t] <= N
      /\ Total(Portions(A, l, N)) = Power[N]
  BY DEF Fills
<1>1. Span \in Nat BY RowsAre
<1>2. SUFFICES ASSUME \A y \in A : y # x => l[y] # l[x] PROVE FALSE OBVIOUS
<1> DEFINE k == l[x]
           j == k - 1
           i == N - k
           p == Portions(A, l, N)
           q == [t \in 1 .. Span |-> IF t = x THEN 0 ELSE p[t]]
           r == [t \in 1 .. Span |-> IF t \in A /\ t # x THEN Power[j - l[t]] ELSE 0]
           c == 2 * Power[i]
<1>3. x \in 1 .. Span /\ \A t \in 1 .. Span : l[t] \in Nat BY <1>0 DEF Row
<1>4. k \in Nat /\ k <= N /\ j \in Nat /\ k = j + 1 /\ i \in Nat /\ N = i + (j + 1) BY <1>0, <1>3
<1>5. Row(Span, p) BY <1>0, RowsAre
<1>6. \A t \in 1 .. Span : p[t] = (IF t \in A THEN Power[N - l[t]] ELSE 0) BY DEF Portions
<1>7. \A t \in A : t # x => l[t] <= j
  <2> SUFFICES ASSUME NEW t \in A, t # x PROVE l[t] <= j OBVIOUS
  <2>1. l[t] <= k /\ l[t] # k /\ l[t] \in Nat BY <1>0, <1>2, <1>3
  <2> HIDE DEF k
  <2> QED BY <2>1, <1>4
<1>8. i = N - l[x] OBVIOUS
<1> HIDE DEF k, j, i, p
<1>9. Row(Span, q) BY <1>5 DEF Row
<1>10. \A t \in A : t # x => j - l[t] \in Nat BY <1>0, <1>3, <1>4, <1>7
<1>11. Row(Span, r)
  <2>1. \A t \in A : t # x => Power[j - l[t]] \in Nat BY <1>10, PowersAre
  <2> QED BY <2>1 DEF Row
<1>12. Power[i] \in Nat \ {0} /\ c \in Nat /\ Power[i + 1] = c /\ i + 1 \in Nat BY <1>4, PowersAre
<1> HIDE DEF c
<1>13. \A t \in 1 .. Span : q[t] = c * r[t]
  <2> SUFFICES ASSUME NEW t \in 1 .. Span PROVE q[t] = c * r[t] OBVIOUS
  <2>1. CASE t \in A /\ t # x
    <3> DEFINE e == j - l[t]
    <3>1. e \in Nat /\ N - l[t] = (i + 1) + e BY <2>1, <1>3, <1>4, <1>10
    <3>2. r[t] = Power[e] /\ q[t] = Power[N - l[t]] BY <2>1, <1>6
    <3> HIDE DEF e, q, r
    <3>3. Power[(i + 1) + e] = Power[i + 1] * Power[e] BY <3>1, <1>12, PowersMultiply
    <3> QED BY <3>1, <3>2, <3>3, <1>12
  <2>2. CASE t \notin A \/ t = x
    <3>1. r[t] = 0 /\ q[t] = 0 BY <2>2, <1>6
    <3> HIDE DEF q, r
    <3> QED BY <3>1, <1>12
  <2> QED BY <2>1, <2>2
<1>14. q[x] = 0 /\ p[x] = Power[i] BY <1>3, <1>6, <1>8
<1>15. \A t \in 1 .. Span : t # x => p[t] = q[t] OBVIOUS
<1> HIDE DEF q, r
<1>16. Total(q) + p[x] = Total(p) + q[x] BY <1>1, <1>3, <1>5, <1>9, <1>15, TotalPoint
<1>17. Total(q) = c * Total(r) BY <1>1, <1>9, <1>11, <1>12, <1>13, TotalScaled
<1>18. Power[N] = c * Power[j]
  <2>1. N = (i + 1) + j BY <1>4
  <2>2. Power[(i + 1) + j] = Power[i + 1] * Power[j] BY <1>4, <1>12, PowersMultiply
  <2> QED BY <2>1, <2>2, <1>12
<1>19. Total(p) = Power[N] BY <1>0 DEF p
<1> DEFINE P == Power[i]
           R == Total(r)
           J == Power[j]
<1>20. P \in Nat \ {0} /\ R \in Nat /\ J \in Nat BY <1>1, <1>4, <1>11, <1>12, TotalOf, PowersAre
<1>21. (2 * P) * R + P = (2 * P) * J
  <2>1. Total(q) + Power[i] = Total(p) + 0 BY <1>14, <1>16
  <2>2. Total(p) \in Nat BY <1>1, <1>5, TotalOf
  <2>3. c * R + P = c * J BY <2>1, <2>2, <1>17, <1>18, <1>19
  <2> QED BY <2>3 DEF c
<1> HIDE DEF P, R, J
<1> DEFINE d == 2 * R + 1
           e == 2 * J
<1>22. d * P = e * P BY <1>20, <1>21
<1>23. d \in Int /\ e \in Int /\ d # e BY <1>20
<1> HIDE DEF d, e
<1>24. ASSUME NEW u \in Int, NEW v \in Int, u < v, u * P = v * P PROVE FALSE
  <2>1. (u + 1) * P <= v * P BY <1>20, <1>24, TimesMonotone
  <2>2. (u + 1) * P = u * P + 1 * P /\ u * P \in Int BY <1>20, Distribute
  <2>3. u * P + P <= u * P BY <2>1, <2>2, <1>20, <1>24
  <2> QED BY <2>2, <2>3, <1>20
<1> QED BY <1>22, <1>23, <1>24

\* The two lightest items can be neighbours at the end of a longest path.
LEMMA Siblings ==
  ASSUME NEW A, NEW l, NEW lo, NEW N, Fills(A, l, lo, N), NEW w, Row(Span, w),
         NEW a \in A, NEW b \in A, a # b, \A t \in A : w[a] <= w[t], \A t \in A : t # a => w[b] <= w[t],
         \E t \in A : lo < l[t]
  PROVE  \E m : Fills(A, m, lo, N) /\ Price(A, w, m) <= Price(A, w, l) /\ m[a] = m[b] /\ lo < m[a]
<1>0. /\ A \in SUBSET (1 .. Span) /\ Row(Span, l) /\ lo \in Nat /\ N \in Nat
      /\ \A t \in A : lo <= l[t] /\ l[t] <= N /\ l[t] \in Nat
  <2>1. /\ A \in SUBSET (1 .. Span) /\ Row(Span, l) /\ lo \in Nat /\ N \in Nat
        /\ \A t \in A : lo <= l[t] /\ l[t] <= N
    BY DEF Fills
  <2>2. \A t \in A : l[t] \in Nat BY <2>1 DEF Row
  <2> QED BY <2>1, <2>2
<1>1. PICK x \in A : \A t \in A : l[t] <= l[x]
  <2> DEFINE S == {N - l[t] : t \in A}
  <2>1. S \subseteq Nat BY <1>0
  <2>2. S # {} OBVIOUS
  <2> HIDE DEF S
  <2>3. PICK k \in S : \A j \in S : k <= j BY <2>1, <2>2, LeastNatural
  <2>4. PICK x \in A : k = N - l[x] BY <2>3 DEF S
  <2>5. ASSUME NEW t \in A PROVE l[t] <= l[x]
    <3>1. N - l[x] <= N - l[t] BY <2>3, <2>4 DEF S
    <3>2. l[t] \in Nat /\ l[x] \in Nat /\ N \in Nat BY <1>0
    <3> QED BY <3>1, <3>2
  <2> QED BY <2>5
<1>2. lo < l[x]
  <2>1. PICK t \in A : lo < l[t] OBVIOUS
  <2>2. l[t] <= l[x] /\ l[t] \in Nat /\ l[x] \in Nat BY <1>0, <1>1
  <2> QED BY <2>1, <2>2, <1>0
<1>3. w[a] <= w[x] /\ l[a] <= l[x] BY <1>1
<1>4. PICK m : /\ Fills(A, m, lo, N) /\ Price(A, w, m) <= Price(A, w, l)
               /\ m[a] = l[x] /\ m[x] = l[a] /\ \A t \in A \ {a, x} : m[t] = l[t]
  BY <1>3, Exchanged
<1>5. \A t \in A : m[t] <= m[a]
  <2> SUFFICES ASSUME NEW t \in A PROVE m[t] <= l[x] BY <1>4
  <2>1. CASE t = a BY <2>1, <1>0, <1>4
  <2>2. CASE t = x BY <2>2, <1>3, <1>4
  <2>3. CASE t # a /\ t # x
    <3>1. m[t] = l[t] BY <2>3, <1>4
    <3> QED BY <3>1, <1>1
  <2> QED BY <2>1, <2>2, <2>3
<1>6. m[a] # 0 BY <1>0, <1>2, <1>4
<1>7. PICK y \in A : y # a /\ m[y] = m[a] BY <1>4, <1>5, <1>6, Another
<1>8. w[b] <= w[y] /\ m[b] <= m[y] BY <1>5, <1>7
<1>9. PICK k : /\ Fills(A, k, lo, N) /\ Price(A, w, k) <= Price(A, w, m)
               /\ k[b] = m[y] /\ k[y] = m[b] /\ \A t \in A \ {b, y} : k[t] = m[t]
  BY <1>4, <1>8, Exchanged
<1>10. k[a] = m[a] /\ k[b] = m[a] BY <1>7, <1>9
<1>11. Price(A, w, k) <= Price(A, w, l)
  <2>1. Row(Span, k) /\ Row(Span, m) BY <1>4, <1>9 DEF Fills
  <2>2. Price(A, w, k) \in Nat /\ Price(A, w, m) \in Nat /\ Price(A, w, l) \in Nat BY <2>1, <1>0, RowsAre
  <2> QED BY <2>2, <1>4, <1>9
<1> QED BY <1>2, <1>4, <1>9, <1>10, <1>11

\* So under one item they cost less by their weights, and still fill the tree.
LEMMA CheaperMerged ==
  ASSUME NEW A, NEW l, NEW lo, NEW N, Fills(A, l, lo, N), NEW w, Row(Span, w),
         NEW a \in A, NEW b \in A, a # b, \A t \in A : w[a] <= w[t], \A t \in A : t # a => w[b] <= w[t],
         \E t \in A : lo < l[t],
         NEW i \in (1 .. Span) \ A, NEW v, Row(Span, v), v[i] = w[a] + w[b], \A t \in A \ {a, b} : v[t] = w[t]
  PROVE  LET B == (A \ {a, b}) \cup {i} IN
           \E m : Fills(B, m, lo, N) /\ Price(B, v, m) + (w[a] + w[b]) <= Price(A, w, l)
<1>1. PICK k : Fills(A, k, lo, N) /\ Price(A, w, k) <= Price(A, w, l) /\ k[a] = k[b] /\ lo < k[a]
  BY Siblings
<1>2. A \in SUBSET (1 .. Span) /\ Row(Span, k) /\ lo \in Nat BY <1>1 DEF Fills
<1> DEFINE B == (A \ {a, b}) \cup {i}
           m == [t \in 1 .. Span |-> IF t = i THEN k[a] - 1 ELSE k[t]]
<1>3. \A t \in 1 .. Span : k[t] \in Nat BY <1>2 DEF Row
<1>4. k[a] \in Nat BY <1>2, <1>3
<1>5. k[a] - 1 \in Nat /\ (k[a] - 1) + 1 = k[a] /\ lo <= k[a] - 1 BY <1>1, <1>2, <1>4
<1>6. Row(Span, m) BY <1>3, <1>5 DEF Row
<1>7. m[i] = k[a] - 1 OBVIOUS
<1>8. \A t \in A \ {a, b} : m[t] = k[t] BY <1>2
<1> HIDE DEF m
<1>9. k[a] = m[i] + 1 /\ k[b] = m[i] + 1 /\ lo <= m[i] BY <1>1, <1>5, <1>7
<1>10. Fills(B, m, lo, N) BY <1>1, <1>6, <1>8, <1>9, FillsMerged
<1>11. \A t \in A \ {a, b} : m[t] = k[t] /\ v[t] = w[t] BY <1>8
<1>12. Price(B, v, m) + (w[a] + w[b]) = Price(A, w, k) BY <1>2, <1>6, <1>9, <1>11, PriceMerged
<1>13. Price(B, v, m) + (w[a] + w[b]) <= Price(A, w, l) BY <1>1, <1>12
<1> QED BY <1>10, <1>13

\* Of two items that fill a tree not both are the root.
LEMMA TwoAreBelow ==
  ASSUME NEW A, NEW l, NEW N, Fills(A, l, 0, N), NEW a \in A, NEW b \in A, a # b
  PROVE  \E t \in A : 0 < l[t]
<1> SUFFICES ASSUME \A t \in A : ~(0 < l[t]) PROVE FALSE OBVIOUS
<1> DEFINE p == Portions(A, l, N)
           q == [t \in 1 .. Span |-> IF t = a \/ t = b THEN 0 ELSE p[t]]
           P == Power[N]
<1>1. /\ A \in SUBSET (1 .. Span) /\ Row(Span, l) /\ N \in Nat
      /\ \A t \in A : 0 <= l[t] /\ l[t] <= N
      /\ Total(p) = Power[N]
  BY DEF Fills
<1>2. Span \in Nat BY RowsAre
<1>3. \A t \in A : l[t] = 0
  <2>1. \A t \in A : l[t] \in Nat BY <1>1 DEF Row
  <2> QED BY <2>1
<1>4. Row(Span, p) BY <1>1, RowsAre
<1>5. a \in 1 .. Span /\ b \in 1 .. Span BY <1>1
<1>6. p[a] = P /\ p[b] = P
  <2>1. N - 0 = N BY <1>1
  <2>2. p[a] = Power[N - l[a]] /\ p[b] = Power[N - l[b]] BY <1>5 DEF Portions
  <2> QED BY <2>1, <2>2, <1>3
<1> HIDE DEF p
<1>7. Row(Span, q) BY <1>4 DEF Row
<1>8. q[a] = 0 /\ q[b] = 0 /\ \A t \in 1 .. Span : t # a /\ t # b => p[t] = q[t] BY <1>5
<1> HIDE DEF q
<1>9. Total(q) + p[a] + p[b] = Total(p) + q[a] + q[b] BY <1>2, <1>4, <1>5, <1>7, <1>8, TotalPoints
<1>10. Total(q) \in Nat /\ P \in Nat \ {0} BY <1>1, <1>2, <1>7, TotalOf, PowersAre
<1>11. Total(q) + P + P = P + 0 + 0 BY <1>1, <1>6, <1>8, <1>9
<1> HIDE DEF P
<1> QED BY <1>10, <1>11

\* Of five items not all are at the second level.
LEMMA FiveAreBelow ==
  ASSUME NEW A, NEW l, NEW N, Fills(A, l, 2, N),
         NEW a \in A, NEW b \in A, NEW c \in A, NEW d \in A, NEW e \in A,
         a # b, a # c, a # d, a # e, b # c, b # d, b # e, c # d, c # e, d # e
  PROVE  \E t \in A : 2 < l[t]
<1> SUFFICES ASSUME \A t \in A : ~(2 < l[t]) PROVE FALSE OBVIOUS
<1> DEFINE p == Portions(A, l, N)
           q == [t \in 1 .. Span |-> IF t = a \/ t = b \/ t = c THEN 0 ELSE p[t]]
           r == [t \in 1 .. Span |-> IF t = d \/ t = e THEN 0 ELSE q[t]]
           j == N - 2
           P == Power[j]
<1>1. /\ A \in SUBSET (1 .. Span) /\ Row(Span, l) /\ N \in Nat
      /\ \A t \in A : 2 <= l[t] /\ l[t] <= N
      /\ Total(p) = Power[N]
  BY DEF Fills
<1>2. Span \in Nat BY RowsAre
<1>3. \A t \in A : l[t] = 2
  <2>1. \A t \in A : l[t] \in Nat BY <1>1 DEF Row
  <2> QED BY <2>1, <1>1
<1>4. Row(Span, p) BY <1>1, RowsAre
<1>5. a \in 1 .. Span /\ b \in 1 .. Span /\ c \in 1 .. Span /\ d \in 1 .. Span /\ e \in 1 .. Span BY <1>1
<1>6. \A t \in A : p[t] = P
  <2> SUFFICES ASSUME NEW t \in A PROVE p[t] = P OBVIOUS
  <2>1. p[t] = Power[N - l[t]] BY <1>1 DEF Portions
  <2> QED BY <2>1, <1>3
<1>7. j \in Nat /\ N = (j + 1) + 1 BY <1>1, <1>3
<1> HIDE DEF p, j
<1>8. P \in Nat \ {0} /\ Power[N] = 2 * (2 * P) BY <1>7, PowersAre
<1>9. Row(Span, q) BY <1>4 DEF Row
<1>10. q[a] = 0 /\ q[b] = 0 /\ q[c] = 0 /\ q[d] = p[d] /\ q[e] = p[e] BY <1>5
<1>11. \A t \in 1 .. Span : t # a /\ t # b /\ t # c => p[t] = q[t] OBVIOUS
<1> HIDE DEF q
<1>12. Row(Span, r) BY <1>9 DEF Row
<1>13. r[d] = 0 /\ r[e] = 0 /\ \A t \in 1 .. Span : t # d /\ t # e => q[t] = r[t] BY <1>5
<1> HIDE DEF r
<1>14. Total(q) + p[a] + p[b] + p[c] = Total(p) + q[a] + q[b] + q[c]
  BY <1>2, <1>4, <1>5, <1>9, <1>11, TotalThree
<1>15. Total(r) + q[d] + q[e] = Total(q) + r[d] + r[e]
  BY <1>2, <1>5, <1>9, <1>12, <1>13, TotalPoints
<1>16. Total(q) \in Nat /\ Total(r) \in Nat BY <1>2, <1>9, <1>12, TotalOf
<1>17. Total(q) + P + P + P = 2 * (2 * P) + 0 + 0 + 0 BY <1>1, <1>6, <1>8, <1>10, <1>14
<1>18. Total(r) + P + P = Total(q) + 0 + 0 BY <1>6, <1>10, <1>13, <1>15
<1> DEFINE Q == Total(q)
           R == Total(r)
<1>19. Q \in Nat /\ R \in Nat /\ Q + P + P + P = 2 * (2 * P) + 0 + 0 + 0 /\ R + P + P = Q + 0 + 0
  BY <1>16, <1>17, <1>18
<1> HIDE DEF P, Q, R
<1> QED BY <1>8, <1>19

----------------------------------------------------------------------------
(* The heap as tags and weights. *)

\* The tags in a heap, and what the item of each weighs.
TagsOf(h) == {x.tag : x \in h}
Weighing(h) == [t \in 1 .. Span |-> IF t \in TagsOf(h) THEN (CHOOSE x \in h : x.tag = t).weight ELSE 0]

\* The tag of an item by what it stands for.
TagOf(y) == IF y \in Symbols THEN Position(y) ELSE Len(Order) + y.value + 1

\* D says of each node how far below the root it is, and of each thing that hangs at one.
Descends(c, D) ==
  /\ Row(Span, D)
  /\ \A n \in 0 .. Len(c) - 1 : \A b \in {0, 1} : D[TagOf(Kid(c, n, b))] = D[Len(Order) + n + 1] + 1

\* A heap by its tags.
LEMMA HeapIs ==
  ASSUME NEW h, NEW c, Heaped(h, c)
  PROVE  /\ TagsOf(h) \in SUBSET (1 .. Span) /\ Row(Span, Weighing(h))
         /\ \A x \in h : x.weight \in Nat /\ Weighing(h)[x.tag] = x.weight /\ x.tag = TagOf(x.child)
         /\ \A x \in h : x.tag \in 1 .. Span /\ x.tag < Len(Order) + Len(c) + 1
         /\ \A x, y \in h : x.tag = y.tag => x = y
         /\ Len(c) \in Nat /\ Cardinality(h) \in Nat /\ Len(Order) \in Nat
<1>1. /\ Len(c) \in Nat /\ Cardinality(h) \in Nat /\ Len(Order) \in Nat
      /\ \A x \in h : x.tag \in 1 .. 2 * Len(Order)
      /\ \A x, y \in h : x.tag = y.tag => x = y
  BY TagsAre
<1>2. \A x \in h : x.weight \in Nat /\ Tagged(x, Len(c)) BY DEF Heaped
<1>3. \A x \in h : x.tag \in 1 .. Span BY <1>1 DEF Span
<1>4. TagsOf(h) \in SUBSET (1 .. Span) BY <1>3 DEF TagsOf
<1>5. ASSUME NEW t \in 1 .. Span, t \in TagsOf(h)
      PROVE  \E x \in h : x.tag = t /\ Weighing(h)[t] = x.weight
  <2> DEFINE y == CHOOSE x \in h : x.tag = t
  <2>1. \E x \in h : x.tag = t BY <1>5 DEF TagsOf
  <2>2. y \in h /\ y.tag = t BY <2>1
  <2>3. Weighing(h)[t] = y.weight BY <1>5 DEF Weighing
  <2> HIDE DEF y
  <2> QED BY <2>2, <2>3
<1>6. \A t \in 1 .. Span : t \notin TagsOf(h) => Weighing(h)[t] = 0 BY DEF Weighing
<1>7. Row(Span, Weighing(h))
  <2>1. \A t \in 1 .. Span : Weighing(h)[t] \in Nat
    <3> SUFFICES ASSUME NEW t \in 1 .. Span PROVE Weighing(h)[t] \in Nat OBVIOUS
    <3>1. CASE t \in TagsOf(h) BY <3>1, <1>2, <1>5
    <3>2. CASE t \notin TagsOf(h) BY <3>2, <1>6
    <3> QED BY <3>1, <3>2
  <2>2. Weighing(h) = [t \in 1 .. Span |-> Weighing(h)[t]] BY DEF Weighing
  <2> QED BY <2>1, <2>2 DEF Row
<1>8. ASSUME NEW x \in h PROVE Weighing(h)[x.tag] = x.weight
  <2>1. x.tag \in TagsOf(h) BY DEF TagsOf
  <2>2. PICK y \in h : y.tag = x.tag /\ Weighing(h)[x.tag] = y.weight BY <2>1, <1>3, <1>5
  <2>3. y = x BY <2>2, <1>1
  <2> QED BY <2>2, <2>3
<1>9. ASSUME NEW x \in h PROVE x.tag = TagOf(x.child) /\ x.tag < Len(Order) + Len(c) + 1
  <2>1. Tagged(x, Len(c)) BY <1>2
  <2>2. ASSUME x.child \in Symbols, x.tag = Position(x.child)
        PROVE  x.tag = TagOf(x.child) /\ x.tag < Len(Order) + Len(c) + 1
    <3>1. x.tag \in 1 .. Len(Order) BY <2>2, PositionsAre
    <3>2. x.tag < Len(Order) + Len(c) + 1 BY <3>1, <1>1
    <3> QED BY <3>2, <2>2 DEF TagOf
  <2>3. ASSUME NEW v \in 0 .. Len(c) - 1, x.child = Node(v), x.tag = Len(Order) + v + 1
        PROVE  x.tag = TagOf(x.child) /\ x.tag < Len(Order) + Len(c) + 1
    <3>1. v \in Nat /\ v < Len(c) BY <1>1
    <3>2. Node(v) \notin Symbols BY <3>1, NodeIsKept
    <3>3. Node(v).value = v BY DEF Node
    <3>4. Len(Order) + v + 1 < Len(Order) + Len(c) + 1 BY <3>1, <1>1
    <3> QED BY <3>2, <3>3, <3>4, <2>3 DEF TagOf
  <2> QED BY <2>1, <2>2, <2>3 DEF Tagged
<1> QED BY <1>1, <1>2, <1>3, <1>4, <1>7, <1>8, <1>9

\* One merge: of the heap h and the nodes c it makes g and d.
Merges(h, c, a, b, i, g, d) ==
  /\ Heaped(h, c) /\ Cardinality(h) > 1
  /\ a = Lightest(h) /\ b = Lightest(h \ {a})
  /\ d = Append(c, <<a.child, b.child>>)
  /\ i = [weight |-> a.weight + b.weight, tag |-> Len(Order) + Len(d), child |-> Node(Len(c))]
  /\ g = (h \ {a, b}) \cup {i}

\* It takes the two lightest.
LEMMA MergeTakes ==
  ASSUME NEW h, NEW c, NEW a, NEW b, NEW i, NEW g, NEW d, Merges(h, c, a, b, i, g, d)
  PROVE  /\ a \in h /\ b \in h /\ a # b
         /\ \A x \in h : a.weight <= x.weight
         /\ \A x \in h : x # a => b.weight <= x.weight
         /\ Heaped(g, d)
<1>1. Heaped(h, c) /\ Cardinality(h) > 1 /\ a = Lightest(h) /\ b = Lightest(h \ {a}) BY DEF Merges
<1>2. Cardinality(h) \in Nat BY <1>1, TagsAre
<1>3. a \in h /\ \A x \in h : a.weight <= x.weight
  <2>1. {} \in SUBSET h /\ IsFiniteSet({}) /\ Cardinality({}) = 0 BY FS_EmptySet
  <2>2. Cardinality({}) < Cardinality(h) BY <2>1, <1>1, <1>2
  <2>3. Lightest(h \ {}) \in h \ {} /\ \A x \in h \ {} : Lightest(h \ {}).weight <= x.weight
    BY <2>1, <2>2, <1>1, LightestsAre
  <2>4. h \ {} = h OBVIOUS
  <2> QED BY <2>3, <2>4, <1>1
<1>4. b \in h \ {a} /\ \A x \in h \ {a} : b.weight <= x.weight
  <2>1. {a} \in SUBSET h BY <1>3
  <2>2. IsFiniteSet({a}) /\ Cardinality({a}) = 1 BY FS_Singleton
  <2>3. Cardinality({a}) < Cardinality(h) BY <2>2, <1>1, <1>2
  <2>4. Lightest(h \ {a}) \in h \ {a} /\ \A x \in h \ {a} : Lightest(h \ {a}).weight <= x.weight
    BY <2>1, <2>2, <2>3, <1>1, LightestsAre
  <2> QED BY <2>4, <1>1
<1>5. Heaped(g, d)
  <2>1. /\ Heaped(h, c) /\ Cardinality(h) > 1 /\ a = Lightest(h) /\ b = Lightest(h \ {a})
        /\ d = Append(c, <<a.child, b.child>>)
        /\ i = [weight |-> a.weight + b.weight, tag |-> Len(Order) + Len(d), child |-> Node(Len(c))]
        /\ g = (h \ {a, b}) \cup {i}
    BY Zenon DEF Merges
  <2> QED BY <2>1, MergedIs, Zenon
<1> QED BY <1>3, <1>4, <1>5

\* By tags and weights: two go and one comes that weighs what they did.
LEMMA MergeWeighs ==
  ASSUME NEW h, NEW c, NEW a, NEW b, NEW i, NEW g, NEW d, Merges(h, c, a, b, i, g, d)
  PROVE  LET A == TagsOf(h)
             w == Weighing(h)
             v == Weighing(g)
         IN /\ A \in SUBSET (1 .. Span) /\ Row(Span, w) /\ Row(Span, v)
            /\ a.tag \in A /\ b.tag \in A /\ a.tag # b.tag /\ i.tag \in (1 .. Span) \ A
            /\ TagsOf(g) = (A \ {a.tag, b.tag}) \cup {i.tag}
            /\ v[i.tag] = w[a.tag] + w[b.tag]
            /\ \A t \in A \ {a.tag, b.tag} : v[t] = w[t]
            /\ \A t \in A : w[a.tag] <= w[t]
            /\ \A t \in A : t # a.tag => w[b.tag] <= w[t]
<1> DEFINE A == TagsOf(h)
           w == Weighing(h)
           v == Weighing(g)
<1>1. Heaped(h, c) /\ g = (h \ {a, b}) \cup {i} /\ i.weight = a.weight + b.weight /\ i.tag = Len(Order) + Len(d)
  BY DEF Merges
<1>2. /\ a \in h /\ b \in h /\ a # b
      /\ \A x \in h : a.weight <= x.weight
      /\ \A x \in h : x # a => b.weight <= x.weight
      /\ Heaped(g, d)
  BY MergeTakes
<1>3. /\ A \in SUBSET (1 .. Span) /\ Row(Span, w)
      /\ \A x \in h : x.weight \in Nat /\ w[x.tag] = x.weight /\ x.tag = TagOf(x.child)
      /\ \A x \in h : x.tag \in 1 .. Span /\ x.tag < Len(Order) + Len(c) + 1
      /\ \A x, y \in h : x.tag = y.tag => x = y
      /\ Len(c) \in Nat /\ Len(Order) \in Nat
  BY <1>1, HeapIs
<1>4. /\ Row(Span, v)
      /\ \A x \in g : x.weight \in Nat /\ v[x.tag] = x.weight
      /\ \A x \in g : x.tag \in 1 .. Span
      /\ \A x, y \in g : x.tag = y.tag => x = y
  BY <1>2, HeapIs
<1>5. Len(d) = Len(c) + 1
  <2>1. d = Append(c, <<a.child, b.child>>) BY DEF Merges
  <2>2. c \in Seq(Hanging \X Hanging) BY <1>1 DEF Heaped, Loose
  <2> QED BY <2>1, <2>2
<1>6. \A x \in h : x.tag # i.tag BY <1>1, <1>3, <1>5
<1>7. \A x : x \in g <=> (x \in h /\ x # a /\ x # b) \/ x = i BY <1>1
<1>8. \A t : t \in A <=> \E x \in h : x.tag = t BY DEF TagsOf
<1>9. \A t : t \in TagsOf(g) <=> \E x \in g : x.tag = t BY DEF TagsOf
<1> HIDE DEF A, w, v
<1>10. a.tag \in A /\ b.tag \in A /\ a.tag # b.tag BY <1>2, <1>3, <1>8
<1>11. i.tag \in (1 .. Span) \ A BY <1>4, <1>6, <1>7, <1>8
<1>12. TagsOf(g) = (A \ {a.tag, b.tag}) \cup {i.tag}
  <2> SUFFICES ASSUME NEW t PROVE t \in TagsOf(g) <=> (t \in A /\ t # a.tag /\ t # b.tag) \/ t = i.tag
    OBVIOUS
  <2>1. ASSUME t \in TagsOf(g) PROVE (t \in A /\ t # a.tag /\ t # b.tag) \/ t = i.tag
    BY <2>1, <1>2, <1>3, <1>7, <1>8, <1>9
  <2>2. ASSUME t \in A, t # a.tag, t # b.tag PROVE t \in TagsOf(g) BY <2>2, <1>7, <1>8, <1>9
  <2>3. ASSUME t = i.tag PROVE t \in TagsOf(g) BY <2>3, <1>7, <1>9
  <2> QED BY <2>1, <2>2, <2>3
<1>13. v[i.tag] = w[a.tag] + w[b.tag]
  <2>1. w[a.tag] = a.weight /\ w[b.tag] = b.weight BY <1>2, <1>3
  <2>2. v[i.tag] = i.weight BY <1>4, <1>7
  <2> QED BY <2>1, <2>2, <1>1
<1>14. ASSUME NEW t \in A \ {a.tag, b.tag} PROVE v[t] = w[t]
  <2>1. PICK x \in h : x.tag = t BY <1>8
  <2>2. x \in g BY <2>1, <1>7
  <2> QED BY <2>1, <2>2, <1>3, <1>4
<1>15. ASSUME NEW t \in A PROVE w[a.tag] <= w[t] /\ (t # a.tag => w[b.tag] <= w[t])
  <2>1. PICK x \in h : x.tag = t BY <1>8
  <2>2. w[a.tag] = a.weight /\ w[b.tag] = b.weight /\ w[t] = x.weight BY <2>1, <1>2, <1>3
  <2> QED BY <2>1, <2>2, <1>2
<1>16. /\ \A t \in A \ {a.tag, b.tag} : v[t] = w[t]
       /\ \A t \in A : w[a.tag] <= w[t]
       /\ \A t \in A : t # a.tag => w[b.tag] <= w[t]
  BY <1>14, <1>15
<1> QED BY <1>3, <1>4, <1>10, <1>11, <1>12, <1>13, <1>16 DEF A, w, v

\* By depths: the two hang one below the new node.
LEMMA MergeDescends ==
  ASSUME NEW h, NEW c, NEW a, NEW b, NEW i, NEW g, NEW d, Merges(h, c, a, b, i, g, d), NEW D, Descends(d, D)
  PROVE  Descends(c, D) /\ Row(Span, D) /\ D[a.tag] = D[i.tag] + 1 /\ D[b.tag] = D[i.tag] + 1
<1> DEFINE m == Len(c)
<1>1. Heaped(h, c) /\ d = Append(c, <<a.child, b.child>>) /\ i.tag = Len(Order) + Len(d) BY DEF Merges
<1>2. c \in Seq(Hanging \X Hanging) /\ m \in Nat BY <1>1 DEF Heaped, Loose, Woven
<1>3. a \in h /\ b \in h BY MergeTakes
<1>4. a.tag = TagOf(a.child) /\ b.tag = TagOf(b.child) /\ Len(Order) \in Nat BY <1>1, <1>3, HeapIs
<1>5. Len(d) = m + 1 /\ d[m + 1] = <<a.child, b.child>> /\ \A k \in 1 .. m : d[k] = c[k] BY <1>1, <1>2
<1> HIDE DEF m
<1>6. /\ Row(Span, D)
      /\ \A n \in 0 .. m : \A e \in {0, 1} : D[TagOf(Kid(d, n, e))] = D[Len(Order) + n + 1] + 1
  <2>1. Len(d) - 1 = m BY <1>2, <1>5
  <2> QED BY <2>1 DEF Descends
<1>7. ASSUME NEW n \in 0 .. m - 1, NEW e \in {0, 1} PROVE D[TagOf(Kid(c, n, e))] = D[Len(Order) + n + 1] + 1
  <2>1. n + 1 \in 1 .. m /\ n \in 0 .. m BY <1>2
  <2>2. d[n + 1] = c[n + 1] BY <2>1, <1>5
  <2>3. Kid(d, n, e) = Kid(c, n, e) BY <2>2 DEF Kid
  <2>4. D[TagOf(Kid(d, n, e))] = D[Len(Order) + n + 1] + 1 BY <2>1, <1>6
  <2> QED BY <2>3, <2>4
<1>8. Descends(c, D) BY <1>6, <1>7 DEF Descends, m
<1>9. Kid(d, m, 0) = a.child /\ Kid(d, m, 1) = b.child BY <1>5 DEF Kid
<1>10. i.tag = Len(Order) + m + 1 BY <1>1, <1>2, <1>4, <1>5
<1>11. m \in 0 .. m BY <1>2
<1>12. D[TagOf(a.child)] = D[Len(Order) + m + 1] + 1 /\ D[TagOf(b.child)] = D[Len(Order) + m + 1] + 1
  BY <1>6, <1>9, <1>11
<1> QED BY <1>4, <1>6, <1>8, <1>10, <1>12

----------------------------------------------------------------------------
(* What the heap keeps of the frequencies. *)

\* What was merged so far costs K: what all of A costs is that and what the heap costs, however
\* deep the heap will hang; and whatever the lengths of a full tree, some full tree of the heap
\* and the K are no dearer.
Cheapest(A, w, h, c, lo) ==
  \E K \in Nat :
    /\ \A D : Descends(c, D) => Price(A, w, D) = Price(TagsOf(h), Weighing(h), D) + K
    /\ \A l, N : Fills(A, l, lo, N) =>
         \E m : Fills(TagsOf(h), m, lo, N) /\ Price(TagsOf(h), Weighing(h), m) + K <= Price(A, w, l)

\* In no full tree are all items of the heap at the level lo.
Below(h, lo) == \A l, N : Fills(TagsOf(h), l, lo, N) => \E t \in TagsOf(h) : lo < l[t]

\* It keeps that as long as something must be below the level of the last ones.
LEMMA CheapestMerged ==
  ASSUME NEW h, NEW c, NEW a, NEW b, NEW i, NEW g, NEW d, Merges(h, c, a, b, i, g, d),
         NEW A, NEW w, A \in SUBSET (1 .. Span), Row(Span, w), NEW lo,
         Cheapest(A, w, h, c, lo), Below(h, lo)
  PROVE  Cheapest(A, w, g, d, lo)
<1> DEFINE H == TagsOf(h)
           G == TagsOf(g)
           x == Weighing(h)
           y == Weighing(g)
           p == a.tag
           q == b.tag
           k == i.tag
<1>1. /\ H \in SUBSET (1 .. Span) /\ Row(Span, x) /\ Row(Span, y)
      /\ p \in H /\ q \in H /\ p # q /\ k \in (1 .. Span) \ H
      /\ G = (H \ {p, q}) \cup {k}
      /\ y[k] = x[p] + x[q]
      /\ \A t \in H \ {p, q} : y[t] = x[t]
      /\ \A t \in H : x[p] <= x[t]
      /\ \A t \in H : t # p => x[q] <= x[t]
  BY MergeWeighs
<1>2. \A D : Descends(d, D) => Descends(c, D) /\ Row(Span, D) /\ D[p] = D[k] + 1 /\ D[q] = D[k] + 1
  BY MergeDescends
<1>3. PICK K \in Nat :
        /\ \A D : Descends(c, D) => Price(A, w, D) = Price(H, x, D) + K
        /\ \A l, N : Fills(A, l, lo, N) => \E m : Fills(H, m, lo, N) /\ Price(H, x, m) + K <= Price(A, w, l)
  BY Zenon DEF Cheapest
<1>4. \A l, N : Fills(H, l, lo, N) => \E t \in H : lo < l[t] BY DEF Below
<1> HIDE DEF H, G, x, y, p, q, k
<1> DEFINE e == x[p] + x[q]
           B == (H \ {p, q}) \cup {k}
<1>5. x[p] \in Nat /\ x[q] \in Nat /\ e \in Nat
  <2>1. p \in 1 .. Span /\ q \in 1 .. Span BY <1>1
  <2>2. x[p] \in Nat /\ x[q] \in Nat BY <2>1, <1>1 DEF Row
  <2> QED BY <2>2
<1>6. \A D : Row(Span, D) => Price(G, y, D) \in Nat /\ Price(H, x, D) \in Nat /\ Price(A, w, D) \in Nat
  <2>1. G \in SUBSET (1 .. Span) BY <1>1
  <2> QED BY <2>1, <1>1, RowsAre
<1>7. ASSUME NEW D, Descends(d, D) PROVE Price(A, w, D) = Price(G, y, D) + (K + e)
  <2>1. Descends(c, D) /\ Row(Span, D) /\ D[p] = D[k] + 1 /\ D[q] = D[k] + 1 BY <1>2, <1>7
  <2>2. \A t \in H \ {p, q} : D[t] = D[t] /\ y[t] = x[t] BY <1>1
  <2>3. Price(B, y, D) + (x[p] + x[q]) = Price(H, x, D) BY <1>1, <2>1, <2>2, PriceMerged
  <2>4. Price(G, y, D) + e = Price(H, x, D) BY <2>3, <1>1
  <2>5. Price(A, w, D) = Price(H, x, D) + K BY <2>1, <1>3
  <2>6. Price(G, y, D) \in Nat /\ Price(H, x, D) \in Nat BY <2>1, <1>6
  <2> HIDE DEF e
  <2> QED BY <2>4, <2>5, <2>6, <1>5
<1>8. ASSUME NEW l, NEW N, Fills(A, l, lo, N)
      PROVE  \E m : Fills(G, m, lo, N) /\ Price(G, y, m) + (K + e) <= Price(A, w, l)
  <2>1. PICK z : Fills(H, z, lo, N) /\ Price(H, x, z) + K <= Price(A, w, l) BY <1>3, <1>8
  <2>2. \E t \in H : lo < z[t] BY <2>1, <1>4
  <2>3. PICK m : Fills(B, m, lo, N) /\ Price(B, y, m) + (x[p] + x[q]) <= Price(H, x, z)
    BY <1>1, <2>1, <2>2, CheaperMerged
  <2>4. Fills(G, m, lo, N) /\ Price(G, y, m) + e <= Price(H, x, z) BY <2>3, <1>1
  <2>5. Row(Span, m) /\ Row(Span, z) /\ Row(Span, l) BY <2>1, <2>4, <1>8 DEF Fills
  <2>6. Price(G, y, m) \in Nat /\ Price(H, x, z) \in Nat /\ Price(A, w, l) \in Nat BY <2>5, <1>6
  <2> HIDE DEF e
  <2>7. Price(G, y, m) + (K + e) <= Price(A, w, l) BY <2>1, <2>4, <2>6, <1>5
  <2> QED BY <2>4, <2>7
<1>9. K + e \in Nat BY <1>5
<1> HIDE DEF e
<1>10. \E L \in Nat :
        /\ \A D : Descends(d, D) => Price(A, w, D) = Price(G, y, D) + L
        /\ \A l, N : Fills(A, l, lo, N) => \E m : Fills(G, m, lo, N) /\ Price(G, y, m) + L <= Price(A, w, l)
  BY <1>7, <1>8, <1>9
<1> QED BY <1>10, Zenon DEF Cheapest, G, y

\* Nothing was merged yet.
LEMMA CheapestFirst ==
  ASSUME NEW h, Heaped(h, <<>>), NEW lo
  PROVE  Cheapest(TagsOf(h), Weighing(h), h, <<>>, lo)
<1> DEFINE A == TagsOf(h)
           w == Weighing(h)
<1>1. A \in SUBSET (1 .. Span) /\ Row(Span, w) BY HeapIs
<1>2. \A D : Row(Span, D) => Price(A, w, D) \in Nat BY <1>1, RowsAre
<1>3. ASSUME NEW D, Descends(<<>>, D) PROVE Price(A, w, D) = Price(A, w, D) + 0
  <2>1. Row(Span, D) BY <1>3 DEF Descends
  <2>2. Price(A, w, D) \in Nat BY <2>1, <1>2
  <2> QED BY <2>2
<1>4. ASSUME NEW l, NEW N, Fills(A, l, lo, N)
      PROVE  \E m : Fills(A, m, lo, N) /\ Price(A, w, m) + 0 <= Price(A, w, l)
  <2>1. Row(Span, l) BY <1>4 DEF Fills
  <2>2. Price(A, w, l) \in Nat BY <2>1, <1>2
  <2>3. Price(A, w, l) + 0 <= Price(A, w, l) BY <2>2
  <2> QED BY <2>3, <1>4
<1>5. 0 \in Nat OBVIOUS
<1> QED BY <1>3, <1>4, <1>5, Zenon DEF Cheapest

\* A finite set has something besides any smaller one.
LEMMA OneMore ==
  ASSUME NEW S, IsFiniteSet(S), NEW X, X \in SUBSET S, IsFiniteSet(X), NEW k \in Nat,
         Cardinality(X) = k, k < Cardinality(S)
  PROVE  \E x \in S : x \notin X /\ X \cup {x} \in SUBSET S /\ IsFiniteSet(X \cup {x}) /\ Cardinality(X \cup {x}) = k + 1
<1>1. \E x \in S : x \notin X
  <2> SUFFICES ASSUME X = S PROVE FALSE OBVIOUS
  <2>1. Cardinality(S) \in Nat BY FS_CardinalityType
  <2> QED BY <2>1
<1>2. PICK x \in S : x \notin X BY <1>1
<1>3. IsFiniteSet(X \cup {x}) /\ Cardinality(X \cup {x}) = Cardinality(X) + 1 BY <1>2, FS_AddElement
<1> QED BY <1>2, <1>3

\* While Merge is enabled something of the heap is below the last level.
LEMMA BelowIs ==
  ASSUME NEW h, NEW c, Heaped(h, c)
  PROVE  (Cardinality(h) > 1 => Below(h, 0)) /\ (Cardinality(h) > 4 => Below(h, 2))
<1>1. IsFiniteSet(h) BY DEF Heaped
<1>2. (\A x, y \in h : x.tag = y.tag => x = y) /\ Cardinality(h) \in Nat BY HeapIs
<1>3. \A x \in h : x.tag \in TagsOf(h) BY DEF TagsOf
<1>4. ASSUME Cardinality(h) > 1
      PROVE  \E a \in h : {a} \in SUBSET h /\ IsFiniteSet({a}) /\ Cardinality({a}) = 1 /\ \E b \in h : b # a /\
               {a, b} \in SUBSET h /\ IsFiniteSet({a, b}) /\ Cardinality({a, b}) = 2
  <2>1. {} \in SUBSET h /\ IsFiniteSet({}) /\ Cardinality({}) = 0 /\ 0 < Cardinality(h) BY <1>2, <1>4, FS_EmptySet
  <2>2. PICK a \in h : {} \cup {a} \in SUBSET h /\ IsFiniteSet({} \cup {a}) /\ Cardinality({} \cup {a}) = 0 + 1
    BY <1>1, <2>1, OneMore
  <2>3. {} \cup {a} = {a} /\ 0 + 1 = 1 OBVIOUS
  <2>4. {a} \in SUBSET h /\ IsFiniteSet({a}) /\ Cardinality({a}) = 1 BY <2>2, <2>3
  <2> DEFINE X == {a}
  <2>5. PICK b \in h : b \notin X /\ X \cup {b} \in SUBSET h /\ IsFiniteSet(X \cup {b}) /\ Cardinality(X \cup {b}) = 1 + 1
    <3>1. X \in SUBSET h /\ IsFiniteSet(X) /\ Cardinality(X) = 1 BY <2>4
    <3>2. 1 \in Nat /\ 1 < Cardinality(h) BY <1>2, <1>4
    <3> HIDE DEF X
    <3> QED BY <3>1, <3>2, <1>1, OneMore
  <2>6. X \cup {b} = {a, b} /\ 1 + 1 = 2 /\ b # a BY <2>5
  <2> QED BY <2>4, <2>5, <2>6
<1>5. ASSUME Cardinality(h) > 1 PROVE Below(h, 0)
  <2>1. PICK a \in h : \E b \in h : b # a BY <1>4, <1>5
  <2>2. PICK b \in h : b # a BY <2>1
  <2> DEFINE p == a.tag
             q == b.tag
  <2>3. p \in TagsOf(h) /\ q \in TagsOf(h) /\ p # q BY <2>2, <1>2, <1>3
  <2> HIDE DEF p, q
  <2>4. \A l, N : Fills(TagsOf(h), l, 0, N) => \E t \in TagsOf(h) : 0 < l[t] BY <2>3, TwoAreBelow
  <2> QED BY <2>4 DEF Below
<1>6. ASSUME Cardinality(h) > 4 PROVE Below(h, 2)
  <2>1. Cardinality(h) > 1 BY <1>2, <1>6
  <2>2. PICK a \in h : {a} \in SUBSET h /\ \E b \in h : b # a /\
               {a, b} \in SUBSET h /\ IsFiniteSet({a, b}) /\ Cardinality({a, b}) = 2
    BY <1>4, <2>1
  <2>3. PICK b \in h : b # a /\ {a, b} \in SUBSET h /\ IsFiniteSet({a, b}) /\ Cardinality({a, b}) = 2 BY <2>2
  <2> DEFINE X == {a, b}
  <2>4. X \in SUBSET h /\ IsFiniteSet(X) /\ Cardinality(X) = 2 BY <2>3
  <2>5. a \in X /\ b \in X OBVIOUS
  <2> HIDE DEF X
  <2>6. PICK e \in h : e \notin X /\ X \cup {e} \in SUBSET h /\ IsFiniteSet(X \cup {e}) /\ Cardinality(X \cup {e}) = 2 + 1
    <3>1. 2 \in Nat /\ 2 < Cardinality(h) BY <1>2, <1>6
    <3> QED BY <3>1, <1>1, <2>4, OneMore
  <2> DEFINE Y == X \cup {e}
  <2>7. Y \in SUBSET h /\ IsFiniteSet(Y) /\ Cardinality(Y) = 3 BY <2>6
  <2>8. a \in Y /\ b \in Y /\ e \in Y BY <2>5
  <2> HIDE DEF Y
  <2>9. PICK f \in h : f \notin Y /\ Y \cup {f} \in SUBSET h /\ IsFiniteSet(Y \cup {f}) /\ Cardinality(Y \cup {f}) = 3 + 1
    <3>1. 3 \in Nat /\ 3 < Cardinality(h) BY <1>2, <1>6
    <3> QED BY <3>1, <1>1, <2>7, OneMore
  <2> DEFINE Z == Y \cup {f}
  <2>10. Z \in SUBSET h /\ IsFiniteSet(Z) /\ Cardinality(Z) = 4 BY <2>9
  <2>11. a \in Z /\ b \in Z /\ e \in Z /\ f \in Z BY <2>8
  <2> HIDE DEF Z
  <2>12. PICK g \in h : g \notin Z BY <1>1, <1>6, <2>10, OneMore
  <2>13. a # b /\ a # e /\ a # f /\ a # g /\ b # e /\ b # f /\ b # g /\ e # f /\ e # g /\ f # g
    BY <2>3, <2>5, <2>6, <2>8, <2>9, <2>11, <2>12
  <2> DEFINE p == a.tag
             q == b.tag
             r == e.tag
             s == f.tag
             u == g.tag
  <2>14. p \in TagsOf(h) /\ q \in TagsOf(h) /\ r \in TagsOf(h) /\ s \in TagsOf(h) /\ u \in TagsOf(h) BY <1>3
  <2>15. p # q /\ p # r /\ p # s /\ p # u /\ q # r /\ q # s /\ q # u /\ r # s /\ r # u /\ s # u BY <2>13, <1>2
  <2> HIDE DEF p, q, r, s, u
  <2>16. \A l, N : Fills(TagsOf(h), l, 2, N) => \E t \in TagsOf(h) : 2 < l[t] BY <2>14, <2>15, FiveAreBelow
  <2> QED BY <2>16 DEF Below
<1> QED BY <1>5, <1>6

\* Every symbol of S is in the heap or below a node, and no other symbol is.
Holds(S, h, c) ==
  /\ \A s \in S : (\E x \in h : x.child = s) \/ \E n \in 0 .. Len(c) - 1 : \E b \in {0, 1} : Kid(c, n, b) = s
  /\ \A x \in h : x.child \in Symbols => x.child \in S
  /\ \A n \in 0 .. Len(c) - 1 : \A b \in {0, 1} : Kid(c, n, b) \in Symbols => Kid(c, n, b) \in S

\* A merge loses none and adds none.
LEMMA HoldsMerged ==
  ASSUME NEW h, NEW c, NEW a, NEW b, NEW i, NEW g, NEW d, Merges(h, c, a, b, i, g, d), NEW S, Holds(S, h, c)
  PROVE  Holds(S, g, d)
<1> DEFINE m == Len(c)
<1>1. /\ Heaped(h, c) /\ d = Append(c, <<a.child, b.child>>) /\ i.child = Node(m) /\ g = (h \ {a, b}) \cup {i}
  BY DEF Merges
<1>2. c \in Seq(Hanging \X Hanging) /\ m \in Nat BY <1>1 DEF Heaped, Loose, Woven
<1>3. a \in h /\ b \in h BY MergeTakes
<1>4. Len(d) = m + 1 /\ d[m + 1] = <<a.child, b.child>> /\ \A k \in 1 .. m : d[k] = c[k] BY <1>1, <1>2
<1>5. Node(m) \notin Symbols BY <1>2, NodeIsKept
<1>6. /\ \A s \in S : (\E x \in h : x.child = s) \/ \E n \in 0 .. m - 1 : \E e \in {0, 1} : Kid(c, n, e) = s
      /\ \A x \in h : x.child \in Symbols => x.child \in S
      /\ \A n \in 0 .. m - 1 : \A e \in {0, 1} : Kid(c, n, e) \in Symbols => Kid(c, n, e) \in S
  BY DEF Holds
<1> HIDE DEF m
<1>7. \A n \in 0 .. m - 1 : n \in 0 .. m /\ n + 1 \in 1 .. m BY <1>2
<1>8. \A n \in 0 .. m - 1 : \A e \in {0, 1} : Kid(d, n, e) = Kid(c, n, e) BY <1>4, <1>7 DEF Kid
<1>9. Kid(d, m, 0) = a.child /\ Kid(d, m, 1) = b.child BY <1>4 DEF Kid
<1>10. \A n \in 0 .. m : n = m \/ n \in 0 .. m - 1 BY <1>2
<1>11. m \in 0 .. m BY <1>2
<1>12. \A x : x \in g <=> (x \in h /\ x # a /\ x # b) \/ x = i BY <1>1
<1>13. ASSUME NEW s \in S PROVE (\E x \in g : x.child = s) \/ \E n \in 0 .. m : \E e \in {0, 1} : Kid(d, n, e) = s
  <2>1. ASSUME NEW x \in h, x.child = s
        PROVE  (\E z \in g : z.child = s) \/ \E n \in 0 .. m : \E e \in {0, 1} : Kid(d, n, e) = s
    <3>1. CASE x = a BY <3>1, <2>1, <1>9, <1>11
    <3>2. CASE x = b BY <3>2, <2>1, <1>9, <1>11
    <3>3. CASE x # a /\ x # b BY <3>3, <2>1, <1>12
    <3> QED BY <3>1, <3>2, <3>3
  <2>2. ASSUME NEW n \in 0 .. m - 1, NEW e \in {0, 1}, Kid(c, n, e) = s
        PROVE  \E k \in 0 .. m : \E f \in {0, 1} : Kid(d, k, f) = s
    BY <2>2, <1>7, <1>8
  <2> QED BY <2>1, <2>2, <1>6
<1>14. \A x \in g : x.child \in Symbols => x.child \in S BY <1>1, <1>5, <1>6, <1>12
<1>15. ASSUME NEW n \in 0 .. m, NEW e \in {0, 1}, Kid(d, n, e) \in Symbols PROVE Kid(d, n, e) \in S
  <2>1. CASE n \in 0 .. m - 1
    <3>1. Kid(d, n, e) = Kid(c, n, e) BY <2>1, <1>8
    <3> QED BY <3>1, <2>1, <1>6, <1>15
  <2>2. CASE n = m
    <3>1. Kid(d, n, e) = a.child \/ Kid(d, n, e) = b.child BY <2>2, <1>9
    <3> QED BY <3>1, <1>3, <1>6, <1>15
  <2> QED BY <2>1, <2>2, <1>10
<1>16. Len(d) - 1 = m BY <1>2, <1>4
<1> QED BY <1>13, <1>14, <1>15, <1>16 DEF Holds

----------------------------------------------------------------------------
(* How deep everything hangs in a tree. *)

\* By tags: a symbol as deep as its code is long, a node as its address.
Depths(t) ==
  [k \in 1 .. Span |->
     IF k <= Len(Order)
       THEN IF Order[k] \in DOMAIN Codes(t) THEN Len(Codes(t)[Order[k]]) ELSE 0
       ELSE IF k - Len(Order) - 1 \in 0 .. t.m - 1 THEN Len(Where(t)[k - Len(Order) - 1]) ELSE 0]

\* Whatever hangs at a node is one deeper than the node; only the root is at the top.
LEMMA DepthsAre ==
  ASSUME NEW t, Tree(t)
  PROVE  LET D == Depths(t) IN
           /\ Row(Span, D) /\ t.m \in Nat \ {0} /\ Len(Order) \in Nat
           /\ D[Len(Order) + t.m] = 0
           /\ \A n \in 0 .. t.m - 2 : D[Len(Order) + n + 1] >= 1
           /\ \A n \in 0 .. t.m - 1 : \A b \in {0, 1} :
                D[TagOf(Child(t, n, b))] = D[Len(Order) + n + 1] + 1 /\ D[Len(Order) + n + 1] \in Nat
           /\ \A s \in DOMAIN Codes(t) : s \in Symbols /\ D[Position(s)] = Len(Codes(t)[s])
<1> DEFINE A == Where(t)
           m == t.m
           l == Len(Order)
           K == Codes(t)
           D == Depths(t)
           C(n, b) == Child(t, n, b)
<1>1. Addresses(t, A) BY WhereIs
<1>2. /\ m \in Nat \ {0}
      /\ \A n \in 0 .. m - 1 : \A b \in {0, 1} : C(n, b) \in Symbols \/ \E v \in 0 .. m - 2 : v < n /\ C(n, b) = Node(v)
  BY ParentIs DEF Tree
<1>3. l \in Nat /\ m + 1 <= l
  <2>1. m + 1 <= Cardinality(Symbols) BY TreeIsSmall
  <2>2. Cardinality(Symbols) \in Nat /\ Cardinality(Symbols) <= l /\ l \in Nat BY SymbolsAreFew
  <2> QED BY <2>1, <2>2, <1>2
<1>4. /\ \A n \in 0 .. m - 1 : A[n] \in Seq({0, 1}) /\ Len(A[n]) \in Nat
      /\ \A n, k \in 0 .. m - 1 : A[n] = A[k] => n = k
      /\ A[m - 1] = <<>>
      /\ \A n, v \in 0 .. m - 1 : \A b \in {0, 1} : C(n, b) = Node(v) => A[v] = Append(A[n], b)
  BY <1>1, AddressesAre DEF Addresses
<1>5. /\ \A n \in 0 .. m - 1 : \A b \in {0, 1} : C(n, b) \in Symbols => C(n, b) \in DOMAIN K /\ K[C(n, b)] = Append(A[n], b)
      /\ \A s \in DOMAIN K : s \in Symbols /\ \E n \in 0 .. m - 1 : \E b \in {0, 1} : C(n, b) = s /\ K[s] = Append(A[n], b)
  BY <1>1, CodesAre
<1>6. \A n \in 0 .. m - 1 : \A b \in {0, 1} : Len(Append(A[n], b)) = Len(A[n]) + 1 BY <1>4
<1>7. D = [k \in 1 .. Span |->
            IF k <= l
              THEN IF Order[k] \in DOMAIN K THEN Len(K[Order[k]]) ELSE 0
              ELSE IF k - l - 1 \in 0 .. m - 1 THEN Len(A[k - l - 1]) ELSE 0]
  BY DEF Depths
<1>8. Span = 2 * l BY DEF Span
<1>9. \A s \in Symbols : Position(s) \in 1 .. l /\ Order[Position(s)] = s BY PositionsAre
<1> HIDE DEF A, m, l, K, D, C
<1>10. ASSUME NEW s \in DOMAIN K PROVE s \in Symbols /\ D[Position(s)] = Len(K[s]) /\ Len(K[s]) \in Nat
  <2>1. PICK n \in 0 .. m - 1 : \E b \in {0, 1} : C(n, b) = s /\ K[s] = Append(A[n], b) BY <1>5
  <2>2. PICK b \in {0, 1} : C(n, b) = s /\ K[s] = Append(A[n], b) BY <2>1
  <2>3. Len(K[s]) \in Nat BY <2>2, <1>4, <1>6
  <2>4. s \in Symbols BY <1>5
  <2>5. Position(s) \in 1 .. Span /\ Position(s) <= l /\ Order[Position(s)] = s BY <2>4, <1>3, <1>8, <1>9
  <2> QED BY <2>3, <2>4, <2>5, <1>7
<1>11. ASSUME NEW n \in 0 .. m - 1 PROVE D[l + n + 1] = Len(A[n]) /\ Len(A[n]) \in Nat
  <2> DEFINE k == l + n + 1
  <2>1. k \in 1 .. Span /\ ~(k <= l) /\ k - l - 1 = n BY <1>2, <1>3, <1>8
  <2>2. Len(A[n]) \in Nat BY <1>4
  <2> HIDE DEF k
  <2>3. D[k] = Len(A[n]) BY <2>1, <1>7
  <2> QED BY <2>2, <2>3 DEF k
<1>12. Row(Span, D)
  <2> SUFFICES ASSUME NEW k \in 1 .. Span PROVE D[k] \in Nat BY <1>7 DEF Row
  <2>1. CASE k <= l /\ Order[k] \in DOMAIN K
    <3>1. D[k] = Len(K[Order[k]]) BY <2>1, <1>7
    <3> QED BY <3>1, <2>1, <1>10
  <2>2. CASE k <= l /\ Order[k] \notin DOMAIN K BY <2>2, <1>7
  <2>3. CASE ~(k <= l) /\ k - l - 1 \in 0 .. m - 1
    <3>1. D[k] = Len(A[k - l - 1]) BY <2>3, <1>7
    <3> QED BY <3>1, <2>3, <1>4
  <2>4. CASE ~(k <= l) /\ k - l - 1 \notin 0 .. m - 1 BY <2>4, <1>7
  <2> QED BY <2>1, <2>2, <2>3, <2>4
<1>13. D[l + m] = 0
  <2> DEFINE n == m - 1
  <2>1. n \in 0 .. m - 1 /\ l + n + 1 = l + m BY <1>2, <1>3
  <2>2. Len(A[n]) = 0 BY <1>4
  <2> HIDE DEF n
  <2> QED BY <2>1, <2>2, <1>11
<1>14. ASSUME NEW n \in 0 .. m - 2 PROVE D[l + n + 1] >= 1
  <2> DEFINE z == m - 1
  <2>1. n \in 0 .. m - 1 /\ z \in 0 .. m - 1 /\ n # z BY <1>2
  <2>2. A[z] = <<>> BY <1>4
  <2> HIDE DEF z
  <2>3. A[n] # <<>> /\ A[n] \in Seq({0, 1}) BY <2>1, <2>2, <1>4
  <2>4. Len(A[n]) # 0 BY <2>3, EmptySeq
  <2> QED BY <2>1, <2>4, <1>11
<1>15. ASSUME NEW n \in 0 .. m - 1, NEW b \in {0, 1}
       PROVE  D[TagOf(C(n, b))] = D[l + n + 1] + 1 /\ D[l + n + 1] \in Nat
  <2>1. D[l + n + 1] = Len(A[n]) /\ Len(A[n]) \in Nat BY <1>11
  <2>2. CASE C(n, b) \in Symbols
    <3> DEFINE s == C(n, b)
    <3>1. s \in DOMAIN K /\ K[s] = Append(A[n], b) /\ s \in Symbols BY <2>2, <1>5
    <3> HIDE DEF s
    <3>2. TagOf(s) = Position(s) /\ D[Position(s)] = Len(K[s]) BY <3>1, <1>10 DEF TagOf
    <3>3. D[TagOf(s)] = Len(A[n]) + 1 BY <3>1, <3>2, <1>6
    <3> QED BY <3>3, <2>1 DEF s
  <2>3. ASSUME NEW v \in 0 .. m - 2, C(n, b) = Node(v) PROVE D[TagOf(C(n, b))] = D[l + n + 1] + 1
    <3>1. v \in Nat /\ v \in 0 .. m - 1 BY <1>2
    <3>2. Node(v) \notin Symbols BY <3>1, NodeIsKept
    <3>3. Node(v).value = v BY DEF Node
    <3>4. TagOf(Node(v)) = l + v + 1 BY <3>2, <3>3 DEF TagOf, l
    <3>5. A[v] = Append(A[n], b) BY <3>1, <2>3, <1>4
    <3>6. D[l + v + 1] = Len(A[n]) + 1 BY <3>1, <3>5, <1>6, <1>11
    <3> QED BY <3>4, <3>6, <2>1, <2>3
  <2> QED BY <2>1, <2>2, <2>3, <1>2
<1> QED BY <1>2, <1>3, <1>10, <1>12, <1>13, <1>14, <1>15 DEF A, m, l, K, D, C

\* The level of the last items, and the shortest code.
Level(d) == IF d = 2 THEN 2 ELSE 0

\* In t the items of the heap h hang at lo and the nodes c below them, and no code is shorter than d.
Hung(h, c, t, lo, d) ==
  /\ Tree(t) /\ Descends(c, Depths(t))
  /\ \A x \in h : Depths(t)[x.tag] = lo
  /\ \A s \in DOMAIN Codes(t) : Len(Codes(t)[s]) >= d
  /\ \A s \in Symbols : s \in DOMAIN Codes(t) <=>
       (\E x \in h : x.child = s) \/ \E n \in 0 .. Len(c) - 1 : \E b \in {0, 1} : Kid(c, n, b) = s

\* The symbols with a code are those in a slot.
LEMMA SlotsHave ==
  ASSUME NEW t, Tree(t)
  PROVE  \A s \in Symbols : s \in DOMAIN Codes(t) <=> \E n \in 0 .. t.m - 1 : \E b \in {0, 1} : Child(t, n, b) = s
<1>1. Addresses(t, Where(t)) BY WhereIs
<1>2. /\ \A n \in 0 .. t.m - 1 : \A b \in {0, 1} : Child(t, n, b) \in Symbols => Child(t, n, b) \in DOMAIN Codes(t)
      /\ \A s \in DOMAIN Codes(t) : \E n \in 0 .. t.m - 1 : \E b \in {0, 1} : Child(t, n, b) = s
  BY <1>1, CodesAre
<1> QED BY <1>2

\* One item left: it is the root.
LEMMA LaidOne ==
  ASSUME NEW h, NEW c, Heaped(h, c), Cardinality(h) = 1
  PROVE  Hung(h, c, LayOut(c), 0, 1)
<1> DEFINE m == Len(c)
           l == Len(Order)
           t == LayOut(c)
           D == Depths(t)
<1>1. IsFiniteSet(h) /\ Loose(c, {x.child : x \in h}) /\ Cardinality(h) + m \in 2 .. l BY DEF Heaped
<1>2. /\ \A x \in h : x.tag = TagOf(x.child)
      /\ m \in Nat /\ l \in Nat
  BY HeapIs
<1>3. m # 0 BY <1>1, <1>2
<1>4. PICK x : h = {x} BY <1>1, FS_Singleton
<1>5. Loose(c, {x.child})
  <2>1. {y.child : y \in h} = {x.child} BY <1>4
  <2> QED BY <2>1, <1>1
<1>6. Proper(c) BY <1>3, <1>5, LooseLast
<1>7. Tree(t) /\ t.m = m /\ \A n \in 0 .. m - 1 : \A b \in {0, 1} : Child(t, n, b) = Kid(c, n, b)
  BY <1>6, LaidOut
<1>8. \A n \in 0 .. t.m - 1 : \A b \in {0, 1} : \A v \in Nat : Child(t, n, b) = Node(v) => v < n
  BY <1>7, ParentIs
<1>9. \A v \in 0 .. m - 1 : Node(v) \in {x.child} \/ \E n \in 0 .. m - 1 : \E b \in {0, 1} : Kid(c, n, b) = Node(v)
  BY <1>5 DEF Loose
<1>10. /\ Row(Span, D) /\ D[l + t.m] = 0
       /\ \A n \in 0 .. t.m - 1 : \A b \in {0, 1} :
            D[TagOf(Child(t, n, b))] = D[l + n + 1] + 1 /\ D[l + n + 1] \in Nat
       /\ \A s \in DOMAIN Codes(t) : s \in Symbols /\ D[Position(s)] = Len(Codes(t)[s])
  BY <1>7, DepthsAre
<1>11. \A s \in Symbols : s \in DOMAIN Codes(t) <=> \E n \in 0 .. t.m - 1 : \E b \in {0, 1} : Child(t, n, b) = s
  BY <1>7, SlotsHave
<1> HIDE DEF m, l, t, D
<1> DEFINE r == m - 1
<1>12. r \in 0 .. m - 1 /\ r \in Nat /\ l + r + 1 = l + m BY <1>2, <1>3
<1> HIDE DEF r
<1>13. x.child = Node(r)
  <2>1. \A n \in 0 .. m - 1 : \A b \in {0, 1} : Kid(c, n, b) # Node(r)
    <3> SUFFICES ASSUME NEW n \in 0 .. m - 1, NEW b \in {0, 1}, Kid(c, n, b) = Node(r) PROVE FALSE OBVIOUS
    <3>1. Child(t, n, b) = Node(r) BY <1>7
    <3>2. r < n BY <3>1, <1>7, <1>8, <1>12
    <3> QED BY <3>2, <1>2 DEF r
  <2> QED BY <2>1, <1>9, <1>12
<1>14. Node(r) \notin Symbols BY <1>12, NodeIsKept
<1>15. x.tag = l + m
  <2>1. Node(r).value = r BY DEF Node
  <2>2. TagOf(Node(r)) = l + r + 1 BY <2>1, <1>14 DEF TagOf, l
  <2> QED BY <2>2, <1>2, <1>4, <1>12, <1>13
<1>16. \A y \in h : D[y.tag] = 0 BY <1>4, <1>7, <1>10, <1>15
<1>17. \A n \in 0 .. m - 1 : \A b \in {0, 1} : D[TagOf(Kid(c, n, b))] = D[l + n + 1] + 1 BY <1>7, <1>10
<1>18. Descends(c, D) BY <1>10, <1>17 DEF Descends, m, l
<1>19. \A s \in Symbols : s \in DOMAIN Codes(t) <=>
         (\E y \in h : y.child = s) \/ \E n \in 0 .. m - 1 : \E b \in {0, 1} : Kid(c, n, b) = s
  <2>1. \A s \in Symbols : ~\E y \in h : y.child = s BY <1>4, <1>13, <1>14
  <2> QED BY <2>1, <1>7, <1>11
<1>20. ASSUME NEW s \in DOMAIN Codes(t) PROVE Len(Codes(t)[s]) >= 1
  <2>1. s \in Symbols /\ D[Position(s)] = Len(Codes(t)[s]) BY <1>10
  <2>2. PICK n \in 0 .. t.m - 1 : \E b \in {0, 1} : Child(t, n, b) = s BY <2>1, <1>11
  <2>3. D[TagOf(s)] = D[l + n + 1] + 1 /\ D[l + n + 1] \in Nat BY <2>2, <1>10
  <2>4. TagOf(s) = Position(s) BY <2>1 DEF TagOf
  <2> QED BY <2>1, <2>3, <2>4
<1> QED BY <1>7, <1>16, <1>18, <1>19, <1>20 DEF Hung, m, t, D

\* Four items left, under two nodes, and those under the root.
LEMMA LaidFour ==
  ASSUME NEW h, NEW c, Heaped(h, c), NEW p, NEW q, NEW r, NEW s, {x.child : x \in h} = {p, q, r, s},
         NEW e, e = c \o <<<<p, q>>, <<r, s>>, <<Node(Len(c)), Node(Len(c) + 1)>>>>, Proper(e)
  PROVE  Hung(h, c, LayOut(e), 2, 2)
<1> DEFINE m == Len(c)
           l == Len(Order)
           t == LayOut(e)
           D == Depths(t)
           g == <<<<p, q>>, <<r, s>>, <<Node(m), Node(m + 1)>>>>
<1>1. Loose(c, {x.child : x \in h}) BY DEF Heaped
<1>2. /\ \A x \in h : x.tag = TagOf(x.child)
      /\ m \in Nat /\ l \in Nat
  BY HeapIs
<1>3. c \in Seq(Hanging \X Hanging) BY <1>1 DEF Loose
<1>4. e = c \o g /\ Len(g) = 3 /\ g[1] = <<p, q>> /\ g[2] = <<r, s>> /\ g[3] = <<Node(m), Node(m + 1)>> OBVIOUS
<1>5. /\ Len(e) = m + 3
      /\ \A k \in 1 .. m : e[k] = c[k]
      /\ e[m + 1] = <<p, q>> /\ e[m + 2] = <<r, s>> /\ e[m + 3] = <<Node(m), Node(m + 1)>>
  BY <1>2, <1>3
<1>6. Tree(t) /\ t.m = Len(e) /\ \A n \in 0 .. Len(e) - 1 : \A b \in {0, 1} : Child(t, n, b) = Kid(e, n, b)
  BY LaidOut
<1>7. /\ Row(Span, D) /\ D[l + t.m] = 0
      /\ \A n \in 0 .. t.m - 2 : D[l + n + 1] >= 1
      /\ \A n \in 0 .. t.m - 1 : \A b \in {0, 1} :
           D[TagOf(Child(t, n, b))] = D[l + n + 1] + 1 /\ D[l + n + 1] \in Nat
      /\ \A z \in DOMAIN Codes(t) : z \in Symbols /\ D[Position(z)] = Len(Codes(t)[z])
  BY <1>6, DepthsAre
<1>8. \A z \in Symbols : z \in DOMAIN Codes(t) <=> \E n \in 0 .. t.m - 1 : \E b \in {0, 1} : Child(t, n, b) = z
  BY <1>6, SlotsHave
<1>9. \A y \in {p, q, r, s} : \E x \in h : x.child = y
  <2> SUFFICES ASSUME NEW y \in {p, q, r, s} PROVE \E x \in h : x.child = y OBVIOUS
  <2>1. y \in {x.child : x \in h} OBVIOUS
  <2> QED BY <2>1
<1>10. \A x \in h : x.child \in {p, q, r, s} OBVIOUS
<1> HIDE DEF m, l, t, D, g
<1>11. /\ \A n \in 0 .. m - 1 : \A b \in {0, 1} : Kid(e, n, b) = Kid(c, n, b)
       /\ Kid(e, m, 0) = p /\ Kid(e, m, 1) = q
       /\ Kid(e, m + 1, 0) = r /\ Kid(e, m + 1, 1) = s
       /\ Kid(e, m + 2, 0) = Node(m) /\ Kid(e, m + 2, 1) = Node(m + 1)
  <2>1. \A n \in 0 .. m - 1 : n + 1 \in 1 .. m BY <1>2
  <2>2. m + 1 + 1 = m + 2 /\ m + 2 + 1 = m + 3 BY <1>2
  <2>3. \A n \in 0 .. m - 1 : \A b \in {0, 1} : Kid(e, n, b) = Kid(c, n, b) BY <2>1, <1>5 DEF Kid
  <2> DEFINE u == <<p, q>>
             v == <<r, s>>
  <2>a. e[m + 1] = u /\ u[1] = p /\ u[2] = q BY <1>5
  <2>b. e[m + 2] = v /\ v[1] = r /\ v[2] = s BY <1>5
  <2> HIDE DEF u, v
  <2>4. e[m + 1][1] = p /\ e[m + 1][2] = q BY <2>a
  <2>5. e[m + 2][1] = r /\ e[m + 2][2] = s BY <2>b
  <2>6. e[m + 3][1] = Node(m) /\ e[m + 3][2] = Node(m + 1) BY <1>5
  <2>7. \A n : Kid(e, n, 0) = e[n + 1][1] /\ Kid(e, n, 1) = e[n + 1][2] BY DEF Kid
  <2>8. Kid(e, m, 0) = p /\ Kid(e, m, 1) = q BY <2>4, <2>7
  <2>9. Kid(e, m + 1, 0) = r /\ Kid(e, m + 1, 1) = s BY <2>2, <2>5, <2>7
  <2>10. Kid(e, m + 2, 0) = Node(m) /\ Kid(e, m + 2, 1) = Node(m + 1) BY <2>2, <2>6, <2>7
  <2> QED BY <2>3, <2>8, <2>9, <2>10
<1>12. t.m = m + 3 /\ Len(e) - 1 = m + 2 /\ t.m - 1 = m + 2 /\ t.m - 2 = m + 1 BY <1>2, <1>5, <1>6
<1>13. \A n \in 0 .. m + 2 : \A b \in {0, 1} :
         Child(t, n, b) = Kid(e, n, b) /\ D[TagOf(Kid(e, n, b))] = D[l + n + 1] + 1 /\ D[l + n + 1] \in Nat
  <2> SUFFICES ASSUME NEW n \in 0 .. m + 2, NEW b \in {0, 1}
               PROVE  /\ Child(t, n, b) = Kid(e, n, b)
                      /\ D[TagOf(Kid(e, n, b))] = D[l + n + 1] + 1 /\ D[l + n + 1] \in Nat
    OBVIOUS
  <2>1. n \in 0 .. Len(e) - 1 /\ n \in 0 .. t.m - 1 BY <1>12
  <2>2. Child(t, n, b) = Kid(e, n, b) BY <2>1, <1>6
  <2>3. D[TagOf(Child(t, n, b))] = D[l + n + 1] + 1 /\ D[l + n + 1] \in Nat BY <2>1, <1>7
  <2> QED BY <2>2, <2>3
<1> DEFINE n1 == m + 1
           n2 == m + 2
<1>14. /\ m \in 0 .. n2 /\ n1 \in 0 .. n2 /\ n2 \in 0 .. n2 /\ n1 \in Nat /\ l + n2 + 1 = l + t.m
       /\ \A n \in 0 .. n2 : n \in 0 .. m - 1 \/ n = m \/ n = n1 \/ n = n2
       /\ \A n \in 0 .. m - 1 : n \in 0 .. n2
  BY <1>2, <1>12
<1>15. /\ Kid(e, n1, 0) = r /\ Kid(e, n1, 1) = s
       /\ Kid(e, n2, 0) = Node(m) /\ Kid(e, n2, 1) = Node(n1)
       /\ \A n \in 0 .. n2 : \A b \in {0, 1} :
            Child(t, n, b) = Kid(e, n, b) /\ D[TagOf(Kid(e, n, b))] = D[l + n + 1] + 1 /\ D[l + n + 1] \in Nat
  BY <1>11, <1>13
<1> HIDE DEF n1, n2
<1>16. Node(m) \notin Symbols /\ Node(n1) \notin Symbols BY <1>2, <1>14, NodeIsKept
<1>17. TagOf(Node(m)) = l + m + 1 /\ TagOf(Node(n1)) = l + n1 + 1
  <2>1. Node(m).value = m /\ Node(n1).value = n1 BY DEF Node
  <2> QED BY <2>1, <1>16 DEF TagOf, l
<1>18. D[l + m + 1] = 1 /\ D[l + n1 + 1] = 1
  <2>1. D[l + n2 + 1] = 0 BY <1>7, <1>14
  <2>2. D[TagOf(Node(m))] = D[l + n2 + 1] + 1 BY <1>14, <1>15
  <2>3. D[TagOf(Node(n1))] = D[l + n2 + 1] + 1 BY <1>14, <1>15
  <2> QED BY <2>1, <2>2, <2>3, <1>17
<1>19. D[TagOf(p)] = 2 /\ D[TagOf(q)] = 2 /\ D[TagOf(r)] = 2 /\ D[TagOf(s)] = 2
  <2>1. D[TagOf(p)] = D[l + m + 1] + 1 /\ D[TagOf(q)] = D[l + m + 1] + 1 BY <1>11, <1>14, <1>15
  <2>2. D[TagOf(r)] = D[l + n1 + 1] + 1 /\ D[TagOf(s)] = D[l + n1 + 1] + 1 BY <1>14, <1>15
  <2> QED BY <2>1, <2>2, <1>18
<1>20. \A x \in h : D[x.tag] = 2
  <2> SUFFICES ASSUME NEW x \in h PROVE D[x.tag] = 2 OBVIOUS
  <2>1. x.child \in {p, q, r, s} /\ x.tag = TagOf(x.child) BY <1>2, <1>10
  <2> QED BY <2>1, <1>19
<1>21. Descends(c, D)
  <2>1. ASSUME NEW n \in 0 .. m - 1, NEW b \in {0, 1} PROVE D[TagOf(Kid(c, n, b))] = D[l + n + 1] + 1
    <3>1. n \in 0 .. n2 /\ Kid(e, n, b) = Kid(c, n, b) BY <1>11, <1>14
    <3>2. D[TagOf(Kid(e, n, b))] = D[l + n + 1] + 1 BY <3>1, <1>15
    <3> QED BY <3>1, <3>2
  <2> QED BY <2>1, <1>7 DEF Descends, m, l
<1>22. ASSUME NEW z \in Symbols
       PROVE  z \in DOMAIN Codes(t) <=>
         (\E x \in h : x.child = z) \/ \E n \in 0 .. m - 1 : \E b \in {0, 1} : Kid(c, n, b) = z
  <2>1. z \in DOMAIN Codes(t) <=> \E n \in 0 .. n2 : \E b \in {0, 1} : Kid(e, n, b) = z
    <3>1. z \in DOMAIN Codes(t) <=> \E n \in 0 .. n2 : \E b \in {0, 1} : Child(t, n, b) = z BY <1>8, <1>12 DEF n2
    <3> QED BY <3>1, <1>15
  <2>2. ASSUME NEW n \in 0 .. n2, NEW b \in {0, 1}, Kid(e, n, b) = z
        PROVE  (\E x \in h : x.child = z) \/ \E k \in 0 .. m - 1 : \E d \in {0, 1} : Kid(c, k, d) = z
    <3>1. CASE n \in 0 .. m - 1 BY <3>1, <2>2, <1>11
    <3>2. CASE n = m
      <4>1. z \in {p, q, r, s} BY <3>2, <2>2, <1>11
      <4> QED BY <4>1, <1>9
    <3>3. CASE n = n1
      <4>1. z \in {p, q, r, s} BY <3>3, <2>2, <1>15
      <4> QED BY <4>1, <1>9
    <3>4. CASE n = n2
      <4>1. z = Node(m) \/ z = Node(n1) BY <3>4, <2>2, <1>15
      <4> QED BY <4>1, <1>16
    <3> QED BY <3>1, <3>2, <3>3, <3>4, <1>14
  <2>3. ASSUME NEW x \in h, x.child = z PROVE \E n \in 0 .. n2 : \E b \in {0, 1} : Kid(e, n, b) = z
    <3>1. z \in {p, q, r, s} BY <2>3, <1>10
    <3> QED BY <3>1, <1>11, <1>14, <1>15
  <2>4. ASSUME NEW n \in 0 .. m - 1, NEW b \in {0, 1}, Kid(c, n, b) = z
        PROVE  \E k \in 0 .. n2 : \E d \in {0, 1} : Kid(e, k, d) = z
    BY <2>4, <1>11, <1>14
  <2> QED BY <2>1, <2>2, <2>3, <2>4
<1>23. ASSUME NEW z \in DOMAIN Codes(t) PROVE Len(Codes(t)[z]) >= 2
  <2>1. z \in Symbols /\ D[Position(z)] = Len(Codes(t)[z]) BY <1>7
  <2>2. TagOf(z) = Position(z) BY <2>1 DEF TagOf
  <2>3. CASE \E x \in h : x.child = z
    <3>1. D[TagOf(z)] = 2 BY <2>3, <1>2, <1>20
    <3> QED BY <3>1, <2>1, <2>2
  <2>4. CASE \E n \in 0 .. m - 1 : \E b \in {0, 1} : Kid(c, n, b) = z
    <3>1. PICK n \in 0 .. m - 1 : \E b \in {0, 1} : Kid(c, n, b) = z BY <2>4
    <3>2. D[TagOf(z)] = D[l + n + 1] + 1 /\ D[l + n + 1] \in Nat
      <4>1. PICK b \in {0, 1} : Kid(c, n, b) = z BY <3>1
      <4>2. n \in 0 .. n2 /\ Kid(e, n, b) = z BY <4>1, <1>11, <1>14
      <4> QED BY <4>2, <1>15
    <3>3. n \in 0 .. t.m - 2 BY <1>2, <1>12
    <3>4. D[l + n + 1] >= 1 BY <3>3, <1>7
    <3> QED BY <3>2, <3>4, <2>1, <2>2
  <2> QED BY <2>1, <2>3, <2>4, <1>22
<1> QED BY <1>6, <1>20, <1>21, <1>22, <1>23 DEF Hung, m, t, D

\* Lay hangs the items of the heap at their level.
LEMMA LaidDeep ==
  ASSUME minDepth \in {1, 2}, Heaped(heap, children), Cardinality(heap) = Stop
  PROVE  Hung(heap, children, LayOut(children \o (IF minDepth = 2 THEN Joined ELSE <<>>)), Level(minDepth), minDepth)
<1> DEFINE h == heap
           c == children
<1>1. Heaped(h, c) OBVIOUS
<1>2. CASE minDepth = 2
  <2>1. Cardinality(heap) = 4 BY <1>2 DEF Stop
  <2>2. PICK w, x, y, z :
          /\ heap = {w, x, y, z}
          /\ Joined = <<<<w.child, x.child>>, <<y.child, z.child>>,
                         <<Node(Len(children)), Node(Len(children) + 1)>>>>
    BY <2>1, JoinedAre
  <2> DEFINE p == w.child
             q == x.child
             r == y.child
             s == z.child
             e == c \o <<<<p, q>>, <<r, s>>, <<Node(Len(c)), Node(Len(c) + 1)>>>>
  <2>3. {i.child : i \in h} = {p, q, r, s} BY <2>2
  <2>4. children \o (IF minDepth = 2 THEN Joined ELSE <<>>) = e BY <2>2, <1>2
  <2>5. Proper(e) BY <2>4, LaidIs
  <2>6. e = c \o <<<<p, q>>, <<r, s>>, <<Node(Len(c)), Node(Len(c) + 1)>>>> OBVIOUS
  <2> HIDE DEF p, q, r, s, e, h, c
  <2>7. Hung(h, c, LayOut(e), 2, 2) BY <1>1, <2>3, <2>5, <2>6, LaidFour
  <2>8. Level(minDepth) = 2 BY <1>2 DEF Level
  <2> QED BY <2>4, <2>7, <2>8, <1>2 DEF h, c
<1>3. CASE minDepth # 2
  <2>1. Cardinality(h) = 1 BY <1>3 DEF Stop
  <2>2. children \o <<>> = children
    <3>1. children \in Seq(Hanging \X Hanging) BY DEF Heaped, Loose
    <3> DEFINE S == Hanging \X Hanging
    <3> HIDE DEF S
    <3>2. children \in Seq(S) BY <3>1 DEF S
    <3> QED BY <3>2
  <2> HIDE DEF h, c
  <2>3. Hung(h, c, LayOut(c), 0, 1) BY <2>1, <1>1, LaidOne
  <2>4. Level(minDepth) = 0 /\ minDepth = 1 BY <1>3 DEF Level
  <2> QED BY <2>2, <2>3, <2>4, <1>3 DEF h, c
<1> QED BY <1>2, <1>3

----------------------------------------------------------------------------
(* What a tree costs, by symbol and by tag. *)

\* No full tree is cheaper than one in which the items of the heap hang at the least level.
LEMMA DepthsAreCheapest ==
  ASSUME NEW h, NEW c, Heaped(h, c), NEW t, NEW lo, NEW d, Hung(h, c, t, lo, d),
         NEW A \in SUBSET (1 .. Span), NEW w, Row(Span, w), Cheapest(A, w, h, c, lo),
         NEW l, NEW N, Fills(A, l, lo, N)
  PROVE  Price(A, w, Depths(t)) <= Price(A, w, l)
<1> DEFINE H == TagsOf(h)
           x == Weighing(h)
           D == Depths(t)
<1>1. H \in SUBSET (1 .. Span) /\ Row(Span, x) BY HeapIs
<1>2. Descends(c, D) /\ Row(Span, D) /\ \A y \in h : D[y.tag] = lo BY DEF Hung, Descends
<1>3. \A k \in H : D[k] = lo BY <1>2 DEF TagsOf
<1>4. PICK K \in Nat :
        /\ \A E : Descends(c, E) => Price(A, w, E) = Price(H, x, E) + K
        /\ \A z, M : Fills(A, z, lo, M) => \E m : Fills(H, m, lo, M) /\ Price(H, x, m) + K <= Price(A, w, z)
  BY Zenon DEF Cheapest
<1>5. PICK m : Fills(H, m, lo, N) /\ Price(H, x, m) + K <= Price(A, w, l) BY <1>4
<1>6. Price(A, w, D) = Price(H, x, D) + K BY <1>2, <1>4
<1>7. Row(Span, m) /\ lo \in Nat /\ (\A k \in H : lo <= m[k]) /\ Row(Span, l) BY <1>5 DEF Fills
<1> HIDE DEF H, x, D
<1>8. Price(H, x, D) <= Price(H, x, m)
  <2> DEFINE p == Weights(H, x, D)
             q == Weights(H, x, m)
  <2>1. Row(Span, p) /\ Row(Span, q) /\ Span \in Nat BY <1>1, <1>2, <1>7, RowsAre
  <2>2. ASSUME NEW k \in 1 .. Span PROVE p[k] <= q[k]
    <3>1. CASE k \in H
      <4> DEFINE a == D[k]
                 b == m[k]
                 e == x[k]
      <4>1. p[k] = e * a /\ q[k] = e * b BY <3>1 DEF Weights
      <4>2. a = lo /\ lo <= b /\ a \in Nat /\ b \in Nat /\ e \in Nat BY <3>1, <1>1, <1>2, <1>3, <1>7 DEF Row
      <4> HIDE DEF a, b, e, p, q
      <4>3. a * e <= b * e BY <4>2, TimesMonotone
      <4>4. a * e = e * a /\ b * e = e * b BY <4>2, Distribute
      <4> QED BY <4>1, <4>3, <4>4
    <3>2. CASE k \notin H
      <4>1. p[k] = 0 /\ q[k] = 0 BY <3>2 DEF Weights
      <4> QED BY <4>1
    <3> QED BY <3>1, <3>2
  <2> HIDE DEF p, q
  <2>3. Total(p) <= Total(q) BY <2>1, <2>2, TotalRises
  <2> QED BY <2>3 DEF p, q, Price
<1>9. Price(H, x, D) \in Nat /\ Price(H, x, m) \in Nat /\ Price(A, w, l) \in Nat BY <1>1, <1>2, <1>7, RowsAre
<1>10. Price(A, w, D) <= Price(A, w, l) BY <1>5, <1>6, <1>8, <1>9
<1> QED BY <1>10 DEF D

\* The symbols of a set by their positions.
LEMMA AlphabetIs ==
  ASSUME NEW S, S \subseteq Symbols
  PROVE  LET u == Alphabet(S)
             n == Cardinality(S)
         IN /\ n \in Nat /\ n <= Len(Order) /\ DOMAIN u = 1 .. n /\ Len(u) = n
            /\ \A k \in 1 .. n : u[k] \in S
            /\ \A s \in S : \E k \in 1 .. n : u[k] = s
            /\ \A k, h \in 1 .. n : u[k] = u[h] => k = h
<1> DEFINE R == {p \in S \X S : Before(p[1], p[2])}
           n == Cardinality(S)
           u == Sorted(S, R)
<1>1. IsFiniteSet(S) /\ n <= Len(Order)
  <2>1. /\ IsFiniteSet(Symbols) /\ Cardinality(Symbols) \in Nat
        /\ Cardinality(Symbols) <= Len(Order) /\ Len(Order) \in Nat
    BY SymbolsAreFew
  <2>2. IsFiniteSet(S) /\ n <= Cardinality(Symbols) BY <2>1, FS_Subset
  <2>3. n \in Nat BY <2>2, FS_CardinalityType
  <2> QED BY <2>1, <2>2, <2>3
<1>2. Alphabet(S) = u BY DEF Alphabet
<1>3. \A s \in S : Position(s) \in Nat /\ Order[Position(s)] = s BY PositionsAre, SymbolsAreFew
<1>4. \A s, r \in S : <<s, r>> \in R <=> Position(s) < Position(r) BY DEF Before
<1> HIDE DEF R
<1>5. StrictOrder(S, R)
  <2>1. \A x \in S : <<x, x>> \notin R BY <1>3, <1>4
  <2>2. ASSUME NEW x \in S, NEW y \in S, x # y PROVE <<x, y>> \in R \/ <<y, x>> \in R
    <3>1. Position(x) # Position(y) BY <1>3, <2>2
    <3>2. Position(x) \in Nat /\ Position(y) \in Nat BY <1>3
    <3> QED BY <3>1, <3>2, <1>4
  <2>3. ASSUME NEW x \in S, NEW y \in S, NEW w \in S, <<x, y>> \in R, <<y, w>> \in R PROVE <<x, w>> \in R
    <3>1. Position(x) \in Nat /\ Position(y) \in Nat /\ Position(w) \in Nat BY <1>3
    <3> QED BY <3>1, <1>4, <2>3
  <2> QED BY <2>1, <2>2, <2>3 DEF StrictOrder
<1>6. n \in Nat BY <1>1, FS_CardinalityType
<1>7. /\ Len(u) = n /\ DOMAIN u = 1 .. n
      /\ \A k \in 1 .. n : u[k] \in S /\ Place(S, u[k], R) = k - 1
      /\ \A x \in S : Place(S, x, R) + 1 \in 1 .. n /\ u[Place(S, x, R) + 1] = x
  BY <1>1, <1>5, SortedIs, Zenon
<1> HIDE DEF u, n
<1>8. \A k, h \in 1 .. n : u[k] = u[h] => k = h
  <2> SUFFICES ASSUME NEW k \in 1 .. n, NEW h \in 1 .. n, u[k] = u[h] PROVE k = h OBVIOUS
  <2>1. k - 1 = h - 1 BY <1>7
  <2> QED BY <2>1
<1> QED BY <1>1, <1>2, <1>6, <1>7, <1>8 DEF n

\* The first heap of a build.
Items(f) == {[weight |-> f[s], tag |-> Position(s), child |-> s] : s \in DOMAIN f}

\* Positions as tags.
Tags(S) == [k \in 1 .. Cardinality(S) |-> Position(Alphabet(S)[k])]

\* Frequencies a build goes on with.
Frequent(f) ==
  DOMAIN f \subseteq Symbols /\ (\A s \in DOMAIN f : f[s] \in Nat) /\ Cardinality(DOMAIN f) >= 2

\* By tags it weighs what the frequencies say.
LEMMA ItemsAre ==
  ASSUME NEW f, Frequent(f)
  PROVE  LET n == Cardinality(DOMAIN f)
             u == Tags(DOMAIN f)
             A == TagsOf(Items(f))
             w == Weighing(Items(f))
         IN /\ Heaped(Items(f), <<>>) /\ n \in Nat /\ A \in SUBSET (1 .. Span) /\ Row(Span, w)
            /\ u \in [1 .. n -> 1 .. Span]
            /\ \A k, h \in 1 .. n : u[k] = u[h] => k = h
            /\ \A k \in 1 .. n : u[k] \in A /\ w[u[k]] = f[Alphabet(DOMAIN f)[k]]
            /\ \A t \in A : \E k \in 1 .. n : u[k] = t
<1> DEFINE S == DOMAIN f
           n == Cardinality(S)
           v == Alphabet(S)
           u == Tags(S)
           h == Items(f)
           A == TagsOf(h)
           w == Weighing(h)
           I(s) == [weight |-> f[s], tag |-> Position(s), child |-> s]
<1>1. S \subseteq Symbols /\ (\A s \in S : f[s] \in Nat) /\ n >= 2 BY DEF Frequent
<1>2. h = {I(s) : s \in S} BY DEF Items
<1>3. Heaped(h, <<>>)
  <2>1. h = {[weight |-> f[s], tag |-> Position(s), child |-> s] : s \in DOMAIN f} BY DEF Items
  <2> HIDE DEF h
  <2> QED BY <2>1, <1>1, HeapFirst
<1>4. /\ A \in SUBSET (1 .. Span) /\ Row(Span, w)
      /\ \A x \in h : x.weight \in Nat /\ w[x.tag] = x.weight
  BY <1>3, HeapIs
<1>5. /\ n \in Nat /\ DOMAIN v = 1 .. n
      /\ \A k \in 1 .. n : v[k] \in S
      /\ \A s \in S : \E k \in 1 .. n : v[k] = s
      /\ \A k, i \in 1 .. n : v[k] = v[i] => k = i
  BY <1>1, AlphabetIs
<1>6. \A s \in S : Order[Position(s)] = s BY <1>1, PositionsAre
<1>7. \A x \in h : x.tag \in A BY DEF TagsOf
<1>8. \A t \in A : \E x \in h : x.tag = t BY DEF TagsOf
<1>9. u = [k \in 1 .. n |-> Position(v[k])] BY DEF Tags
<1> HIDE DEF S, n, v, u, h, A, w
<1>10. ASSUME NEW s \in S PROVE Position(s) \in A /\ w[Position(s)] = f[s]
  <2>1. I(s) \in h /\ I(s).tag = Position(s) /\ I(s).weight = f[s] BY <1>2
  <2> HIDE DEF I
  <2> QED BY <2>1, <1>4, <1>7
<1>11. \A t \in A : \E s \in S : t = Position(s)
  <2>1. \A x \in h : \E s \in S : x.tag = Position(s) BY <1>2
  <2> QED BY <2>1, <1>8
<1>12. \A k \in 1 .. n : u[k] \in A /\ w[u[k]] = f[v[k]] /\ u[k] = Position(v[k]) /\ v[k] \in S BY <1>5, <1>9, <1>10
<1>13. u \in [1 .. n -> 1 .. Span] BY <1>4, <1>9, <1>12
<1>14. \A k, i \in 1 .. n : u[k] = u[i] => k = i
  <2> SUFFICES ASSUME NEW k \in 1 .. n, NEW i \in 1 .. n, u[k] = u[i] PROVE k = i OBVIOUS
  <2>1. v[k] = v[i] BY <1>6, <1>12
  <2> QED BY <2>1, <1>5
<1>15. \A t \in A : \E k \in 1 .. n : u[k] = t
  <2> SUFFICES ASSUME NEW t \in A PROVE \E k \in 1 .. n : u[k] = t OBVIOUS
  <2>1. PICK s \in S : t = Position(s) BY <1>11
  <2>2. PICK k \in 1 .. n : v[k] = s BY <1>5
  <2> QED BY <2>1, <2>2, <1>12
<1> QED BY <1>3, <1>4, <1>5, <1>12, <1>13, <1>14, <1>15 DEF S, n, v, u, h, A, w

\* The cost of lengths, by symbol or by tag.
LEMMA CostIs ==
  ASSUME NEW f, Frequent(f), NEW y, Row(Cardinality(DOMAIN f), y), NEW z, Row(Span, z),
         \A k \in 1 .. Cardinality(DOMAIN f) : z[Tags(DOMAIN f)[k]] = y[k]
  PROVE  LET used == Alphabet(DOMAIN f)
         IN Cost([k \in DOMAIN used |-> f[used[k]]], y) = Price(TagsOf(Items(f)), Weighing(Items(f)), z)
<1> DEFINE n == Cardinality(DOMAIN f)
           v == Alphabet(DOMAIN f)
           u == Tags(DOMAIN f)
           A == TagsOf(Items(f))
           w == Weighing(Items(f))
           g == [k \in DOMAIN v |-> f[v[k]]]
           p == [k \in 1 .. n |-> g[k] * y[k]]
           q == Weights(A, w, z)
<1>1. /\ n \in Nat /\ A \in SUBSET (1 .. Span) /\ Row(Span, w)
      /\ u \in [1 .. n -> 1 .. Span]
      /\ \A k, h \in 1 .. n : u[k] = u[h] => k = h
      /\ \A k \in 1 .. n : u[k] \in A /\ w[u[k]] = f[v[k]]
      /\ \A t \in A : \E k \in 1 .. n : u[k] = t
  BY ItemsAre
<1>2. DOMAIN v = 1 .. n
  <2>1. DOMAIN f \subseteq Symbols BY DEF Frequent
  <2> QED BY <2>1, AlphabetIs
<1>3. Row(n, y) /\ \A k \in 1 .. n : z[u[k]] = y[k] OBVIOUS
<1>4. DOMAIN g = 1 .. n /\ \A k \in 1 .. n : g[k] = f[v[k]] BY <1>2
<1>5. Cost(g, y) = Total(p) BY <1>4 DEF Cost
<1>6. q = [t \in 1 .. Span |-> IF t \in A THEN w[t] * z[t] ELSE 0] /\ Price(A, w, z) = Total(q)
  BY DEF Weights, Price
<1>7. Span \in Nat /\ Row(Span, q) BY <1>1, RowsAre
<1> HIDE DEF n, v, u, A, w, g, q
<1>8. \A k \in 1 .. n : g[k] \in Nat /\ y[k] \in Nat
  <2> SUFFICES ASSUME NEW k \in 1 .. n PROVE g[k] \in Nat /\ y[k] \in Nat OBVIOUS
  <2>1. u[k] \in 1 .. Span /\ g[k] = w[u[k]] BY <1>1, <1>4
  <2>2. w[u[k]] \in Nat BY <2>1, <1>1 DEF Row
  <2>3. y[k] \in Nat BY <1>3 DEF Row
  <2> QED BY <2>1, <2>2, <2>3
<1>9. Row(n, p)
  <2>1. ASSUME NEW k \in 1 .. n PROVE g[k] * y[k] \in Nat
    <3> DEFINE a == g[k]
               b == y[k]
    <3>1. a \in Nat /\ b \in Nat BY <1>8
    <3> HIDE DEF a, b
    <3>2. a * b \in Nat BY <3>1
    <3> QED BY <3>2 DEF a, b
  <2> QED BY <2>1 DEF Row
<1>10. \A k \in 1 .. n : q[u[k]] = p[k]
  <2> SUFFICES ASSUME NEW k \in 1 .. n PROVE q[u[k]] = p[k] OBVIOUS
  <2>1. u[k] \in A /\ u[k] \in 1 .. Span /\ w[u[k]] = g[k] /\ z[u[k]] = y[k] BY <1>1, <1>3, <1>4
  <2>2. q[u[k]] = w[u[k]] * z[u[k]] BY <2>1, <1>6
  <2> QED BY <2>1, <2>2
<1>11. \A t \in 1 .. Span : (\A k \in 1 .. n : u[k] # t) => q[t] = 0
  <2> SUFFICES ASSUME NEW t \in 1 .. Span, \A k \in 1 .. n : u[k] # t PROVE q[t] = 0 OBVIOUS
  <2>1. t \notin A BY <1>1
  <2> QED BY <2>1, <1>6
<1> HIDE DEF p
<1>12. Spreads(n, Span, u, p, q) BY <1>1, <1>7, <1>9, <1>10, <1>11 DEF Spreads
<1>13. Total(q) = Total(p) BY <1>12, TotalSpread
<1> QED BY <1>5, <1>6, <1>13 DEF v, A, w, g

\* A bounded set of natural numbers has a largest one.
LEMMA LargestIs ==
  ASSUME NEW S, S \subseteq Nat, S # {}, NEW n \in Nat, \A x \in S : x <= n
  PROVE  Largest(S) \in S /\ \A x \in S : x <= Largest(S)
<1> DEFINE T == {n - x : x \in S}
<1>2. \A x \in S : n - x \in T OBVIOUS
<1>1. T \subseteq Nat /\ T # {}
  <2>1. \A x \in S : n - x \in Nat OBVIOUS
  <2>2. T # {} BY <1>2
  <2> QED BY <2>1, <2>2
<1>3. \A m \in T : \E x \in S : m = n - x OBVIOUS
<1> HIDE DEF T
<1>4. PICK m \in T : \A k \in T : m <= k BY <1>1, LeastNatural
<1>5. PICK x \in S : m = n - x BY <1>3
<1>6. \A y \in S : y <= x
  <2> SUFFICES ASSUME NEW y \in S PROVE y <= x OBVIOUS
  <2>1. n - x <= n - y BY <1>2, <1>4, <1>5
  <2> QED BY <2>1
<1>7. \E y \in S : \A z \in S : z <= y BY <1>6
<1> QED BY <1>7 DEF Largest

\* l are the lengths of a full tree for the symbols of f, none below d.
Full(f, d, l) == Frequent(f) /\ d \in {1, 2} /\ l \in FullTrees[<<Cardinality(DOMAIN f), d>>]

\* They fill it by tags.
LEMMA FullIs ==
  ASSUME NEW f, NEW d, NEW l, Full(f, d, l)
  PROVE  /\ Row(Cardinality(DOMAIN f), l)
         /\ \E L, N : /\ Fills(TagsOf(Items(f)), L, Level(d), N)
                      /\ \A k \in 1 .. Cardinality(DOMAIN f) : L[Tags(DOMAIN f)[k]] = l[k]
<1> DEFINE lo == Level(d)
           n == Cardinality(DOMAIN f)
           u == Tags(DOMAIN f)
           A == TagsOf(Items(f))
           X == {l[k] : k \in DOMAIN l}
           N == Largest(X)
           p == [k \in DOMAIN l |-> Power[N - l[k]]]
           L == [t \in 1 .. Span |-> IF t \in A THEN l[CHOOSE k \in 1 .. n : u[k] = t] ELSE 0]
           q == Portions(A, L, N)
<1>0. Frequent(f) /\ d \in {1, 2} /\ l \in FullTrees[<<n, d>>] BY DEF Full
<1>1. /\ n \in Nat /\ A \in SUBSET (1 .. Span)
      /\ u \in [1 .. n -> 1 .. Span]
      /\ \A k, h \in 1 .. n : u[k] = u[h] => k = h
      /\ \A k \in 1 .. n : u[k] \in A
      /\ \A t \in A : \E k \in 1 .. n : u[k] = t
  BY <1>0, ItemsAre
<1>2. n \in 2 .. Len(Order)
  <2>1. DOMAIN f \subseteq Symbols /\ n >= 2 BY <1>0 DEF Frequent
  <2>2. n <= Len(Order) /\ Len(Order) \in Nat BY <2>1, AlphabetIs, SymbolsAreFew
  <2> QED BY <2>1, <2>2, <1>1
<1>3. l \in [1 .. n -> d .. n - 1] /\ Kraft(l)
  <2>1. l \in FullTrees[<<n, d>>] BY <1>0
  <2> HIDE DEF n
  <2>2. FullTrees[<<n, d>>] = {x \in [1 .. n -> d .. n - 1] : Kraft(x)} BY <1>0, <1>2 DEF FullTrees
  <2> QED BY <2>1, <2>2
<1> HIDE DEF n, u, A
<1>4. DOMAIN l = 1 .. n /\ \A k \in 1 .. n : l[k] \in Nat /\ d <= l[k] /\ l[k] <= n
  <2>1. DOMAIN l = 1 .. n /\ \A k \in 1 .. n : l[k] \in d .. n - 1 BY <1>3
  <2>2. \A i \in d .. n - 1 : i \in Nat /\ d <= i /\ i <= n BY <1>0, <1>1
  <2> QED BY <2>1, <2>2
<1>5. Row(n, l) BY <1>3, <1>4 DEF Row
<1>6. N \in Nat /\ \A k \in 1 .. n : l[k] <= N
  <2>1. X \subseteq Nat /\ \A x \in X : x <= n BY <1>4
  <2>2. \A k \in 1 .. n : l[k] \in X BY <1>4
  <2>3. X # {}
    <3>1. 1 \in 1 .. n BY <1>2
    <3> QED BY <3>1, <2>2
  <2> HIDE DEF X
  <2>4. N \in X /\ \A x \in X : x <= N BY <2>1, <2>3, <1>1, LargestIs
  <2> HIDE DEF N
  <2> QED BY <2>1, <2>2, <2>4
<1>7. Total(p) = Power[N] BY <1>3 DEF Kraft
<1> HIDE DEF X, N
<1>8. ASSUME NEW k \in 1 .. n PROVE L[u[k]] = l[k]
  <2> DEFINE t == u[k]
             j == CHOOSE i \in 1 .. n : u[i] = t
  <2>1. t \in A /\ t \in 1 .. Span BY <1>1
  <2>2. j \in 1 .. n /\ u[j] = t OBVIOUS
  <2>3. j = k BY <2>2, <1>1
  <2>4. L[t] = l[j] BY <2>1
  <2> QED BY <2>3, <2>4
<1>9. \A t \in A : t \in 1 .. Span /\ \E k \in 1 .. n : u[k] = t /\ L[t] = l[k] BY <1>1, <1>8
<1>10. \A t \in 1 .. Span : t \notin A => L[t] = 0 OBVIOUS
<1>11. DOMAIN L = 1 .. Span /\ L = [t \in 1 .. Span |-> L[t]] OBVIOUS
<1> HIDE DEF L
<1>12. \A t \in A : L[t] \in Nat /\ d <= L[t] /\ L[t] <= N
  <2> SUFFICES ASSUME NEW t \in A PROVE L[t] \in Nat /\ d <= L[t] /\ L[t] <= N OBVIOUS
  <2>1. PICK k \in 1 .. n : L[t] = l[k] BY <1>9
  <2> QED BY <2>1, <1>4, <1>6
<1>13. Row(Span, L)
  <2>1. \A t \in 1 .. Span : L[t] \in Nat BY <1>10, <1>12
  <2> QED BY <2>1, <1>11 DEF Row
<1>14. lo \in Nat /\ \A t \in A : lo <= L[t] BY <1>0, <1>12 DEF Level
<1> HIDE DEF lo
<1>15. Span \in Nat /\ Row(Span, q) BY <1>1, <1>6, <1>12, <1>13, RowsAre
<1>16. q = [t \in 1 .. Span |-> IF t \in A THEN Power[N - L[t]] ELSE 0] BY DEF Portions
<1> HIDE DEF q
<1>17. p = [k \in 1 .. n |-> Power[N - l[k]]] BY <1>4
<1> HIDE DEF p
<1>18. Row(n, p)
  <2>1. ASSUME NEW k \in 1 .. n PROVE Power[N - l[k]] \in Nat
    <3>1. N - l[k] \in Nat BY <1>4, <1>6
    <3> QED BY <3>1, PowersAre
  <2> QED BY <2>1, <1>17 DEF Row
<1>19. \A k \in 1 .. n : q[u[k]] = p[k]
  <2> SUFFICES ASSUME NEW k \in 1 .. n PROVE q[u[k]] = p[k] OBVIOUS
  <2>1. u[k] \in A /\ u[k] \in 1 .. Span /\ L[u[k]] = l[k] BY <1>1, <1>8
  <2>2. q[u[k]] = Power[N - L[u[k]]] BY <2>1, <1>16
  <2> QED BY <2>1, <2>2, <1>17
<1>20. \A t \in 1 .. Span : (\A k \in 1 .. n : u[k] # t) => q[t] = 0
  <2> SUFFICES ASSUME NEW t \in 1 .. Span, \A k \in 1 .. n : u[k] # t PROVE q[t] = 0 OBVIOUS
  <2>1. t \notin A BY <1>1
  <2> QED BY <2>1, <1>16
<1>21. Spreads(n, Span, u, p, q) BY <1>1, <1>15, <1>18, <1>19, <1>20 DEF Spreads
<1>22. Total(q) = Power[N] BY <1>7, <1>21, TotalSpread
<1>23. Fills(A, L, lo, N) BY <1>1, <1>6, <1>12, <1>13, <1>14, <1>22 DEF Fills, q
<1>24. \E Z, M : Fills(A, Z, lo, M) /\ \A k \in 1 .. n : Z[u[k]] = l[k] BY <1>8, <1>23
<1> QED BY <1>5, <1>24 DEF n, u, A, lo

----------------------------------------------------------------------------
(* What a build lays out. *)

\* What Optimal says of the frequencies f, the tree t and the least length d.
Best(f, t, d) ==
  LET lengths == LengthsOf(t)
      used == Alphabet(DOMAIN f)
      weights == [k \in DOMAIN used |-> f[used[k]]]
  IN /\ DOMAIN lengths = DOMAIN f
     /\ \A s \in DOMAIN f : lengths[s] >= d
     /\ \A l \in FullTrees[<<Len(used), d>>] :
          Cost(weights, [k \in DOMAIN used |-> lengths[used[k]]]) <= Cost(weights, l)

\* The tree that is laid out is the best one.
LEMMA LaidIsBest ==
  ASSUME NEW f, Frequent(f), NEW h, NEW c, Heaped(h, c), NEW d \in {1, 2},
         NEW t, Hung(h, c, t, Level(d), d), Holds(DOMAIN f, h, c),
         Cheapest(TagsOf(Items(f)), Weighing(Items(f)), h, c, Level(d))
  PROVE  Best(f, t, d)
<1> DEFINE S == DOMAIN f
           n == Cardinality(S)
           used == Alphabet(S)
           u == Tags(S)
           A == TagsOf(Items(f))
           w == Weighing(Items(f))
           D == Depths(t)
           K == Codes(t)
           lengths == LengthsOf(t)
           weights == [k \in DOMAIN used |-> f[used[k]]]
           y == [k \in DOMAIN used |-> lengths[used[k]]]
<1>1. /\ Tree(t)
      /\ \A s \in DOMAIN K : Len(K[s]) >= d
      /\ \A s \in Symbols : s \in DOMAIN K <=>
           (\E x \in h : x.child = s) \/ \E k \in 0 .. Len(c) - 1 : \E b \in {0, 1} : Kid(c, k, b) = s
  BY DEF Hung
<1>2. Row(Span, D) /\ \A s \in DOMAIN K : s \in Symbols /\ D[Position(s)] = Len(K[s]) BY <1>1, DepthsAre
<1>3. S \subseteq Symbols BY DEF Frequent
<1>4. DOMAIN K = S
  <2>1. /\ \A s \in S : (\E x \in h : x.child = s) \/ \E k \in 0 .. Len(c) - 1 : \E b \in {0, 1} : Kid(c, k, b) = s
        /\ \A x \in h : x.child \in Symbols => x.child \in S
        /\ \A k \in 0 .. Len(c) - 1 : \A b \in {0, 1} : Kid(c, k, b) \in Symbols => Kid(c, k, b) \in S
    BY DEF Holds
  <2> HIDE DEF S, K
  <2>2. \A s \in S : s \in DOMAIN K BY <2>1, <1>1, <1>3
  <2>3. ASSUME NEW s \in DOMAIN K PROVE s \in S
    <3>1. s \in Symbols BY <1>2
    <3>2. (\E x \in h : x.child = s) \/ \E k \in 0 .. Len(c) - 1 : \E b \in {0, 1} : Kid(c, k, b) = s BY <3>1, <1>1
    <3> QED BY <3>1, <3>2, <2>1
  <2> QED BY <2>2, <2>3
<1>5. lengths = [s \in DOMAIN K |-> Len(K[s])] BY DEF LengthsOf
<1>6. /\ n \in Nat /\ DOMAIN used = 1 .. n /\ Len(used) = n
      /\ \A k \in 1 .. n : used[k] \in S
  BY <1>3, AlphabetIs
<1>7. u = [k \in 1 .. n |-> Position(used[k])] /\ u \in [1 .. n -> 1 .. Span] BY ItemsAre DEF Tags
<1>8. A \in SUBSET (1 .. Span) /\ Row(Span, w) BY ItemsAre
<1> HIDE DEF S, n, used, u, A, w, D, K, lengths
<1>9. DOMAIN lengths = S /\ \A s \in S : lengths[s] = Len(K[s]) /\ lengths[s] >= d BY <1>1, <1>4, <1>5
<1>10. ASSUME NEW k \in 1 .. n PROVE D[u[k]] = y[k] /\ y[k] \in Nat
  <2>1. used[k] \in S /\ u[k] = Position(used[k]) /\ u[k] \in 1 .. Span BY <1>6, <1>7
  <2>2. D[u[k]] = Len(K[used[k]]) BY <2>1, <1>2, <1>4
  <2>3. y[k] = lengths[used[k]] BY <1>6
  <2>4. D[u[k]] \in Nat BY <2>1, <1>2 DEF Row
  <2> QED BY <2>1, <2>2, <2>3, <2>4, <1>9
<1>11. Row(n, y)
  <2>1. DOMAIN y = 1 .. n /\ y = [k \in 1 .. n |-> y[k]] BY <1>6
  <2> HIDE DEF y
  <2> QED BY <2>1, <1>10 DEF Row
<1> HIDE DEF y, weights
<1>12. Cost(weights, y) = Price(A, w, D)
  <2>1. \A k \in 1 .. Cardinality(DOMAIN f) : D[Tags(DOMAIN f)[k]] = y[k] BY <1>10 DEF n, u, S
  <2>2. Row(Cardinality(DOMAIN f), y) BY <1>11 DEF n, S
  <2> QED BY <2>1, <2>2, <1>2, CostIs DEF weights, used, A, w, S
<1>13. ASSUME NEW l \in FullTrees[<<n, d>>] PROVE Cost(weights, y) <= Cost(weights, l)
  <2>1. /\ Row(n, l)
        /\ \E L, N : Fills(A, L, Level(d), N) /\ \A k \in 1 .. n : L[u[k]] = l[k]
    <3>1. l \in FullTrees[<<Cardinality(DOMAIN f), d>>] BY <1>13 DEF n, S
    <3>2. /\ Row(Cardinality(DOMAIN f), l)
          /\ \E L, N : /\ Fills(TagsOf(Items(f)), L, Level(d), N)
                       /\ \A k \in 1 .. Cardinality(DOMAIN f) : L[Tags(DOMAIN f)[k]] = l[k]
      BY <3>1, FullIs DEF Full
    <3> QED BY <3>2 DEF n, S, A, u
  <2>2. PICK L, N : Fills(A, L, Level(d), N) /\ \A k \in 1 .. n : L[u[k]] = l[k] BY <2>1
  <2>3. Row(Span, L) BY <2>2 DEF Fills
  <2>4. Cost(weights, l) = Price(A, w, L)
    <3>1. \A k \in 1 .. Cardinality(DOMAIN f) : L[Tags(DOMAIN f)[k]] = l[k] BY <2>2 DEF n, u, S
    <3>2. Row(Cardinality(DOMAIN f), l) BY <2>1 DEF n, S
    <3> QED BY <3>1, <3>2, <2>3, CostIs DEF weights, used, A, w, S
  <2>5. Price(A, w, D) <= Price(A, w, L)
    <3>1. Cheapest(A, w, h, c, Level(d)) BY DEF A, w
    <3> QED BY <3>1, <2>2, <1>8, DepthsAreCheapest DEF D
  <2> QED BY <2>4, <2>5, <1>12
<1>14. \A l \in FullTrees[<<Len(used), d>>] : Cost(weights, y) <= Cost(weights, l) BY <1>6, <1>13
<1> QED BY <1>9, <1>14 DEF Best, S, used, lengths, weights, y

\* While a build merges, the heap keeps what is cheapest; what it lays out is best.
BestInv ==
  /\ phase = "merge" =>
       /\ Frequent(freqs) /\ Holds(DOMAIN freqs, heap, children)
       /\ Cheapest(TagsOf(Items(freqs)), Weighing(Items(freqs)), heap, children, Level(minDepth))
  /\ Optimal

\* A build begins with all the symbols in the heap.
LEMMA BestBuild ==
  ASSUME IInv, NEW f \in Frequencies, NEW depth \in MinDepths, Build(f, depth)
  PROVE  BestInv'
<1>1. /\ phase = "idle" /\ freqs' = f /\ minDepth' = depth /\ heap' = Items(f) /\ children' = children
      /\ phase' = (IF Cardinality(DOMAIN f) < 2 * depth THEN "raised" ELSE "merge")
  BY DEF Build, Items
<1>2. DOMAIN f \subseteq Symbols /\ (\A s \in DOMAIN f : f[s] \in Nat) /\ depth \in {1, 2} BY InputAssumption
<1>3. children' = <<>> BY <1>1 DEF IInv, BuilderInv
<1>4. phase' # "built" BY <1>1
<1>5. ASSUME phase' = "merge"
      PROVE  /\ Frequent(f) /\ Holds(DOMAIN f, Items(f), <<>>)
             /\ \A lo : Cheapest(TagsOf(Items(f)), Weighing(Items(f)), Items(f), <<>>, lo)
  <2> DEFINE D == DOMAIN f
  <2>1. Cardinality(D) \in Nat BY <1>2, AlphabetIs
  <2>2. ~(Cardinality(D) < 2 * depth) BY <1>1, <1>5
  <2>3. Cardinality(D) >= 2 BY <2>1, <2>2, <1>2
  <2>4. Frequent(f) BY <2>3, <1>2 DEF Frequent
  <2>5. Heaped(Items(f), <<>>) BY <2>4, ItemsAre
  <2>6. Holds(DOMAIN f, Items(f), <<>>)
    <3>1. \A n \in 0 .. Len(<<>>) - 1 : FALSE OBVIOUS
    <3>2. \A x \in Items(f) : x.child \in DOMAIN f BY DEF Items
    <3>3. ASSUME NEW s \in DOMAIN f PROVE \E x \in Items(f) : x.child = s
      <4> DEFINE x == [weight |-> f[s], tag |-> Position(s), child |-> s]
      <4>1. x \in Items(f) /\ x.child = s BY DEF Items
      <4> QED BY <4>1
    <3> QED BY <3>1, <3>2, <3>3 DEF Holds
  <2> QED BY <2>4, <2>5, <2>6, CheapestFirst
<1>6. phase' = "merge" =>
       /\ Frequent(freqs') /\ Holds(DOMAIN freqs', heap', children')
       /\ Cheapest(TagsOf(Items(freqs')), Weighing(Items(freqs')), heap', children', Level(minDepth'))
  BY <1>1, <1>3, <1>5
<1>7. Optimal' BY <1>4 DEF Optimal
<1> QED BY <1>6, <1>7 DEF BestInv

\* A merge keeps what is cheapest.
LEMMA BestMerge == ASSUME IInv, BestInv, Merge PROVE BestInv'
<1> DEFINE a == Lightest(heap)
           b == Lightest(heap \ {a})
           i == [weight |-> a.weight + b.weight, tag |-> Len(Order) + Len(children'), child |-> Node(Len(children))]
           A == TagsOf(Items(freqs))
           w == Weighing(Items(freqs))
           lo == Level(minDepth)
<1>1. /\ phase = "merge" /\ Cardinality(heap) > Stop
      /\ children' = Append(children, <<a.child, b.child>>)
      /\ heap' = (heap \ {a, b}) \cup {i}
      /\ phase' = phase /\ minDepth' = minDepth /\ freqs' = freqs
  BY DEF Merge
<1>2. Heaped(heap, children) /\ minDepth \in {1, 2} BY <1>1 DEF IInv, BuilderInv
<1>3. Frequent(freqs) /\ Holds(DOMAIN freqs, heap, children) /\ Cheapest(A, w, heap, children, lo)
  BY <1>1 DEF BestInv
<1>4. Cardinality(heap) \in Nat /\ (Cardinality(heap) > 1 => Below(heap, 0)) /\ (Cardinality(heap) > 4 => Below(heap, 2))
  BY <1>2, TagsAre, BelowIs
<1>5. Cardinality(heap) > 1 /\ Below(heap, lo)
  <2>1. CASE minDepth = 2
    <3>1. Cardinality(heap) > 4 /\ lo = 2 BY <2>1, <1>1 DEF Stop, Level
    <3> HIDE DEF lo
    <3> QED BY <3>1, <1>4
  <2>2. CASE minDepth # 2
    <3>1. Cardinality(heap) > 1 /\ lo = 0 BY <2>2, <1>1 DEF Stop, Level
    <3> HIDE DEF lo
    <3> QED BY <3>1, <1>4
  <2> QED BY <2>1, <2>2
<1>6. Merges(heap, children, a, b, i, heap', children')
  <2>1. /\ a = Lightest(heap) /\ b = Lightest(heap \ {a})
        /\ i = [weight |-> a.weight + b.weight, tag |-> Len(Order) + Len(children'), child |-> Node(Len(children))]
    OBVIOUS
  <2> HIDE DEF a, b, i
  <2> QED BY <2>1, <1>1, <1>2, <1>5, Zenon DEF Merges
<1>7. A \in SUBSET (1 .. Span) /\ Row(Span, w) BY <1>3, ItemsAre
<1> HIDE DEF a, b, i, A, w, lo
<1>8. Cheapest(A, w, heap', children', lo) BY <1>3, <1>5, <1>6, <1>7, CheapestMerged, Zenon
<1>9. Holds(DOMAIN freqs, heap', children') BY <1>3, <1>6, HoldsMerged, Zenon
<1>10. Optimal' BY <1>1 DEF Optimal
<1>11. /\ Frequent(freqs') /\ Holds(DOMAIN freqs', heap', children')
       /\ Cheapest(TagsOf(Items(freqs')), Weighing(Items(freqs')), heap', children', Level(minDepth'))
  <2>1. Level(minDepth') = Level(minDepth) BY <1>1
  <2> QED BY <2>1, <1>1, <1>3, <1>8, <1>9 DEF A, w, lo
<1> QED BY <1>10, <1>11 DEF BestInv

\* What is laid out is best.
LEMMA BestLay == ASSUME IInv, BestInv, Lay PROVE BestInv'
<1> DEFINE c == children \o (IF minDepth = 2 THEN Joined ELSE <<>>)
<1>1. /\ phase = "merge" /\ Cardinality(heap) = Stop
      /\ tree' = LayOut(c) /\ phase' = "built"
      /\ minDepth' = minDepth /\ freqs' = freqs
  BY DEF Lay
<1>2. Heaped(heap, children) /\ minDepth \in {1, 2} BY <1>1 DEF IInv, BuilderInv
<1>3. /\ Frequent(freqs) /\ Holds(DOMAIN freqs, heap, children)
      /\ Cheapest(TagsOf(Items(freqs)), Weighing(Items(freqs)), heap, children, Level(minDepth))
  BY <1>1 DEF BestInv
<1>4. Hung(heap, children, LayOut(c), Level(minDepth), minDepth) BY <1>1, <1>2, LaidDeep
<1> HIDE DEF c
<1>5. Best(freqs, LayOut(c), minDepth) BY <1>2, <1>3, <1>4, LaidIsBest
<1>6. Best(freqs', tree', minDepth') BY <1>1, <1>5
<1>7. Optimal' BY <1>6 DEF Optimal, Best
<1> QED BY <1>1, <1>7 DEF BestInv

\* What a build lays out is the constrained optimum, for any symbols and frequencies: its codes
\* are those of its symbols, none is below the least length, and no full tree of such lengths
\* encodes the text in fewer bits.
THEOREM CodesAreOptimal == Spec => []Optimal
<1>1. Init => BestInv BY DEF Init, BestInv, Optimal
<1>2. ASSUME IInv, BestInv, [Next]_vars PROVE BestInv'
  <2>1. ASSUME NEW f \in Frequencies, NEW depth \in MinDepths, Build(f, depth) PROVE BestInv' BY <1>2, <2>1, BestBuild
  <2>2. CASE Merge BY <2>2, <1>2, BestMerge
  <2>3. CASE Lay BY <2>3, <1>2, BestLay
  <2>4. ASSUME phase' \notin {"merge", "built"} PROVE BestInv' BY <2>4 DEF BestInv, Optimal
  <2>5. ASSUME NEW symbols \in Texts, NEW bytes \in 0 .. MaxBytes, Encode(symbols, bytes) PROVE BestInv'
    <3>1. phase' \in {"reading", "raised"} BY <2>5 DEF Encode
    <3> QED BY <3>1, <2>4
  <2>6. ASSUME NEW bits \in Streams, Load(bits) PROVE BestInv'
    <3>1. phase' = "reading" BY <2>6 DEF Load
    <3> QED BY <3>1, <2>4
  <2>7. CASE ReadBit
    <3>1. phase' \in {"reading", "raised"} BY <2>7 DEF ReadBit
    <3> QED BY <3>1, <2>4
  <2>8. CASE EndOfStream
    <3>1. phase' = "read" BY <2>8 DEF EndOfStream
    <3> QED BY <3>1, <2>4
  <2>9. CASE Recode
    <3>1. phase' \in {"reading", "raised"} BY <2>9 DEF Recode
    <3> QED BY <3>1, <2>4
  <2>10. CASE UNCHANGED vars
    <3>1. /\ phase' = phase /\ freqs' = freqs /\ minDepth' = minDepth /\ tree' = tree
          /\ heap' = heap /\ children' = children
      BY <2>10 DEF vars
    <3> QED BY <3>1, <1>2 DEF BestInv, Optimal
  <2> QED BY <1>2, <2>1, <2>2, <2>3, <2>5, <2>6, <2>7, <2>8, <2>9, <2>10 DEF Next
<1>3. BestInv => Optimal BY DEF BestInv
<1> QED BY <1>1, <1>2, <1>3, InvHolds, PTL DEF Spec
=============================================================================
