--------------------------- MODULE ReferrersProofs ---------------------------
(***************************************************************************)
(* For every archive, any codes, texts and edits, and any number of        *)
(* builds: every word the game follows names the string it named at first, *)
(* so does a hidden word whose string the suffix rule protects, and a pass *)
(* of gate 44 means that all copies agree.                                 *)
(*                                                                         *)
(* The argument.  An archive is Sound if it has the cells of the base and  *)
(* every word its meaning, and if no string that was protected at first    *)
(* has moved, lost its symbols or come to be named.  The base is sound;    *)
(* the survey of a sound archive reads every word the game follows, at one *)
(* of its copies; and a build upon a sound archive, of an edit the suffix  *)
(* rule allows, leaves a sound one.                                        *)
(***************************************************************************)
EXTENDS Referrers, NaturalLemmas

\* A set of natural numbers has a least one.
LEMMA LeastIs ==
  ASSUME NEW S, S \subseteq Nat, S # {}
  PROVE  Least(S) \in S /\ \A t \in S : Least(S) <= t
BY LeastNatural DEF Least

----------------------------------------------------------------------------
(* Strings. *)

\* A string takes a bit at least: its end does.
LEMMA BitsArePositive ==
  ASSUME NEW string \in Seq(Symbols)
  PROVE  Bits(string) \in Nat /\ Bits(string) >= 1
<1> DEFINE n == Len(string)
           first == CodeBits["END"]
           g == [k \in 1 .. n |-> CodeBits[string[k].kind]]
           E(h) == [k \in 0 .. n |-> IF k = 0 THEN first ELSE h[k - 1] + CodeBits[string[k].kind]]
           sum == CHOOSE h : h = E(h)
<1>1. n \in Nat /\ \A k \in 1 .. n : string[k] \in Symbols OBVIOUS
<1>2. first \in Nat /\ first >= 1 BY CodeAssumption
<1>3. \A k \in 1 .. n : g[k] \in Nat /\ g[k] = CodeBits[string[k].kind]
  <2>1. \A k \in 1 .. n : string[k].kind \in Kinds BY <1>1 DEF Symbols, Kinds
  <2> QED BY <2>1, CodeAssumption
<1> HIDE DEF n, g, first
<1>4. \A h : Summed(h, 0, n, first, g) <=> h = E(h)
  <2>1. \A h : [k \in 0 .. n |-> IF k = 0 THEN first ELSE h[k - 1] + g[k]] = E(h) BY <1>1, <1>3
  <2> HIDE DEF E
  <2> QED BY <2>1 DEF Summed
<1>9. \A k \in 0 + 1 .. n : g[k] \in Nat BY <1>3
<1>5. \E h : Summed(h, 0, n, first, g) BY <1>1, <1>2, <1>9, SumsExist
<1>6. Summed(sum, 0, n, first, g)
  <2> HIDE DEF E
  <2> QED BY <1>4, <1>5
<1>7. Bits(string) = sum[n] BY DEF Bits, n, first
<1> HIDE DEF sum
<1>8. sum \in [0 .. n -> Nat] /\ \A k \in 0 .. n : sum[k] >= first
  <2>1. 0 \in Nat /\ n \in Nat /\ 0 <= n BY <1>1
  <2>2. first \in Nat BY <1>2
  <2> QED BY <2>1, <2>2, <1>9, <1>6, SumsAre
<1> QED BY <1>1, <1>2, <1>7, <1>8

\* The strings of a block begin one behind the other.
LEMMA StartsAre ==
  ASSUME NEW block \in Blocks
  PROVE  /\ Len(block.strings) \in Nat /\ DOMAIN block.strings = 1 .. Len(block.strings)
         /\ Starts(block) \in [1 .. Len(block.strings) + 1 -> Nat]
         /\ Starts(block)[1] = 0
         /\ \A i \in 1 .. Len(block.strings) :
              Starts(block)[i + 1] = Starts(block)[i] + Bits(block.strings[i])
         /\ \A i, j \in 1 .. Len(block.strings) + 1 : i < j => Starts(block)[i] < Starts(block)[j]
<1> DEFINE n == Len(block.strings)
           g == [i \in 2 .. n + 1 |-> Bits(block.strings[i - 1])]
           E(h) == [i \in 1 .. n + 1 |-> IF i = 1 THEN 0 ELSE h[i - 1] + Bits(block.strings[i - 1])]
           F == Starts(block)
<1>1. block.strings \in Seq(Seq(Symbols)) BY DEF Blocks
<1>2. n \in Nat /\ DOMAIN block.strings = 1 .. n /\ \A i \in 1 .. n : block.strings[i] \in Seq(Symbols)
  BY <1>1
<1>3. F = CHOOSE h : h = E(h) BY DEF Starts
<1> HIDE DEF n, F
<1>4. ASSUME NEW i \in 2 .. n + 1
      PROVE  g[i] \in Nat /\ g[i] >= 1 /\ g[i] = Bits(block.strings[i - 1])
  <2>1. i - 1 \in 1 .. n BY <1>2
  <2> QED BY <2>1, <1>2, BitsArePositive
<1> HIDE DEF g
<1>5. \A h : Summed(h, 1, n + 1, 0, g) <=> h = E(h)
  <2>1. \A h : [i \in 1 .. n + 1 |-> IF i = 1 THEN 0 ELSE h[i - 1] + g[i]] = E(h) BY <1>2, <1>4
  <2> HIDE DEF E
  <2> QED BY <2>1 DEF Summed
<1>6. n + 1 \in Nat /\ 1 <= n + 1 /\ (1 + 1) .. n + 1 = 2 .. n + 1 BY <1>2
<1>7. \E h : Summed(h, 1, n + 1, 0, g)
  <2>1. \A i \in 1 + 1 .. n + 1 : g[i] \in Nat BY <1>4
  <2> QED BY <2>1, <1>6, SumsExist
<1>8. Summed(F, 1, n + 1, 0, g)
  <2> HIDE DEF E
  <2> QED BY <1>3, <1>5, <1>7
<1>9. /\ F \in [1 .. n + 1 -> Nat] /\ F[1] = 0
      /\ \A i \in 1 + 1 .. n + 1 : F[i] = F[i - 1] + g[i]
  <2>1. \A i \in 1 + 1 .. n + 1 : g[i] \in Nat BY <1>4
  <2> QED BY <2>1, <1>6, <1>8, SumsAre
<1>10. \A i \in 1 + 1 .. n + 1 : F[i - 1] < F[i]
  <2>1. ASSUME NEW i \in 1 + 1 .. n + 1 PROVE F[i - 1] < F[i]
    <3>1. i - 1 \in 1 .. n + 1 /\ i \in 1 .. n + 1 /\ i \in 2 .. n + 1 BY <1>2
    <3>2. F[i] = F[i - 1] + g[i] /\ F[i - 1] \in Nat /\ g[i] \in Nat /\ g[i] >= 1
      BY <3>1, <1>4, <1>9
    <3> QED BY <3>2
  <2> QED BY <2>1
<1>11. \A i, j \in 1 .. n + 1 : i < j => F[i] < F[j]
  BY <1>6, <1>9, <1>10, SumsRise
<1>12. ASSUME NEW i \in 1 .. n PROVE F[i + 1] = F[i] + Bits(block.strings[i])
  <2>1. i + 1 \in 2 .. n + 1 /\ (i + 1) - 1 = i BY <1>2
  <2> QED BY <2>1, <1>4, <1>9
<1> QED BY <1>2, <1>9, <1>11, <1>12 DEF n, F

\* Blocks whose strings are the same up to one have its start at the same place.
LEMMA StartsAgree ==
  ASSUME NEW block \in Blocks, NEW other \in Blocks,
         NEW m \in 1 .. Len(block.strings) + 1, m <= Len(other.strings) + 1,
         \A k \in 1 .. m - 1 : block.strings[k] = other.strings[k]
  PROVE  Starts(block)[m] = Starts(other)[m]
<1> DEFINE f == Starts(block)
           h == Starts(other)
<1>1. /\ Len(block.strings) \in Nat /\ Len(other.strings) \in Nat /\ f[1] = 0 /\ h[1] = 0
      /\ \A i \in 1 .. Len(block.strings) : f[i + 1] = f[i] + Bits(block.strings[i])
      /\ \A i \in 1 .. Len(other.strings) : h[i + 1] = h[i] + Bits(other.strings[i])
  BY StartsAre
<1> HIDE DEF f, h
<1>2. ASSUME NEW i \in 1 .. m, i > 1, f[i - 1] = h[i - 1] PROVE f[i] = h[i]
  <2> DEFINE k == i - 1
  <2>1. k \in 1 .. Len(block.strings) /\ k \in 1 .. Len(other.strings) /\ k \in 1 .. m - 1 /\ k + 1 = i
    BY <1>1, <1>2
  <2> HIDE DEF k
  <2>2. f[k + 1] = f[k] + Bits(block.strings[k]) /\ h[k + 1] = h[k] + Bits(other.strings[k])
        /\ block.strings[k] = other.strings[k]
    BY <2>1, <1>1
  <2>3. f[k] = h[k] BY <1>2 DEF k
  <2> QED BY <2>1, <2>2, <2>3
<1>3. m \in Nat /\ 1 <= m BY <1>1
<1>4. f[m] = h[m]
  <2>1. f[1] = h[1] BY <1>1
  <2>2. \A i \in 1 .. m : i > 1 /\ f[i - 1] = h[i - 1] => f[i] = h[i] BY <1>2
  <2>3. 1 \in Nat OBVIOUS
  <2> QED BY <2>1, <2>2, <2>3, <1>3, SumsAgree
<1> QED BY <1>3, <1>4 DEF f, h

----------------------------------------------------------------------------
(* What a word names. *)

Names(x, w, t, i) ==
  /\ t = w \div Span /\ t \in DOMAIN x /\ i \in DOMAIN x[t].strings
  /\ x[t].c + Starts(x[t])[i] = w % Span

\* An index of text blocks.
IndexOk(x) == \A t \in DOMAIN x : t \in Nat /\ x[t] \in Blocks /\ x[t].id = t /\ Addressable(x[t])

LEMMA ResolveIs ==
  ASSUME NEW x, NEW w
  PROVE  /\ \A t, i : <<t, i>> \in Resolve(x, w) <=> Names(x, w, t, i)
         /\ \A s \in Resolve(x, w) : s = <<s[1], s[2]>> /\ Names(x, w, s[1], s[2])
BY DEF Resolve, Names

\* A word names one string at most.
LEMMA NamesOne ==
  ASSUME NEW x, IndexOk(x), NEW w, NEW t, NEW i, Names(x, w, t, i), NEW u, NEW j, Names(x, w, u, j)
  PROVE  t = u /\ i = j
<1>1. t = u /\ x[t] \in Blocks /\ i \in DOMAIN x[t].strings /\ j \in DOMAIN x[t].strings
      /\ x[t].c + Starts(x[t])[i] = x[t].c + Starts(x[t])[j]
  BY DEF Names, IndexOk
<1> DEFINE n == Len(x[t].strings)
           F == Starts(x[t])
<1>2. /\ n \in Nat /\ DOMAIN x[t].strings = 1 .. n /\ F \in [1 .. n + 1 -> Nat]
      /\ \A k, l \in 1 .. n + 1 : k < l => F[k] < F[l]
  BY <1>1, StartsAre
<1>3. x[t].c \in Nat BY <1>1 DEF Blocks
<1> HIDE DEF n, F
<1>4. i \in 1 .. n + 1 /\ j \in 1 .. n + 1 /\ F[i] \in Nat /\ F[j] \in Nat BY <1>1, <1>2
<1>5. F[i] = F[j] BY <1>1, <1>3, <1>4 DEF F
<1>6. ~(i < j) /\ ~(j < i) BY <1>2, <1>4, <1>5
<1> QED BY <1>1, <1>4, <1>6, <1>2

LEMMA ResolveOne ==
  ASSUME NEW x, IndexOk(x), NEW w, NEW t, NEW i, Names(x, w, t, i)
  PROVE  Resolve(x, w) = {<<t, i>>}
BY ResolveIs, NamesOne

\* The parts of a word.
LEMMA WordParts ==
  ASSUME NEW t \in Nat, NEW r \in 0 .. Span - 1
  PROVE  t * Span + r \in Nat /\ (t * Span + r) \div Span = t /\ (t * Span + r) % Span = r
<1>1. Span \in Nat \ {0} /\ t \in Int /\ r \in Nat BY SizeAssumption
<1>2. t * Span \in Nat BY <1>1
<1>3. \A a, b \in Nat : a + b \in Nat OBVIOUS
<1>4. t * Span + r \in Nat BY <1>1, <1>2, <1>3
<1>5. PICK w : w = t * Span + r OBVIOUS
<1>6. w \in Int BY <1>4, <1>5
<1>7. w \div Span = t /\ w % Span = r BY <1>1, <1>5, <1>6, DivModUnique
<1> QED BY <1>4, <1>5, <1>7

\* The word a build writes for a string names that string.
LEMMA WordNames ==
  ASSUME NEW x, IndexOk(x), NEW t \in DOMAIN x, NEW i \in DOMAIN x[t].strings
  PROVE  /\ t * Span + x[t].c + Starts(x[t])[i] \in Nat
         /\ Names(x, t * Span + x[t].c + Starts(x[t])[i], t, i)
<1> DEFINE n == Len(x[t].strings)
           F == Starts(x[t])
           r == x[t].c + F[i]
<1>1. t \in Nat /\ x[t] \in Blocks /\ Addressable(x[t]) BY DEF IndexOk
<1>2. /\ n \in Nat /\ DOMAIN x[t].strings = 1 .. n /\ F \in [1 .. n + 1 -> Nat]
      /\ \A k, l \in 1 .. n + 1 : k < l => F[k] < F[l]
  BY <1>1, StartsAre
<1>3. x[t].c \in Nat BY <1>1 DEF Blocks
<1>4. x[t].c + F[n + 1] < Span BY <1>1 DEF Addressable
<1>5. Span \in Nat \ {0} BY SizeAssumption
<1> HIDE DEF n, F
<1>6. i \in 1 .. n + 1 /\ n + 1 \in 1 .. n + 1 /\ i < n + 1 BY <1>2
<1>7. F[i] \in Nat /\ F[n + 1] \in Nat /\ F[i] < F[n + 1] BY <1>2, <1>6
<1>8. r \in 0 .. Span - 1 BY <1>3, <1>4, <1>5, <1>7
<1>9. t * Span \in Nat BY <1>1, <1>5
<1>10. t * Span + x[t].c + F[i] = t * Span + r
  <2>1. \A a, b, c \in Nat : a + b + c = a + (b + c) OBVIOUS
  <2> QED BY <2>1, <1>9, <1>3, <1>7
<1> HIDE DEF r
<1>11. /\ t * Span + r \in Nat
       /\ (t * Span + r) \div Span = t /\ (t * Span + r) % Span = r
  BY <1>1, <1>8, WordParts
<1> QED BY <1>10, <1>11 DEF Names, F, r

----------------------------------------------------------------------------
(* Archives. *)

TreesHold(d) ==
  \A s \in DOMAIN d : \A p \in DOMAIN Unpacked(d[s]) :
    Unpacked(d[s])[p].kind = "block" => Unpacked(d[s])[p].block.tree

WellFormed(d) ==
  /\ DOMAIN d \subseteq Nat \ {0}
  /\ \A s \in DOMAIN d : Readable(d[s])
  /\ \A s \in TextSubs(d) : Addressable(Block(d, s))
  /\ CopiesAgree(d)
  /\ TreesHold(d)

LEMMA DiscsAreWellFormed == ASSUME NEW d \in Discs PROVE WellFormed(d)
BY DiscAssumption DEF WellFormed, TreesHold

\* The body of a sub-block.
LEMMA BodyIs ==
  ASSUME NEW d, WellFormed(d), NEW s \in DOMAIN d
  PROVE  /\ Len(Unpacked(d[s])) \in Nat /\ DOMAIN Unpacked(d[s]) = 1 .. Len(Unpacked(d[s]))
         /\ \A p \in DOMAIN Unpacked(d[s]) : p \in Nat /\ p >= 1 /\ Unpacked(d[s])[p] \in Cells
<1>1. Unpacked(d[s]) \in Seq(Cells) BY DEF WellFormed, Readable
<1> HIDE DEF WellFormed
<1> QED BY <1>1

\* What a cell is.
LEMMA CellIs ==
  ASSUME NEW cell \in Cells
  PROVE  /\ cell.kind \in {"word", "block", "command"}
         /\ cell.kind = "word" => cell.word \in Nat /\ cell = [kind |-> "word", word |-> cell.word]
         /\ cell.kind = "block" => cell.block \in Blocks /\ cell = [kind |-> "block", block |-> cell.block]
<1>1. CASE cell \in [kind : {"word"}, word : Nat] BY <1>1
<1>2. CASE cell \in [kind : {"block"}, block : Blocks] BY <1>2
<1>3. CASE cell \in [kind : {"command"}] BY <1>3
<1> QED BY <1>1, <1>2, <1>3 DEF Cells

\* A text block by itself.
LEMMA TextIs ==
  ASSUME NEW d, WellFormed(d), NEW s \in TextSubs(d)
  PROVE  /\ s \in DOMAIN d /\ d[s].type \in TextTypes /\ ~d[s].lzs
         /\ DOMAIN Unpacked(d[s]) = {1} /\ Unpacked(d[s])[1].kind = "block"
         /\ Unpacked(d[s])[1].block = Block(d, s) /\ Block(d, s) \in Blocks
<1>1. s \in DOMAIN d /\ d[s].type \in TextTypes BY DEF TextSubs
<1>2. ~d[s].lzs /\ Len(d[s].raw) = 1 /\ d[s].raw[1].kind = "block" BY <1>1 DEF WellFormed, Readable
<1>3. Unpacked(d[s]) = d[s].raw BY <1>2 DEF Unpacked
<1>4. DOMAIN Unpacked(d[s]) = {1} BY <1>1, <1>2, <1>3, BodyIs
<1>5. d[s].raw[1] \in Cells BY <1>1, <1>3, <1>4, BodyIs
<1> QED BY <1>1, <1>2, <1>3, <1>4, <1>5, CellIs DEF Block

\* The block an index has for an id, and every copy, is that of its carrier.
LEMMA CarrierIs ==
  ASSUME NEW d, WellFormed(d)
  PROVE  /\ IndexOk(BlockIndex(d))
         /\ \A s \in TextSubs(d) :
              Block(d, s).id \in DOMAIN BlockIndex(d) /\ BlockIndex(d)[Block(d, s).id] = Block(d, s)
         /\ \A t \in DOMAIN BlockIndex(d) :
              Carrier(d, t) \in TextSubs(d) /\ Block(d, Carrier(d, t)).id = t
<1>1. ASSUME NEW t \in DOMAIN BlockIndex(d)
      PROVE  /\ Carrier(d, t) \in TextSubs(d) /\ Block(d, Carrier(d, t)).id = t
             /\ BlockIndex(d)[t] = Block(d, Carrier(d, t))
  <2> DEFINE S == {s \in TextSubs(d) : Block(d, s).id = t}
  <2>1. S # {} BY DEF BlockIndex
  <2>2. S \subseteq Nat BY DEF WellFormed, TextSubs
  <2>3. Carrier(d, t) \in S
    <3> HIDE DEF S
    <3>1. Least(S) \in S BY <2>1, <2>2, LeastIs
    <3> QED BY <3>1 DEF Carrier, S
  <2> QED BY <2>3 DEF BlockIndex
<1>2. ASSUME NEW s \in TextSubs(d)
      PROVE  /\ Block(d, s).id \in DOMAIN BlockIndex(d)
             /\ BlockIndex(d)[Block(d, s).id] = Block(d, s)
  <2>1. Block(d, s).id \in DOMAIN BlockIndex(d) BY DEF BlockIndex
  <2> DEFINE t == Block(d, s).id
  <2>2. Carrier(d, t) \in TextSubs(d) /\ Block(d, Carrier(d, t)).id = t
        /\ BlockIndex(d)[t] = Block(d, Carrier(d, t))
    BY <2>1, <1>1
  <2>3. CopiesAgree(d) BY DEF WellFormed
  <2>4. Block(d, Carrier(d, t)) = Block(d, s) BY <2>2, <2>3 DEF CopiesAgree
  <2> QED BY <2>1, <2>2, <2>4
<1>3. IndexOk(BlockIndex(d))
  <2>1. ASSUME NEW t \in DOMAIN BlockIndex(d)
        PROVE  /\ t \in Nat /\ BlockIndex(d)[t] \in Blocks /\ BlockIndex(d)[t].id = t
               /\ Addressable(BlockIndex(d)[t])
    <3>1. Block(d, Carrier(d, t)) \in Blocks BY <1>1, TextIs
    <3>2. Addressable(Block(d, Carrier(d, t))) BY <1>1 DEF WellFormed
    <3> QED BY <1>1, <3>1, <3>2 DEF Blocks
  <2> QED BY <2>1 DEF IndexOk
<1> QED BY <1>1, <1>2, <1>3

\* One archive has the cells of another, and its text blocks their frames.
Alike(b, d) ==
  /\ DOMAIN d = DOMAIN b
  /\ \A s \in DOMAIN b :
       /\ d[s].type = b[s].type /\ d[s].lzs = b[s].lzs
       /\ DOMAIN Unpacked(d[s]) = DOMAIN Unpacked(b[s])
       /\ \A p \in DOMAIN Unpacked(b[s]) :
            /\ Unpacked(d[s])[p].kind = Unpacked(b[s])[p].kind
            /\ Unpacked(b[s])[p].kind = "block" =>
                 Unpacked(d[s])[p].block.id = Unpacked(b[s])[p].block.id
  /\ \A s \in TextSubs(b) :
       /\ Block(d, s).c = Block(b, s).c /\ Block(d, s).entries = Block(b, s).entries
       /\ DOMAIN Block(d, s).strings = DOMAIN Block(b, s).strings
       /\ DOMAIN Block(d, s).tail = DOMAIN Block(b, s).tail

LEMMA AlikeTexts ==
  ASSUME NEW b, NEW d, WellFormed(b), WellFormed(d), Alike(b, d)
  PROVE  /\ TextSubs(d) = TextSubs(b)
         /\ \A s \in TextSubs(b) : Block(d, s).id = Block(b, s).id
         /\ DOMAIN BlockIndex(d) = DOMAIN BlockIndex(b)
         /\ \A t \in DOMAIN BlockIndex(b) :
              /\ Carrier(d, t) = Carrier(b, t)
              /\ BlockIndex(d)[t] = Block(d, Carrier(b, t)) /\ BlockIndex(b)[t] = Block(b, Carrier(b, t))
              /\ BlockIndex(d)[t].c = BlockIndex(b)[t].c
              /\ BlockIndex(d)[t].entries = BlockIndex(b)[t].entries
              /\ DOMAIN BlockIndex(d)[t].strings = DOMAIN BlockIndex(b)[t].strings
              /\ DOMAIN BlockIndex(d)[t].tail = DOMAIN BlockIndex(b)[t].tail
<1>1. TextSubs(d) = TextSubs(b) BY DEF Alike, TextSubs
<1>2. ASSUME NEW s \in TextSubs(b) PROVE Block(d, s).id = Block(b, s).id
  <2>1. DOMAIN Unpacked(b[s]) = {1} /\ Unpacked(b[s])[1].kind = "block"
        /\ Unpacked(b[s])[1].block = Block(b, s) /\ Unpacked(d[s])[1].block = Block(d, s)
        /\ s \in DOMAIN b
    BY <1>1, TextIs
  <2> QED BY <2>1 DEF Alike
<1>3. ASSUME NEW t PROVE Carrier(d, t) = Carrier(b, t)
  <2>1. {s \in TextSubs(d) : Block(d, s).id = t} = {s \in TextSubs(b) : Block(b, s).id = t}
    BY <1>1, <1>2
  <2> QED BY <2>1 DEF Carrier
<1>4. DOMAIN BlockIndex(d) = DOMAIN BlockIndex(b)
  <2>1. {Block(d, s).id : s \in TextSubs(d)} = {Block(b, s).id : s \in TextSubs(b)} BY <1>1, <1>2
  <2> QED BY <2>1 DEF BlockIndex
<1>5. ASSUME NEW t \in DOMAIN BlockIndex(b)
      PROVE  /\ BlockIndex(d)[t] = Block(d, Carrier(b, t)) /\ BlockIndex(b)[t] = Block(b, Carrier(b, t))
             /\ Carrier(b, t) \in TextSubs(b)
  <2>1. t \in DOMAIN BlockIndex(d) BY <1>4
  <2> QED BY <2>1, <1>3, CarrierIs DEF BlockIndex
<1>6. \A t \in DOMAIN BlockIndex(b) :
        /\ BlockIndex(d)[t].c = BlockIndex(b)[t].c
        /\ BlockIndex(d)[t].entries = BlockIndex(b)[t].entries
        /\ DOMAIN BlockIndex(d)[t].strings = DOMAIN BlockIndex(b)[t].strings
        /\ DOMAIN BlockIndex(d)[t].tail = DOMAIN BlockIndex(b)[t].tail
  BY <1>5 DEF Alike
<1> QED BY <1>1, <1>2, <1>3, <1>4, <1>5, <1>6

----------------------------------------------------------------------------
(* Slots. *)

FourSystems == {"LOOKUP", "TABLE", "ROSTER", "SCRIPT"}

LEMMA StoredIs ==
  ASSUME NEW d
  PROVE  /\ \A s \in DOMAIN d : \A p \in DOMAIN Unpacked(d[s]) :
              Followed(d, s, p) => <<s, p, 0>> \in Stored(d)
         /\ \A s \in TextSubs(d) : \A j \in DOMAIN Block(d, s).tail : <<s, 1, j>> \in Stored(d)
         /\ \A slot \in Stored(d) :
              \/ \E s \in DOMAIN d : \E p \in DOMAIN Unpacked(d[s]) :
                   slot = <<s, p, 0>> /\ Followed(d, s, p)
              \/ \E s \in TextSubs(d) : \E j \in DOMAIN Block(d, s).tail : slot = <<s, 1, j>>
<1> DEFINE A == FollowedWords(d)
           B == FollowedRecords(d)
<1>1. Stored(d) = A \cup B BY DEF Stored
<1>2. /\ \A s \in DOMAIN d : \A p \in DOMAIN Unpacked(d[s]) : Followed(d, s, p) => <<s, p, 0>> \in A
      /\ \A slot \in A : \E s \in DOMAIN d : \E p \in DOMAIN Unpacked(d[s]) :
                           slot = <<s, p, 0>> /\ Followed(d, s, p)
  BY DEF FollowedWords
<1>3. /\ \A s \in TextSubs(d) : \A j \in DOMAIN Block(d, s).tail : <<s, 1, j>> \in B
      /\ \A slot \in B : \E s \in TextSubs(d) : \E j \in DOMAIN Block(d, s).tail : slot = <<s, 1, j>>
  BY DEF FollowedRecords
<1> HIDE DEF A, B
<1> QED BY <1>1, <1>2, <1>3

\* What the game follows is the same in archives that are alike.
LEMMA StoredStays ==
  ASSUME NEW b, NEW d, WellFormed(b), WellFormed(d), Alike(b, d)
  PROVE  Stored(d) = Stored(b)
<1>1. TextSubs(d) = TextSubs(b) /\ DOMAIN d = DOMAIN b BY AlikeTexts DEF Alike
<1>2. ASSUME NEW s \in DOMAIN b
      PROVE  /\ DOMAIN Unpacked(d[s]) = DOMAIN Unpacked(b[s])
             /\ \A p \in DOMAIN Unpacked(b[s]) : Followed(d, s, p) <=> Followed(b, s, p)
  <2>1. /\ d[s].type = b[s].type /\ DOMAIN Unpacked(d[s]) = DOMAIN Unpacked(b[s])
        /\ \A p \in DOMAIN Unpacked(b[s]) : Unpacked(d[s])[p].kind = Unpacked(b[s])[p].kind
    BY DEF Alike
  <2>2. \A p \in DOMAIN Unpacked(b[s]) : p > 1 => p - 1 \in DOMAIN Unpacked(b[s]) BY BodyIs
  <2> QED BY <2>1, <2>2 DEF Followed, IsWord
<1>3. \A s \in TextSubs(b) : DOMAIN Block(d, s).tail = DOMAIN Block(b, s).tail BY DEF Alike
<1>4. ASSUME NEW slot \in Stored(d) PROVE slot \in Stored(b)
  BY <1>1, <1>2, <1>3, StoredIs
<1>5. ASSUME NEW slot \in Stored(b) PROVE slot \in Stored(d)
  BY <1>1, <1>2, <1>3, StoredIs
<1> QED BY <1>4, <1>5

\* The word of a slot is a number.
LEMMA WordIs ==
  ASSUME NEW d, WellFormed(d)
  PROVE  /\ \A s \in DOMAIN d : \A p \in DOMAIN Unpacked(d[s]) :
              IsWord(d, s, p) => /\ WordAt(d, <<s, p, 0>>) = Unpacked(d[s])[p].word
                                 /\ WordAt(d, <<s, p, 0>>) \in Nat
         /\ \A s \in TextSubs(d) : \A j \in DOMAIN Block(d, s).tail :
              WordAt(d, <<s, 1, j>>) = Block(d, s).tail[j] /\ WordAt(d, <<s, 1, j>>) \in Nat
<1>1. ASSUME NEW s \in DOMAIN d, NEW p \in DOMAIN Unpacked(d[s]), IsWord(d, s, p)
      PROVE  WordAt(d, <<s, p, 0>>) = Unpacked(d[s])[p].word /\ WordAt(d, <<s, p, 0>>) \in Nat
  <2>1. Unpacked(d[s])[p] \in Cells /\ Unpacked(d[s])[p].kind = "word" BY <1>1, BodyIs DEF IsWord
  <2>2. Unpacked(d[s])[p].word \in Nat BY <2>1, CellIs
  <2> QED BY <2>1, <2>2 DEF WordAt
<1>2. ASSUME NEW s \in TextSubs(d), NEW j \in DOMAIN Block(d, s).tail
      PROVE  WordAt(d, <<s, 1, j>>) = Block(d, s).tail[j] /\ WordAt(d, <<s, 1, j>>) \in Nat
  <2>1. Unpacked(d[s])[1].kind = "block" /\ Unpacked(d[s])[1].block = Block(d, s) /\ Block(d, s) \in Blocks
    BY TextIs
  <2>2. Block(d, s).tail \in Seq(Nat) BY <2>1 DEF Blocks
  <2>3. Block(d, s).tail[j] \in Nat BY <2>2
  <2> QED BY <2>1, <2>3 DEF WordAt
<1> QED BY <1>1, <1>2

\* What the four systems look at.
LEMMA SlotsAre ==
  ASSUME NEW d
  PROVE  /\ DOMAIN SlotsOf(d) = FourSystems
         /\ \A slot : slot \in SlotsOf(d)["LOOKUP"] <=>
              \E t \in DOMAIN BlockIndex(d) : \E j \in DOMAIN BlockIndex(d)[t].tail :
                slot = <<Carrier(d, t), 1, j>>
         /\ \A slot : slot \in SlotsOf(d)["TABLE"] <=>
              \E s \in Distinct(d, 26) : \E p \in DOMAIN Unpacked(d[s]) :
                slot = <<s, p, 0>> /\ (p - 1) % RecordWords < RefWords /\ IsWord(d, s, p)
         /\ \A slot : slot \in SlotsOf(d)["ROSTER"] <=>
              \E s \in Distinct(d, 44) : \E p \in DOMAIN Unpacked(d[s]) :
                slot = <<s, p, 0>> /\ IsWord(d, s, p)
         /\ \A slot : slot \in SlotsOf(d)["SCRIPT"] <=>
              \E s \in Distinct(d, 39) : \E p \in DOMAIN Unpacked(d[s]) :
                slot = <<s, p, 0>> /\ p > 1 /\ Unpacked(d[s])[p - 1].kind = "command" /\ IsWord(d, s, p)
<1>1. \A slot : slot \in LookupSlots(d) <=>
              \E t \in DOMAIN BlockIndex(d) : \E j \in DOMAIN BlockIndex(d)[t].tail :
                slot = <<Carrier(d, t), 1, j>>
  BY DEF LookupSlots
<1>2. \A slot : slot \in TableSlots(d) <=>
              \E s \in Distinct(d, 26) : \E p \in DOMAIN Unpacked(d[s]) :
                slot = <<s, p, 0>> /\ (p - 1) % RecordWords < RefWords /\ IsWord(d, s, p)
  BY DEF TableSlots
<1>3. \A slot : slot \in RosterSlots(d) <=>
              \E s \in Distinct(d, 44) : \E p \in DOMAIN Unpacked(d[s]) :
                slot = <<s, p, 0>> /\ IsWord(d, s, p)
  BY DEF RosterSlots
<1>4. \A slot : slot \in ScriptSlots(d) <=>
              \E s \in Distinct(d, 39) : \E p \in DOMAIN Unpacked(d[s]) :
                slot = <<s, p, 0>> /\ p > 1 /\ Unpacked(d[s])[p - 1].kind = "command" /\ IsWord(d, s, p)
  BY DEF ScriptSlots
<1>5. DOMAIN SlotsOf(d) = FourSystems /\ SlotsOf(d)["LOOKUP"] = LookupSlots(d)
      /\ SlotsOf(d)["TABLE"] = TableSlots(d) /\ SlotsOf(d)["ROSTER"] = RosterSlots(d)
      /\ SlotsOf(d)["SCRIPT"] = ScriptSlots(d)
  BY DEF SlotsOf, FourSystems
<1> QED BY <1>1, <1>2, <1>3, <1>4, <1>5

\* They look at nothing that the game does not follow.
LEMMA SlotsAreStored ==
  ASSUME NEW d, WellFormed(d), NEW system \in FourSystems, NEW slot \in SlotsOf(d)[system]
  PROVE  slot \in Stored(d)
<1>1. CASE system = "LOOKUP"
  <2>1. PICK t, j : t \in DOMAIN BlockIndex(d) /\ j \in DOMAIN BlockIndex(d)[t].tail /\ slot = <<Carrier(d, t), 1, j>>
    BY <1>1, SlotsAre
  <2>2. Carrier(d, t) \in TextSubs(d) /\ BlockIndex(d)[t] = Block(d, Carrier(d, t)) BY <2>1, CarrierIs
  <2> QED BY <2>1, <2>2, StoredIs
<1>2. CASE system = "TABLE"
  <2>1. PICK s, p : s \in Distinct(d, 26) /\ p \in DOMAIN Unpacked(d[s]) /\
          slot = <<s, p, 0>> /\ (p - 1) % RecordWords < RefWords /\ IsWord(d, s, p)
    BY <1>2, SlotsAre
  <2>2. s \in DOMAIN d /\ d[s].type = 26 BY <2>1 DEF Distinct
  <2>3. Followed(d, s, p) BY <2>1, <2>2 DEF Followed
  <2> QED BY <2>1, <2>2, <2>3, StoredIs
<1>3. CASE system = "ROSTER"
  <2>1. PICK s, p : s \in Distinct(d, 44) /\ p \in DOMAIN Unpacked(d[s]) /\ slot = <<s, p, 0>> /\ IsWord(d, s, p)
    BY <1>3, SlotsAre
  <2>2. s \in DOMAIN d /\ d[s].type = 44 BY <2>1 DEF Distinct
  <2>3. Followed(d, s, p) BY <2>1, <2>2 DEF Followed
  <2> QED BY <2>1, <2>2, <2>3, StoredIs
<1>4. CASE system = "SCRIPT"
  <2>1. PICK s, p : s \in Distinct(d, 39) /\ p \in DOMAIN Unpacked(d[s]) /\
          slot = <<s, p, 0>> /\ p > 1 /\ Unpacked(d[s])[p - 1].kind = "command" /\ IsWord(d, s, p)
    BY <1>4, SlotsAre
  <2>2. s \in DOMAIN d /\ d[s].type = 39 BY <2>1 DEF Distinct
  <2>3. Followed(d, s, p) BY <2>1, <2>2 DEF Followed
  <2> QED BY <2>1, <2>2, <2>3, StoredIs
<1> QED BY <1>1, <1>2, <1>3, <1>4 DEF FourSystems

\* Of the sub-blocks of one type and content the survey looks at the first.
LEMMA SurveyedIs ==
  ASSUME NEW d, WellFormed(d), NEW s \in DOMAIN d
  PROVE  /\ Surveyed(d, s) \in Distinct(d, d[s].type) /\ Surveyed(d, s) \in DOMAIN d
         /\ d[Surveyed(d, s)].type = d[s].type /\ Unpacked(d[Surveyed(d, s)]) = Unpacked(d[s])
<1> DEFINE S == {t \in DOMAIN d : d[t].type = d[s].type /\ Unpacked(d[t]) = Unpacked(d[s])}
           u == Surveyed(d, s)
<1>1. s \in S /\ DOMAIN d \subseteq Nat BY DEF WellFormed
<1>2. S \subseteq Nat /\ S # {} BY <1>1
<1>3. u \in S /\ \A t \in S : u <= t
  <2>1. u = Least(S) BY DEF Surveyed
  <2> HIDE DEF S, u
  <2> QED BY <2>1, <1>2, LeastIs
<1> HIDE DEF u
<1>4. ASSUME NEW t \in DOMAIN d, t < u, d[t].type = d[s].type, Unpacked(d[t]) = Unpacked(d[u]) PROVE FALSE
  <2>1. t \in S /\ t \in Nat /\ u \in Nat BY <1>1, <1>3, <1>4
  <2> QED BY <2>1, <1>3, <1>4
<1> QED BY <1>3, <1>4 DEF Distinct, u

\* Where the survey reads the word of a slot.
Source(d, slot) ==
  IF slot[1] \in TextSubs(d) THEN <<Carrier(d, Block(d, slot[1]).id), 1, slot[3]>>
  ELSE <<Surveyed(d, slot[1]), slot[2], 0>>

\* It reads every word the game follows.
LEMMA StoredIsRead ==
  ASSUME NEW d, WellFormed(d), NEW slot \in Stored(d)
  PROVE  /\ \E system \in FourSystems : Source(d, slot) \in SlotsOf(d)[system]
         /\ WordAt(d, Source(d, slot)) = WordAt(d, slot) /\ WordAt(d, slot) \in Nat
<1>1. CASE \E s \in DOMAIN d : \E p \in DOMAIN Unpacked(d[s]) : slot = <<s, p, 0>> /\ Followed(d, s, p)
  <2>1. PICK s, p : s \in DOMAIN d /\ p \in DOMAIN Unpacked(d[s]) /\ slot = <<s, p, 0>> /\ Followed(d, s, p) BY <1>1
  <2>2. IsWord(d, s, p) BY <2>1 DEF Followed
  <2>3. d[s].type \notin TextTypes BY <2>1 DEF Followed, TextTypes
  <2> DEFINE u == Surveyed(d, s)
  <2>4. Source(d, slot) = <<u, p, 0>> BY <2>1, <2>3 DEF Source, TextSubs
  <2>5. /\ u \in DOMAIN d /\ u \in Distinct(d, d[s].type) /\ d[u].type = d[s].type
        /\ Unpacked(d[u]) = Unpacked(d[s])
    BY <2>1, SurveyedIs
  <2> HIDE DEF u
  <2>6. IsWord(d, u, p) /\ p \in DOMAIN Unpacked(d[u]) BY <2>1, <2>2, <2>5 DEF IsWord
  <2>7. WordAt(d, <<u, p, 0>>) = WordAt(d, <<s, p, 0>>) /\ WordAt(d, <<s, p, 0>>) \in Nat
    BY <2>1, <2>2, <2>5, <2>6, WordIs
  <2>8. \E system \in FourSystems : <<u, p, 0>> \in SlotsOf(d)[system]
    <3>1. CASE d[s].type = 26 /\ (p - 1) % RecordWords < RefWords
      <4>1. <<u, p, 0>> \in SlotsOf(d)["TABLE"] BY <3>1, <2>5, <2>6, SlotsAre
      <4> QED BY <4>1 DEF FourSystems
    <3>2. CASE d[s].type = 44
      <4>1. <<u, p, 0>> \in SlotsOf(d)["ROSTER"] BY <3>2, <2>5, <2>6, SlotsAre
      <4> QED BY <4>1 DEF FourSystems
    <3>3. CASE d[s].type = 39 /\ p > 1 /\ Unpacked(d[s])[p - 1].kind = "command"
      <4>1. <<u, p, 0>> \in SlotsOf(d)["SCRIPT"] BY <3>3, <2>5, <2>6, SlotsAre
      <4> QED BY <4>1 DEF FourSystems
    <3> QED BY <3>1, <3>2, <3>3, <2>1 DEF Followed
  <2> QED BY <2>1, <2>4, <2>7, <2>8
<1>2. CASE \E s \in TextSubs(d) : \E j \in DOMAIN Block(d, s).tail : slot = <<s, 1, j>>
  <2>1. PICK s, j : s \in TextSubs(d) /\ j \in DOMAIN Block(d, s).tail /\ slot = <<s, 1, j>> BY <1>2
  <2> DEFINE t == Block(d, s).id
             u == Carrier(d, t)
  <2>2. t \in DOMAIN BlockIndex(d) /\ BlockIndex(d)[t] = Block(d, s) BY <2>1, CarrierIs
  <2>3. u \in TextSubs(d) /\ Block(d, u).id = t BY <2>2, CarrierIs
  <2>4. Block(d, u) = Block(d, s) BY <2>2, <2>3, CarrierIs
  <2>5. Source(d, slot) = <<u, 1, j>> BY <2>1 DEF Source
  <2>6. <<u, 1, j>> \in SlotsOf(d)["LOOKUP"]
    <3>1. j \in DOMAIN BlockIndex(d)[t].tail BY <2>1, <2>2
    <3> HIDE DEF t
    <3> QED BY <2>2, <3>1, SlotsAre
  <2>7. WordAt(d, <<u, 1, j>>) = WordAt(d, <<s, 1, j>>) /\ WordAt(d, <<s, 1, j>>) \in Nat
    <3>1. j \in DOMAIN Block(d, u).tail /\ u \in TextSubs(d) BY <2>1, <2>3, <2>4
    <3> HIDE DEF u
    <3> QED BY <2>1, <2>4, <3>1, WordIs
  <2> QED BY <2>1, <2>5, <2>6, <2>7 DEF FourSystems
<1> QED BY <1>1, <1>2, StoredIs

\* What the survey lists.
LEMMA BuildIs ==
  ASSUME NEW d, NEW x
  PROVE  /\ \A r \in Build(d, x) :
              /\ \E system \in FourSystems : r.slot \in SlotsOf(d)[system]
              /\ r.string \in Resolve(x, WordAt(d, r.slot))
         /\ \A system \in FourSystems : \A slot \in SlotsOf(d)[system] :
              \A string \in Resolve(x, WordAt(d, slot)) :
                \E r \in Build(d, x) : r.slot = slot /\ r.string = string
<1> DEFINE R(system, slot, string) == [slot |-> slot, system |-> system, string |-> string]
           Of(system, slot) == {R(system, slot, string) : string \in Resolve(x, WordAt(d, slot))}
           By(system) == UNION {Of(system, slot) : slot \in SlotsOf(d)[system]}
<1>1. DOMAIN SlotsOf(d) = FourSystems BY SlotsAre
<1>2. Build(d, x) = UNION {By(system) : system \in FourSystems} BY <1>1 DEF Build
<1>3. \A system, slot, string : R(system, slot, string).slot = slot /\ R(system, slot, string).string = string
  OBVIOUS
<1> HIDE DEF R
<1>4. ASSUME NEW r \in Build(d, x)
      PROVE  /\ \E system \in FourSystems : r.slot \in SlotsOf(d)[system]
             /\ r.string \in Resolve(x, WordAt(d, r.slot))
  <2>1. PICK system \in FourSystems : r \in By(system)
    <3> HIDE DEF By
    <3> QED BY <1>2
  <2>2. PICK slot \in SlotsOf(d)[system] : r \in Of(system, slot)
    <3> HIDE DEF Of
    <3> QED BY <2>1
  <2>3. PICK string \in Resolve(x, WordAt(d, slot)) : r = R(system, slot, string) BY <2>2
  <2> QED BY <2>3, <1>3
<1>5. ASSUME NEW system \in FourSystems, NEW slot \in SlotsOf(d)[system],
             NEW string \in Resolve(x, WordAt(d, slot))
      PROVE  \E r \in Build(d, x) : r.slot = slot /\ r.string = string
  <2>1. R(system, slot, string) \in By(system)
    <3>1. R(system, slot, string) \in Of(system, slot) OBVIOUS
    <3> HIDE DEF Of
    <3> QED BY <3>1
  <2>2. R(system, slot, string) \in Build(d, x)
    <3> HIDE DEF By
    <3> QED BY <2>1, <1>2
  <2> QED BY <2>2, <1>3
<1> QED BY <1>4, <1>5

----------------------------------------------------------------------------
(* Sound archives: what a build leaves in order for the next. *)

\* A string with symbols that no word the game follows names at first.
Protected(b, t, j) ==
  /\ t \in DOMAIN BlockIndex(b) /\ j \in DOMAIN BlockIndex(b)[t].strings
  /\ HasSymbols(BlockIndex(b)[t], j)
  /\ \A other \in Stored(b) : <<t, j>> \notin Named(b, other)

Sound(b, d) ==
  /\ WellFormed(d) /\ Alike(b, d)
  /\ \A slot \in Stored(b) : Named(b, slot) # {} => Named(d, slot) = Named(b, slot)
  /\ \A t, j : Protected(b, t, j) =>
       /\ HasSymbols(BlockIndex(d)[t], j)
       /\ \A k \in 1 .. j - 1 : BlockIndex(d)[t].strings[k] = BlockIndex(b)[t].strings[k]
       /\ \A slot \in Stored(b) : <<t, j>> \notin Named(d, slot)
  /\ \A s \in DOMAIN b : b[s].type = 0 =>
       \A p \in DOMAIN Unpacked(b[s]) : IsWord(b, s, p) => Unpacked(d[s])[p] = Unpacked(b[s])[p]

LEMMA BaseIsSound == ASSUME NEW b, WellFormed(b) PROVE Sound(b, b)
<1>1. Alike(b, b) BY DEF Alike
<1>2. \A t, j : Protected(b, t, j) =>
       /\ HasSymbols(BlockIndex(b)[t], j)
       /\ \A slot \in Stored(b) : <<t, j>> \notin Named(b, slot)
  BY DEF Protected
<1> QED BY <1>1, <1>2 DEF Sound

\* A string that begins where it did is named by the word that named it.
LEMMA StillNamed ==
  ASSUME NEW b, NEW d, WellFormed(b), WellFormed(d), Alike(b, d), NEW t \in DOMAIN BlockIndex(b),
         NEW j \in DOMAIN BlockIndex(b)[t].strings,
         \A k \in 1 .. j - 1 : BlockIndex(d)[t].strings[k] = BlockIndex(b)[t].strings[k], NEW w
  PROVE  Names(BlockIndex(b), w, t, j) <=> Names(BlockIndex(d), w, t, j)
<1> DEFINE x == BlockIndex(b)[t]
           y == BlockIndex(d)[t]
<1>1. /\ t \in DOMAIN BlockIndex(d) /\ y.c = x.c /\ DOMAIN y.strings = DOMAIN x.strings
  BY AlikeTexts
<1>2. x \in Blocks /\ y \in Blocks BY <1>1, CarrierIs DEF IndexOk
<1> HIDE DEF x, y
<1>3. /\ Len(x.strings) \in Nat /\ DOMAIN x.strings = 1 .. Len(x.strings)
      /\ Len(y.strings) \in Nat /\ DOMAIN y.strings = 1 .. Len(y.strings)
  BY <1>2, StartsAre
<1>4. Len(y.strings) = Len(x.strings) BY <1>1, <1>3
<1>5. j \in 1 .. Len(x.strings) BY <1>3 DEF x
<1>6. j \in 1 .. Len(x.strings) + 1 /\ j <= Len(y.strings) + 1 BY <1>3, <1>4, <1>5
<1>7. \A k \in 1 .. j - 1 : x.strings[k] = y.strings[k] BY DEF x, y
<1>8. Starts(x)[j] = Starts(y)[j] BY <1>2, <1>6, <1>7, StartsAgree
<1> QED BY <1>1, <1>8 DEF Names, x, y

\* A hidden word of a sound archive names what it named, if that is protected.
LEMMA HiddenStays ==
  ASSUME NEW b, NEW d, WellFormed(b), Sound(b, d), NEW slot \in Hidden(b), NEW string \in Named(b, slot),
         HasSymbols(BlockIndex(b)[string[1]], string[2]),
         \A other \in Stored(b) : string \notin Named(b, other)
  PROVE  Named(d, slot) = Named(b, slot)
<1>1. PICK s, p : /\ s \in DOMAIN b /\ b[s].type = 0 /\ p \in DOMAIN Unpacked(b[s]) /\ IsWord(b, s, p)
                  /\ slot = <<s, p, 0>>
  BY DEF Hidden
<1>2. WellFormed(d) /\ Alike(b, d) /\ Unpacked(d[s])[p] = Unpacked(b[s])[p] BY <1>1 DEF Sound
<1> DEFINE w == WordAt(b, slot)
           t == string[1]
           j == string[2]
<1>3. WordAt(d, slot) = w BY <1>1, <1>2 DEF WordAt, IsWord
<1>4. string = <<t, j>> /\ Names(BlockIndex(b), w, t, j) BY ResolveIs DEF Named
<1>5. t \in DOMAIN BlockIndex(b) /\ j \in DOMAIN BlockIndex(b)[t].strings BY <1>4 DEF Names
<1> HIDE DEF w, t, j
<1>6. Protected(b, t, j) BY <1>4, <1>5 DEF Protected, t, j
<1>7. \A k \in 1 .. j - 1 : BlockIndex(d)[t].strings[k] = BlockIndex(b)[t].strings[k]
  BY <1>6 DEF Sound
<1>8. Names(BlockIndex(d), w, t, j) BY <1>2, <1>4, <1>5, <1>7, StillNamed
<1>9. IndexOk(BlockIndex(b)) /\ IndexOk(BlockIndex(d)) BY <1>2, CarrierIs
<1>10. Resolve(BlockIndex(b), w) = {<<t, j>>} /\ Resolve(BlockIndex(d), w) = {<<t, j>>}
  BY <1>4, <1>8, <1>9, ResolveOne
<1> QED BY <1>3, <1>10 DEF Named, w

----------------------------------------------------------------------------
(* What a build writes. *)

\* The survey of the archive, and an edit it allows.
Listing == WellFormed(disc) /\ index = BlockIndex(disc) /\ refs = Build(disc, index)

EditIs(tid, i, string) ==
  /\ tid \in DOMAIN index /\ i \in DOMAIN index[tid].strings /\ string \in NewStrings
  /\ Editable(tid, i)
  /\ Addressable([index[tid] EXCEPT !.strings = [@ EXCEPT ![i] = string]])
  /\ edited = [t \in {tid} |-> [index[tid].strings EXCEPT ![i] = string]]

\* A block with other strings is a block.
LEMMA WithStrings ==
  ASSUME NEW block \in Blocks, NEW strings \in Seq(Seq(Symbols))
  PROVE  /\ [block EXCEPT !.strings = strings] \in Blocks
         /\ [block EXCEPT !.strings = strings].id = block.id
         /\ [block EXCEPT !.strings = strings].c = block.c
         /\ [block EXCEPT !.strings = strings].strings = strings
         /\ [block EXCEPT !.strings = strings].entries = block.entries
         /\ [block EXCEPT !.strings = strings].tail = block.tail
         /\ [block EXCEPT !.strings = strings].tree = block.tree
BY DEF Blocks

LEMMA WithTail ==
  ASSUME NEW block \in Blocks, NEW tail \in Seq(Nat)
  PROVE  /\ [block EXCEPT !.tail = tail] \in Blocks
         /\ [block EXCEPT !.tail = tail].id = block.id
         /\ [block EXCEPT !.tail = tail].c = block.c
         /\ [block EXCEPT !.tail = tail].strings = block.strings
         /\ [block EXCEPT !.tail = tail].entries = block.entries
         /\ [block EXCEPT !.tail = tail].tail = tail
         /\ [block EXCEPT !.tail = tail].tree = block.tree
BY DEF Blocks

LEMMA NewIs ==
  ASSUME Listing, NEW tid, NEW i, NEW string, EditIs(tid, i, string), NEW t \in DOMAIN index
  PROVE  /\ index[t] \in Blocks /\ index[t].id = t /\ t \in Nat
         /\ New(t) \in Blocks /\ New(t).id = t /\ New(t).c = index[t].c
         /\ New(t).entries = index[t].entries /\ New(t).tail = index[t].tail
         /\ New(t).tree = index[t].tree /\ DOMAIN New(t).strings = DOMAIN index[t].strings
         /\ Addressable(New(t))
         /\ t # tid => New(t) = index[t]
         /\ t = tid => New(t).strings = [index[t].strings EXCEPT ![i] = string]
<1>1. IndexOk(index) BY CarrierIs DEF Listing
<1>2. index[t] \in Blocks /\ index[t].id = t /\ t \in Nat /\ Addressable(index[t]) BY <1>1 DEF IndexOk
<1>3. CASE t # tid
  <2>1. New(t) = index[t] BY <1>3 DEF New, EditIs
  <2> QED BY <2>1, <1>2, <1>3
<1>4. CASE t = tid
  <2> DEFINE strings == [index[t].strings EXCEPT ![i] = string]
  <2>1. New(t) = [index[t] EXCEPT !.strings = strings] BY <1>4 DEF New, EditIs
  <2>2. index[t].strings \in Seq(Seq(Symbols)) BY <1>2 DEF Blocks
  <2>3. string \in Seq(Symbols) /\ i \in DOMAIN index[t].strings BY <1>4, EditAssumption DEF EditIs
  <2>4. strings \in Seq(Seq(Symbols)) /\ DOMAIN strings = DOMAIN index[t].strings BY <2>2, <2>3
  <2>5. [index[t] EXCEPT !.strings = strings] = [index[t] EXCEPT !.strings = [@ EXCEPT ![i] = string]]
    BY <1>2
  <2>6. Addressable(New(t)) BY <2>1, <2>5, <1>4 DEF EditIs
  <2> HIDE DEF strings
  <2>7. /\ New(t) \in Blocks /\ New(t).id = t /\ New(t).c = index[t].c
        /\ New(t).entries = index[t].entries /\ New(t).tail = index[t].tail
        /\ New(t).tree = index[t].tree /\ New(t).strings = strings
    BY <2>1, <2>4, <1>2, WithStrings
  <2> QED BY <1>2, <1>4, <2>4, <2>6, <2>7 DEF strings
<1> QED BY <1>3, <1>4

\* A word the survey has listed comes to be that of the string it names; any other stays.
LEMMA RepointedIs ==
  ASSUME Listing, NEW tid, NEW i, NEW string, EditIs(tid, i, string), NEW slot, NEW w \in Nat
  PROVE  /\ Repointed(slot, w) \in Nat
         /\ (\A r \in refs : r.slot # slot) => Repointed(slot, w) = w
         /\ (\E r \in refs : r.slot = slot) =>
              \E t \in DOMAIN index : \E j \in DOMAIN index[t].strings :
                /\ Names(index, WordAt(disc, slot), t, j)
                /\ Repointed(slot, w) = t * Span + New(t).c + Starts(New(t))[j]
<1>1. CASE \A r \in refs : r.slot # slot BY <1>1 DEF Repointed
<1>2. CASE \E r \in refs : r.slot = slot
  <2> DEFINE r == CHOOSE r \in refs : r.slot = slot
             t == r.string[1]
             j == r.string[2]
             x == [u \in DOMAIN index |-> New(u)]
  <2>1. r \in refs /\ r.slot = slot BY <1>2
  <2>2. Repointed(slot, w) = t * Span + New(t).c + Starts(New(t))[j] BY <1>2 DEF Repointed
  <2> HIDE DEF r
  <2>3. r.string \in Resolve(index, WordAt(disc, slot)) BY <2>1, BuildIs DEF Listing
  <2>4. Names(index, WordAt(disc, slot), t, j) BY <2>3, ResolveIs
  <2> HIDE DEF t, j
  <2>5. t \in DOMAIN index /\ j \in DOMAIN index[t].strings BY <2>4 DEF Names
  <2>6. IndexOk(x)
    <3>1. \A u \in DOMAIN index : u \in Nat /\ New(u) \in Blocks /\ New(u).id = u /\ Addressable(New(u))
      BY NewIs
    <3> QED BY <3>1 DEF IndexOk
  <2>7. t \in DOMAIN x /\ x[t] = New(t) /\ j \in DOMAIN x[t].strings BY <2>5, NewIs
  <2> HIDE DEF x
  <2>8. t * Span + x[t].c + Starts(x[t])[j] \in Nat BY <2>6, <2>7, WordNames
  <2> QED BY <1>2, <2>2, <2>4, <2>5, <2>7, <2>8
<1> QED BY <1>1, <1>2

\* A block as the build has it.
LEMMA NewBlockIs ==
  ASSUME Listing, NEW tid, NEW i, NEW string, EditIs(tid, i, string), NEW t \in DOMAIN index
  PROVE  /\ NewBlock(t) \in Blocks /\ NewBlock(t).id = t /\ NewBlock(t).c = index[t].c
         /\ NewBlock(t).strings = New(t).strings /\ NewBlock(t).entries = index[t].entries
         /\ NewBlock(t).tree = index[t].tree /\ DOMAIN NewBlock(t).tail = DOMAIN index[t].tail
         /\ \A j \in DOMAIN index[t].tail :
              NewBlock(t).tail[j] = Repointed(<<Carrier(disc, t), 1, j>>, index[t].tail[j])
         /\ \A k \in 1 .. Len(New(t).strings) + 1 : Starts(NewBlock(t))[k] = Starts(New(t))[k]
         /\ Addressable(NewBlock(t))
<1> DEFINE tail == [j \in DOMAIN New(t).tail |-> Repointed(<<Carrier(disc, t), 1, j>>, New(t).tail[j])]
<1>1. /\ New(t) \in Blocks /\ New(t).id = t /\ New(t).c = index[t].c
      /\ New(t).entries = index[t].entries /\ New(t).tail = index[t].tail
      /\ New(t).tree = index[t].tree /\ Addressable(New(t))
  BY NewIs
<1>2. New(t).tail \in Seq(Nat) BY <1>1 DEF Blocks
<1>3. \A j \in DOMAIN New(t).tail : tail[j] \in Nat
  <2>1. ASSUME NEW j \in DOMAIN New(t).tail PROVE tail[j] \in Nat
    <3>1. New(t).tail[j] \in Nat BY <1>2
    <3>2. Repointed(<<Carrier(disc, t), 1, j>>, New(t).tail[j]) \in Nat BY <3>1, RepointedIs
    <3> QED BY <3>2
  <2> QED BY <2>1
<1>4. tail \in Seq(Nat)
  <2>1. DOMAIN tail = 1 .. Len(New(t).tail) /\ Len(New(t).tail) \in Nat BY <1>2
  <2>2. tail \in [1 .. Len(New(t).tail) -> Nat] BY <1>3, <2>1
  <2> HIDE DEF tail
  <2> QED BY <2>1, <2>2
<1>5. DOMAIN tail = DOMAIN index[t].tail
      /\ \A j \in DOMAIN index[t].tail : tail[j] = Repointed(<<Carrier(disc, t), 1, j>>, index[t].tail[j])
  BY <1>1
<1>6. NewBlock(t) = [New(t) EXCEPT !.tail = tail] BY DEF NewBlock
<1> HIDE DEF tail
<1>7. /\ NewBlock(t) \in Blocks /\ NewBlock(t).id = t /\ NewBlock(t).c = index[t].c
      /\ NewBlock(t).strings = New(t).strings /\ NewBlock(t).entries = index[t].entries
      /\ NewBlock(t).tree = index[t].tree /\ NewBlock(t).tail = tail
  BY <1>1, <1>4, <1>6, WithTail
<1>8. \A k \in 1 .. Len(New(t).strings) + 1 : Starts(NewBlock(t))[k] = Starts(New(t))[k]
  <2>1. ASSUME NEW k \in 1 .. Len(New(t).strings) + 1 PROVE Starts(NewBlock(t))[k] = Starts(New(t))[k]
    <3>1. k \in 1 .. Len(NewBlock(t).strings) + 1 /\ k <= Len(New(t).strings) + 1
          /\ \A l \in 1 .. k - 1 : NewBlock(t).strings[l] = New(t).strings[l]
      <4>1. Len(New(t).strings) \in Nat BY <1>1, StartsAre
      <4> QED BY <1>7, <4>1
    <3> QED BY <3>1, <1>1, <1>7, StartsAgree
  <2> QED BY <2>1
<1>9. Addressable(NewBlock(t))
  <2>1. Len(New(t).strings) \in Nat BY <1>1, StartsAre
  <2>2. Len(New(t).strings) + 1 \in 1 .. Len(New(t).strings) + 1 BY <2>1
  <2> QED BY <2>2, <1>1, <1>7, <1>8 DEF Addressable
<1> QED BY <1>5, <1>7, <1>8, <1>9

\* A body as the build has it: the same cells, with other blocks and words.
LEMMA NewBodyIs ==
  ASSUME Listing, NEW tid, NEW i, NEW string, EditIs(tid, i, string), NEW s \in DOMAIN disc
  PROVE  /\ NewBody(s) \in Seq(Cells) /\ DOMAIN NewBody(s) = DOMAIN Unpacked(disc[s])
         /\ \A p \in DOMAIN Unpacked(disc[s]) :
              /\ NewBody(s)[p].kind = Unpacked(disc[s])[p].kind
              /\ Unpacked(disc[s])[p].kind = "word" =>
                   NewBody(s)[p] = [kind |-> "word",
                     word |-> Repointed(<<Surveyed(disc, s), p, 0>>, Unpacked(disc[s])[p].word)]
              /\ Unpacked(disc[s])[p].kind = "block" =>
                   /\ NewBody(s)[p].block.id = Unpacked(disc[s])[p].block.id
                   /\ NewBody(s)[p].block.tree
                   /\ Unpacked(disc[s])[p].block.id \in DOMAIN index =>
                        NewBody(s)[p].block = NewBlock(Unpacked(disc[s])[p].block.id)
<1> DEFINE body == Unpacked(disc[s])
<1>1. /\ Len(body) \in Nat /\ DOMAIN body = 1 .. Len(body) /\ \A p \in DOMAIN body : body[p] \in Cells
  BY BodyIs DEF Listing
<1>2. DOMAIN NewBody(s) = DOMAIN body BY DEF NewBody
<1>3. ASSUME NEW p \in DOMAIN body
      PROVE  /\ NewBody(s)[p] \in Cells /\ NewBody(s)[p].kind = body[p].kind
             /\ body[p].kind = "word" =>
                  NewBody(s)[p] = [kind |-> "word",
                    word |-> Repointed(<<Surveyed(disc, s), p, 0>>, body[p].word)]
             /\ body[p].kind = "block" =>
                  /\ NewBody(s)[p].block.id = body[p].block.id /\ NewBody(s)[p].block.tree
                  /\ body[p].block.id \in DOMAIN index => NewBody(s)[p].block = NewBlock(body[p].block.id)
  <2> DEFINE cell == body[p]
             t == cell.block.id
             w == Repointed(<<Surveyed(disc, s), p, 0>>, cell.word)
  <2>1. NewBody(s)[p] = CASE cell.kind = "block" /\ cell.block.id \in DOMAIN index ->
                               [cell EXCEPT !.block = NewBlock(@.id)]
                          [] cell.kind = "word" -> [cell EXCEPT !.word = Repointed(<<Surveyed(disc, s), p, 0>>, @)]
                          [] OTHER -> cell
    BY DEF NewBody
  <2>2. /\ cell \in Cells /\ cell.kind \in {"word", "block", "command"}
        /\ cell.kind = "word" => cell.word \in Nat /\ cell = [kind |-> "word", word |-> cell.word]
        /\ cell.kind = "block" => cell.block \in Blocks /\ cell = [kind |-> "block", block |-> cell.block]
    BY <1>1, CellIs
  <2>3. cell.kind = "block" => cell.block.tree BY DEF Listing, WellFormed, TreesHold
  <2> HIDE DEF body
  <2>4. CASE cell.kind = "block" /\ t \in DOMAIN index
    <3>1. NewBody(s)[p] = [kind |-> "block", block |-> NewBlock(t)]
      <4>1. NewBody(s)[p] = [cell EXCEPT !.block = NewBlock(@.id)] BY <2>1, <2>4
      <4>2. [cell EXCEPT !.block = NewBlock(@.id)] = [kind |-> "block", block |-> NewBlock(t)]
        BY <2>2, <2>4
      <4> QED BY <4>1, <4>2
    <3>2. NewBlock(t) \in Blocks /\ NewBlock(t).id = t /\ NewBlock(t).tree = index[t].tree
      BY <2>4, NewBlockIs
    <3>3. index[t].tree
      <4>1. Carrier(disc, t) \in TextSubs(disc) /\ index[t] = Block(disc, Carrier(disc, t))
        BY <2>4, CarrierIs DEF Listing
      <4>2. /\ Carrier(disc, t) \in DOMAIN disc /\ DOMAIN Unpacked(disc[Carrier(disc, t)]) = {1}
            /\ Unpacked(disc[Carrier(disc, t)])[1].kind = "block"
            /\ Unpacked(disc[Carrier(disc, t)])[1].block = Block(disc, Carrier(disc, t))
        BY <4>1, TextIs DEF Listing
      <4> QED BY <4>1, <4>2 DEF Listing, WellFormed, TreesHold
    <3>4. NewBody(s)[p] \in Cells BY <3>1, <3>2 DEF Cells
    <3>5. NewBlock(t).tree BY <3>2, <3>3, Zenon
    <3>6. NewBody(s)[p].kind = "block" /\ NewBody(s)[p].block = NewBlock(t) BY <3>1
    <3>7. NewBody(s)[p].block.tree BY <3>5, <3>6, Zenon
    <3> QED BY <2>4, <3>2, <3>4, <3>6, <3>7
  <2>5. CASE cell.kind = "word"
    <3>1. NewBody(s)[p] = [kind |-> "word", word |-> w]
      <4>1. NewBody(s)[p] = [cell EXCEPT !.word = Repointed(<<Surveyed(disc, s), p, 0>>, @)] BY <2>1, <2>5
      <4>2. [cell EXCEPT !.word = Repointed(<<Surveyed(disc, s), p, 0>>, @)] = [kind |-> "word", word |-> w]
        BY <2>2, <2>5
      <4> QED BY <4>1, <4>2
    <3>2. w \in Nat BY <2>2, <2>5, RepointedIs
    <3>3. NewBody(s)[p] \in Cells BY <3>1, <3>2 DEF Cells
    <3> QED BY <2>5, <3>1, <3>3
  <2>6. CASE ~(cell.kind = "block" /\ t \in DOMAIN index) /\ cell.kind # "word"
    <3>1. NewBody(s)[p] = cell BY <2>1, <2>6
    <3> QED BY <2>2, <2>3, <2>6, <3>1
  <2> QED BY <2>4, <2>5, <2>6
<1> HIDE DEF body
<1>4. NewBody(s) \in Seq(Cells)
  <2>1. NewBody(s) = [p \in 1 .. Len(body) |-> NewBody(s)[p]] BY <1>1, <1>2 DEF NewBody, body
  <2>2. NewBody(s) \in [1 .. Len(body) -> Cells] BY <2>1, <1>1, <1>3
  <2> QED BY <2>2, <1>1
<1> QED BY <1>2, <1>3, <1>4 DEF body

\* The archive as a build leaves it when nothing goes wrong.
Written == [s \in DOMAIN disc |-> Left(s, NoDamage)]

\* A sub-block with another body is what its header says.
Rewritten(sub, body) == [sub EXCEPT !.raw = IF sub.lzs THEN <<[kind |-> "lzs", of |-> body]>> ELSE body]

LEMMA RewrittenIs ==
  ASSUME NEW sub, NEW body \in Seq(Cells), Readable(sub),
         sub.type \in TextTypes => Len(body) = 1 /\ body[1].kind = "block"
  PROVE  /\ Rewritten(sub, body).type = sub.type /\ Rewritten(sub, body).lzs = sub.lzs
         /\ Unpacked(Rewritten(sub, body)) = body
         /\ Rewritten(sub, body).lzs => Rewritten(sub, body).raw[1].kind = "lzs"
         /\ Readable(Rewritten(sub, body))
<1> DEFINE new == Rewritten(sub, body)
           raw == IF sub.lzs THEN <<[kind |-> "lzs", of |-> body]>> ELSE body
<1>1. DOMAIN sub = {"type", "lzs", "raw"} BY DEF Readable
<1>2. /\ DOMAIN new = {"type", "lzs", "raw"} /\ new.type = sub.type /\ new.lzs = sub.lzs /\ new.raw = raw
  BY <1>1 DEF Rewritten
<1> HIDE DEF new
<1>3. Unpacked(new) = body BY <1>2 DEF Unpacked
<1>4. new.lzs => Len(new.raw) = 1 /\ new.raw[1].kind = "lzs" BY <1>2
<1>5. new.type \in TextTypes => ~new.lzs /\ Len(new.raw) = 1 /\ new.raw[1].kind = "block"
  BY <1>2 DEF Readable
<1>6. Readable(new) BY <1>2, <1>3, <1>4, <1>5 DEF Readable
<1> QED BY <1>2, <1>3, <1>4, <1>6 DEF new

LEMMA WrittenIs ==
  ASSUME Listing, NEW tid, NEW i, NEW string, EditIs(tid, i, string)
  PROVE  /\ DOMAIN Written = DOMAIN disc
         /\ \A s \in DOMAIN disc :
              /\ Written[s] = Rewritten(disc[s], NewBody(s))
              /\ Written[s].type = disc[s].type /\ Written[s].lzs = disc[s].lzs
              /\ Unpacked(Written[s]) = NewBody(s) /\ Readable(Written[s])
<1>1. DOMAIN Written = DOMAIN disc BY DEF Written
<1>2. ASSUME NEW s \in DOMAIN disc
      PROVE  /\ Written[s] = Rewritten(disc[s], NewBody(s))
             /\ Written[s].type = disc[s].type /\ Written[s].lzs = disc[s].lzs
             /\ Unpacked(Written[s]) = NewBody(s) /\ Readable(Written[s])
  <2>1. Written[s] = Rewritten(disc[s], NewBody(s)) BY DEF Written, Left, NoDamage, Rewritten
  <2>2. NewBody(s) \in Seq(Cells) /\ Readable(disc[s]) BY NewBodyIs DEF Listing, WellFormed
  <2>3. disc[s].type \in TextTypes => Len(NewBody(s)) = 1 /\ NewBody(s)[1].kind = "block"
    <3> SUFFICES ASSUME disc[s].type \in TextTypes PROVE Len(NewBody(s)) = 1 /\ NewBody(s)[1].kind = "block"
      OBVIOUS
    <3>1. s \in TextSubs(disc) BY DEF TextSubs
    <3>2. DOMAIN Unpacked(disc[s]) = {1} /\ Unpacked(disc[s])[1].kind = "block" BY <3>1, TextIs DEF Listing
    <3>3. DOMAIN NewBody(s) = {1} /\ NewBody(s)[1].kind = "block" BY <3>2, NewBodyIs
    <3> QED BY <2>2, <3>3
  <2> QED BY <2>1, <2>2, <2>3, RewrittenIs
<1> QED BY <1>1, <1>2

\* The text blocks of it.
LEMMA WrittenTexts ==
  ASSUME Listing, NEW tid, NEW i, NEW string, EditIs(tid, i, string)
  PROVE  /\ TextSubs(Written) = TextSubs(disc)
         /\ \A s \in TextSubs(disc) : Block(Written, s) = NewBlock(Block(disc, s).id)
         /\ WellFormed(Written) /\ Alike(disc, Written)
         /\ DOMAIN BlockIndex(Written) = DOMAIN index
         /\ \A t \in DOMAIN index : BlockIndex(Written)[t] = NewBlock(t)
<1>0. WellFormed(disc) /\ index = BlockIndex(disc) BY DEF Listing
<1>1. TextSubs(Written) = TextSubs(disc) BY WrittenIs DEF TextSubs
<1>2. ASSUME NEW s \in TextSubs(disc)
      PROVE  /\ Block(Written, s) = NewBlock(Block(disc, s).id) /\ Block(disc, s).id \in DOMAIN index
             /\ index[Block(disc, s).id] = Block(disc, s) /\ s \in DOMAIN disc
  <2>1. /\ s \in DOMAIN disc /\ ~disc[s].lzs /\ DOMAIN Unpacked(disc[s]) = {1}
        /\ Unpacked(disc[s])[1].kind = "block" /\ Unpacked(disc[s])[1].block = Block(disc, s)
    BY <1>0, TextIs
  <2>2. Block(disc, s).id \in DOMAIN index /\ index[Block(disc, s).id] = Block(disc, s)
    BY <1>0, CarrierIs
  <2>3. Unpacked(Written[s])[1].block = NewBlock(Block(disc, s).id)
    <3>1. Unpacked(Written[s]) = NewBody(s) BY <2>1, WrittenIs
    <3>2. 1 \in DOMAIN Unpacked(disc[s]) BY <2>1
    <3>3. NewBody(s)[1].block = NewBlock(Unpacked(disc[s])[1].block.id)
      BY <2>1, <2>2, <3>2, NewBodyIs
    <3> QED BY <2>1, <3>1, <3>3
  <2>4. ~Written[s].lzs BY <2>1, WrittenIs
  <2>5. Unpacked(Written[s]) = Written[s].raw BY <2>4 DEF Unpacked
  <2> QED BY <2>1, <2>2, <2>3, <2>5 DEF Block
<1>3. ASSUME NEW s \in TextSubs(disc) PROVE Addressable(Block(Written, s))
  BY <1>2, NewBlockIs
<1>4. CopiesAgree(Written)
  <2> SUFFICES ASSUME NEW s \in TextSubs(disc), NEW t \in TextSubs(disc),
                      Block(Written, s).id = Block(Written, t).id
               PROVE  Block(Written, s) = Block(Written, t)
    BY <1>1 DEF CopiesAgree
  <2>1. Block(Written, s).id = Block(disc, s).id /\ Block(Written, t).id = Block(disc, t).id
    BY <1>2, NewBlockIs
  <2> QED BY <2>1, <1>2
<1>5. ASSUME NEW s \in DOMAIN disc
      PROVE  /\ Written[s].type = disc[s].type /\ Written[s].lzs = disc[s].lzs
             /\ DOMAIN Unpacked(Written[s]) = DOMAIN Unpacked(disc[s])
             /\ \A p \in DOMAIN Unpacked(disc[s]) :
                  /\ Unpacked(Written[s])[p].kind = Unpacked(disc[s])[p].kind
                  /\ Unpacked(disc[s])[p].kind = "block" =>
                       /\ Unpacked(Written[s])[p].block.id = Unpacked(disc[s])[p].block.id
                       /\ Unpacked(Written[s])[p].block.tree
  <2>1. Unpacked(Written[s]) = NewBody(s) BY WrittenIs
  <2>2. Written[s].type = disc[s].type /\ Written[s].lzs = disc[s].lzs BY WrittenIs
  <2>3. /\ DOMAIN NewBody(s) = DOMAIN Unpacked(disc[s])
        /\ \A p \in DOMAIN Unpacked(disc[s]) :
             /\ NewBody(s)[p].kind = Unpacked(disc[s])[p].kind
             /\ Unpacked(disc[s])[p].kind = "block" =>
                  /\ NewBody(s)[p].block.id = Unpacked(disc[s])[p].block.id
                  /\ NewBody(s)[p].block.tree
    BY NewBodyIs
  <2> QED BY <2>1, <2>2, <2>3, Zenon
<1>6. TreesHold(Written)
  <2>1. DOMAIN Written = DOMAIN disc BY WrittenIs
  <2> QED BY <1>5, <2>1 DEF TreesHold
<1>7. WellFormed(Written)
  <2>1. DOMAIN Written = DOMAIN disc /\ \A s \in DOMAIN disc : Readable(Written[s]) BY WrittenIs
  <2>2. DOMAIN disc \subseteq Nat \ {0} BY <1>0 DEF WellFormed
  <2> QED BY <2>1, <2>2, <1>1, <1>3, <1>4, <1>6 DEF WellFormed
<1>8. Alike(disc, Written)
  <2>1. ASSUME NEW s \in TextSubs(disc)
        PROVE  /\ Block(Written, s).c = Block(disc, s).c /\ Block(Written, s).entries = Block(disc, s).entries
               /\ DOMAIN Block(Written, s).strings = DOMAIN Block(disc, s).strings
               /\ DOMAIN Block(Written, s).tail = DOMAIN Block(disc, s).tail
    <3> DEFINE t == Block(disc, s).id
    <3>1. Block(Written, s) = NewBlock(t) /\ t \in DOMAIN index /\ index[t] = Block(disc, s) BY <1>2
    <3> HIDE DEF t
    <3>2. DOMAIN New(t).strings = DOMAIN index[t].strings BY <3>1, NewIs
    <3> QED BY <3>1, <3>2, NewBlockIs
  <2>2. DOMAIN Written = DOMAIN disc BY WrittenIs
  <2> QED BY <1>5, <2>1, <2>2 DEF Alike
<1>9. ASSUME NEW t \in DOMAIN index PROVE BlockIndex(Written)[t] = NewBlock(t)
  <2>1. BlockIndex(Written)[t] = Block(Written, Carrier(disc, t)) BY <1>0, <1>7, <1>8, AlikeTexts
  <2>2. Carrier(disc, t) \in TextSubs(disc) /\ Block(disc, Carrier(disc, t)).id = t BY <1>0, CarrierIs
  <2> QED BY <2>1, <2>2, <1>2
<1>10. DOMAIN BlockIndex(Written) = DOMAIN index BY <1>0, <1>7, <1>8, AlikeTexts
<1> QED BY <1>1, <1>2, <1>7, <1>8, <1>9, <1>10

\* Every word the game follows is written as its source in the survey is.
LEMMA WordWritten ==
  ASSUME Listing, NEW tid, NEW i, NEW string, EditIs(tid, i, string), NEW slot \in Stored(disc)
  PROVE  WordAt(Written, slot) = Repointed(Source(disc, slot), WordAt(disc, slot))
<1>0. WellFormed(disc) /\ WellFormed(Written) BY WrittenTexts DEF Listing
<1>1. CASE \E s \in DOMAIN disc : \E p \in DOMAIN Unpacked(disc[s]) : slot = <<s, p, 0>> /\ Followed(disc, s, p)
  <2>1. PICK s, p : s \in DOMAIN disc /\ p \in DOMAIN Unpacked(disc[s]) /\ slot = <<s, p, 0>> /\ Followed(disc, s, p)
    BY <1>1
  <2>2. IsWord(disc, s, p) /\ disc[s].type \notin TextTypes BY <2>1 DEF Followed, TextTypes
  <2>3. Source(disc, slot) = <<Surveyed(disc, s), p, 0>> BY <2>1, <2>2 DEF Source, TextSubs
  <2> DEFINE w == Repointed(<<Surveyed(disc, s), p, 0>>, Unpacked(disc[s])[p].word)
  <2>4. Unpacked(Written[s])[p] = [kind |-> "word", word |-> w]
    <3>1. Unpacked(Written[s]) = NewBody(s) BY <2>1, WrittenIs
    <3>2. Unpacked(disc[s])[p].kind = "word" BY <2>2 DEF IsWord
    <3> QED BY <2>1, <3>1, <3>2, NewBodyIs
  <2>5. WordAt(disc, slot) = Unpacked(disc[s])[p].word BY <2>1, <2>2, <1>0, WordIs
  <2>6. WordAt(Written, slot) = w
    <3> HIDE DEF w
    <3> QED BY <2>1, <2>4 DEF WordAt
  <2> QED BY <2>3, <2>5, <2>6
<1>2. CASE \E s \in TextSubs(disc) : \E j \in DOMAIN Block(disc, s).tail : slot = <<s, 1, j>>
  <2>1. PICK s, j : s \in TextSubs(disc) /\ j \in DOMAIN Block(disc, s).tail /\ slot = <<s, 1, j>> BY <1>2
  <2> DEFINE t == Block(disc, s).id
  <2>2. t \in DOMAIN index /\ index[t] = Block(disc, s) BY <2>1, <1>0, CarrierIs DEF Listing
  <2>3. Source(disc, slot) = <<Carrier(disc, t), 1, j>> BY <2>1 DEF Source
  <2>4. s \in TextSubs(Written) /\ Block(Written, s) = NewBlock(t) BY <2>1, WrittenTexts
  <2> HIDE DEF t
  <2>5. j \in DOMAIN index[t].tail BY <2>1, <2>2
  <2>6. /\ j \in DOMAIN Block(Written, s).tail
        /\ Block(Written, s).tail[j] = Repointed(<<Carrier(disc, t), 1, j>>, index[t].tail[j])
    BY <2>2, <2>4, <2>5, NewBlockIs
  <2>7. WordAt(Written, slot) = Block(Written, s).tail[j] /\ WordAt(disc, slot) = Block(disc, s).tail[j]
    BY <2>1, <2>4, <2>6, <1>0, WordIs
  <2> QED BY <2>2, <2>3, <2>6, <2>7
<1> QED BY <1>1, <1>2, StoredIs

\* A word that named a string names it still, and one that named none is not touched.
LEMMA WordKept ==
  ASSUME Listing, NEW tid, NEW i, NEW string, EditIs(tid, i, string), NEW slot \in Stored(disc)
  PROVE  \/ Named(disc, slot) # {} /\ Named(Written, slot) = Named(disc, slot)
         \/ Named(disc, slot) = {} /\ WordAt(Written, slot) = WordAt(disc, slot)
<1> DEFINE w == WordAt(disc, slot)
           source == Source(disc, slot)
<1>0. WellFormed(disc) /\ WellFormed(Written) /\ index = BlockIndex(disc) BY WrittenTexts DEF Listing
<1>1. /\ \E system \in FourSystems : source \in SlotsOf(disc)[system]
      /\ WordAt(disc, source) = w /\ w \in Nat
  BY <1>0, StoredIsRead
<1>2. WordAt(Written, slot) = Repointed(source, w) BY WordWritten
<1>3. Named(disc, slot) = Resolve(index, w) BY <1>0 DEF Named
<1> HIDE DEF w, source
<1>4. CASE \A r \in refs : r.slot # source
  <2>1. Repointed(source, w) = w BY <1>1, <1>4, RepointedIs
  <2>2. Resolve(index, w) = {}
    <3> SUFFICES ASSUME NEW named \in Resolve(index, w) PROVE FALSE OBVIOUS
    <3>1. \E r \in refs : r.slot = source BY <1>1, BuildIs DEF Listing
    <3> QED BY <3>1, <1>4
  <2> QED BY <1>2, <1>3, <2>1, <2>2 DEF w
<1>5. CASE \E r \in refs : r.slot = source
  <2>1. PICK t, j : /\ t \in DOMAIN index /\ j \in DOMAIN index[t].strings /\ Names(index, w, t, j)
                    /\ Repointed(source, w) = t * Span + New(t).c + Starts(New(t))[j]
    BY <1>1, <1>5, RepointedIs
  <2> DEFINE y == BlockIndex(Written)
  <2>2. t \in DOMAIN y /\ y[t] = NewBlock(t) BY <2>1, WrittenTexts
  <2>3. IndexOk(index) /\ IndexOk(y) BY <1>0, CarrierIs
  <2>4. /\ New(t) \in Blocks /\ DOMAIN New(t).strings = DOMAIN index[t].strings /\ New(t).c = index[t].c
    BY <2>1, NewIs
  <2>5. /\ NewBlock(t).c = index[t].c /\ NewBlock(t).strings = New(t).strings
        /\ \A k \in 1 .. Len(New(t).strings) + 1 : Starts(NewBlock(t))[k] = Starts(New(t))[k]
    BY <2>1, NewBlockIs
  <2>6. j \in DOMAIN y[t].strings BY <2>1, <2>2, <2>4, <2>5
  <2>7. Starts(y[t])[j] = Starts(New(t))[j] /\ y[t].c = New(t).c
    <3>1. DOMAIN New(t).strings = 1 .. Len(New(t).strings) /\ Len(New(t).strings) \in Nat BY <2>4, StartsAre
    <3>2. j \in 1 .. Len(New(t).strings) + 1 BY <2>1, <2>4, <3>1
    <3> QED BY <2>2, <2>4, <2>5, <3>2
  <2> HIDE DEF y
  <2>8. Names(y, t * Span + y[t].c + Starts(y[t])[j], t, j) BY <2>2, <2>3, <2>6, WordNames
  <2>9. Names(y, WordAt(Written, slot), t, j) BY <2>1, <2>7, <2>8, <1>2
  <2>10. Resolve(y, WordAt(Written, slot)) = {<<t, j>>} /\ Resolve(index, w) = {<<t, j>>}
    BY <2>1, <2>3, <2>9, ResolveOne
  <2>11. Named(Written, slot) = {<<t, j>>} BY <2>10 DEF Named, y
  <2> QED BY <1>3, <2>10, <2>11
<1> QED BY <1>4, <1>5

\* An edit that is allowed leaves the strings before one that is not resolved, and its symbols.
LEMMA EditSpares ==
  ASSUME Listing, NEW tid, NEW i, NEW string, EditIs(tid, i, string),
         NEW t \in DOMAIN index, NEW j \in Unresolved(t)
  PROVE  /\ j \in DOMAIN index[t].strings /\ j \in Nat
         /\ \A k \in 1 .. j - 1 : NewBlock(t).strings[k] = index[t].strings[k]
         /\ HasSymbols(NewBlock(t), j)
<1>1. /\ NewBlock(t).strings = New(t).strings /\ NewBlock(t).entries = index[t].entries
      /\ index[t] \in Blocks
  BY NewBlockIs, NewIs
<1>2. j \in DOMAIN index[t].strings /\ HasSymbols(index[t], j) BY DEF Unresolved
<1>3. Len(index[t].strings) \in Nat /\ DOMAIN index[t].strings = 1 .. Len(index[t].strings)
  BY <1>1, StartsAre
<1>4. j \in Nat BY <1>2, <1>3
<1>5. CASE t # tid
  <2>1. New(t) = index[t] BY <1>5 DEF New, EditIs
  <2>2. HasSymbols(NewBlock(t), j) BY <1>1, <1>2, <2>1 DEF HasSymbols, Expanded
  <2> QED BY <1>1, <1>2, <1>4, <2>1, <2>2
<1>6. CASE t = tid
  <2>1. NewBlock(t).strings = [index[t].strings EXCEPT ![i] = string] /\ i \in DOMAIN index[t].strings
    BY <1>1, <1>6, NewIs DEF EditIs
  <2>2. j <= i BY <1>6 DEF EditIs, Editable
  <2>3. i \in Nat BY <2>1, <1>3
  <2>4. ASSUME NEW k \in 1 .. j - 1 PROVE NewBlock(t).strings[k] = index[t].strings[k]
    <3>1. k # i BY <2>2, <2>3, <1>4
    <3> QED BY <3>1, <2>1
  <2>5. HasSymbols(NewBlock(t), j)
    <3>1. CASE i # j
      <4>1. NewBlock(t).strings[j] = index[t].strings[j] BY <3>1, <2>1
      <4> QED BY <4>1, <1>1, <1>2 DEF HasSymbols, Expanded
    <3>2. CASE i = j
      <4>1. NewBlock(t).strings[j] = string BY <3>2, <2>1
      <4>2. string \in Seq(Symbols) /\ \E k \in DOMAIN string : string[k].kind # "DICT"
        BY EditAssumption DEF EditIs
      <4>3. PICK k \in DOMAIN string : string[k].kind # "DICT" BY <4>2
      <4>4. string[k].kind \in {"SJIS", "CTRL"}
        <5>1. string[k] \in Symbols BY <4>2
        <5> QED BY <5>1, <4>3 DEF Symbols
      <4>5. string[k].kind \in Expanded(NewBlock(t), j) BY <4>1, <4>3 DEF Expanded
      <4> QED BY <4>4, <4>5 DEF HasSymbols
    <3> QED BY <3>1, <3>2
  <2> QED BY <1>2, <1>4, <2>4, <2>5
<1> QED BY <1>5, <1>6

\* A build upon a sound archive that goes right leaves a sound one.
LEMMA WrittenIsSound ==
  ASSUME NEW b, WellFormed(b), Sound(b, disc), Listing,
         NEW tid, NEW i, NEW string, EditIs(tid, i, string)
  PROVE  Sound(b, Written)
<1>0. WellFormed(disc) /\ Alike(b, disc) /\ index = BlockIndex(disc) BY DEF Sound, Listing
<1>1. WellFormed(Written) /\ Alike(disc, Written) BY WrittenTexts
<1>2. Stored(disc) = Stored(b) /\ TextSubs(disc) = TextSubs(b) BY <1>0, StoredStays, AlikeTexts
<1>3. Alike(b, Written)
  <2>1. DOMAIN Written = DOMAIN b /\ DOMAIN disc = DOMAIN b BY <1>0, <1>1 DEF Alike
  <2>2. ASSUME NEW s \in DOMAIN b
        PROVE  /\ Written[s].type = b[s].type /\ Written[s].lzs = b[s].lzs
               /\ DOMAIN Unpacked(Written[s]) = DOMAIN Unpacked(b[s])
               /\ \A p \in DOMAIN Unpacked(b[s]) :
                    /\ Unpacked(Written[s])[p].kind = Unpacked(b[s])[p].kind
                    /\ Unpacked(b[s])[p].kind = "block" =>
                         Unpacked(Written[s])[p].block.id = Unpacked(b[s])[p].block.id
    <3>1. /\ disc[s].type = b[s].type /\ disc[s].lzs = b[s].lzs
          /\ DOMAIN Unpacked(disc[s]) = DOMAIN Unpacked(b[s])
          /\ \A p \in DOMAIN Unpacked(b[s]) :
               /\ Unpacked(disc[s])[p].kind = Unpacked(b[s])[p].kind
               /\ Unpacked(b[s])[p].kind = "block" =>
                    Unpacked(disc[s])[p].block.id = Unpacked(b[s])[p].block.id
      BY <1>0 DEF Alike
    <3>2. /\ Written[s].type = disc[s].type /\ Written[s].lzs = disc[s].lzs
          /\ DOMAIN Unpacked(Written[s]) = DOMAIN Unpacked(disc[s])
          /\ \A p \in DOMAIN Unpacked(disc[s]) :
               /\ Unpacked(Written[s])[p].kind = Unpacked(disc[s])[p].kind
               /\ Unpacked(disc[s])[p].kind = "block" =>
                    Unpacked(Written[s])[p].block.id = Unpacked(disc[s])[p].block.id
      BY <1>1, <2>1 DEF Alike
    <3> QED BY <3>1, <3>2
  <2>3. \A s \in TextSubs(b) :
          /\ Block(Written, s).c = Block(b, s).c /\ Block(Written, s).entries = Block(b, s).entries
          /\ DOMAIN Block(Written, s).strings = DOMAIN Block(b, s).strings
          /\ DOMAIN Block(Written, s).tail = DOMAIN Block(b, s).tail
    BY <1>0, <1>1, <1>2 DEF Alike
  <2> QED BY <2>1, <2>2, <2>3 DEF Alike
<1>4. ASSUME NEW slot \in Stored(b), Named(b, slot) # {}
      PROVE  Named(Written, slot) = Named(b, slot)
  <2>1. Named(disc, slot) = Named(b, slot) BY <1>4 DEF Sound
  <2> QED BY <2>1, <1>2, <1>4, WordKept
<1>5. ASSUME NEW t, NEW j, Protected(b, t, j)
      PROVE  /\ HasSymbols(BlockIndex(Written)[t], j)
             /\ \A k \in 1 .. j - 1 : BlockIndex(Written)[t].strings[k] = BlockIndex(b)[t].strings[k]
             /\ \A slot \in Stored(b) : <<t, j>> \notin Named(Written, slot)
  <2>1. /\ HasSymbols(index[t], j)
        /\ \A k \in 1 .. j - 1 : index[t].strings[k] = BlockIndex(b)[t].strings[k]
        /\ \A slot \in Stored(b) : <<t, j>> \notin Named(disc, slot)
    BY <1>0, <1>5 DEF Sound
  <2>2. t \in DOMAIN index /\ j \in DOMAIN index[t].strings
    <3>1. t \in DOMAIN BlockIndex(b) /\ j \in DOMAIN BlockIndex(b)[t].strings BY <1>5 DEF Protected
    <3> QED BY <3>1, <1>0, AlikeTexts
  <2>3. j \notin Referred(refs, t)
    <3> SUFFICES ASSUME NEW r \in refs, r.string[1] = t, r.string[2] = j PROVE FALSE BY DEF Referred
    <3>1. PICK system \in FourSystems : r.slot \in SlotsOf(disc)[system] BY BuildIs DEF Listing
    <3>2. r.string \in Resolve(index, WordAt(disc, r.slot)) BY BuildIs DEF Listing
    <3>3. r.string = <<t, j>> BY <3>2, ResolveIs
    <3>4. r.slot \in Stored(b) BY <3>1, <1>0, <1>2, SlotsAreStored
    <3>5. <<t, j>> \in Named(disc, r.slot) BY <3>2, <3>3, <1>0 DEF Named
    <3> QED BY <3>4, <3>5, <2>1
  <2>4. j \in Unresolved(t) BY <2>1, <2>2, <2>3 DEF Unresolved
  <2>5. BlockIndex(Written)[t] = NewBlock(t) BY <2>2, WrittenTexts
  <2>6. /\ \A k \in 1 .. j - 1 : NewBlock(t).strings[k] = index[t].strings[k]
        /\ HasSymbols(NewBlock(t), j)
    BY <2>2, <2>4, EditSpares
  <2>7. ASSUME NEW slot \in Stored(b), <<t, j>> \in Named(Written, slot) PROVE FALSE
    <3>1. <<t, j>> \notin Named(disc, slot) BY <2>1
    <3>2. Named(disc, slot) = {} /\ WordAt(Written, slot) = WordAt(disc, slot)
      BY <3>1, <2>7, <1>2, WordKept
    <3>3. Names(BlockIndex(Written), WordAt(disc, slot), t, j) BY <3>2, <2>7, ResolveIs DEF Named
    <3>4. Names(BlockIndex(disc), WordAt(disc, slot), t, j)
      BY <3>3, <1>0, <1>1, <2>2, <2>5, <2>6, StillNamed
    <3>5. <<t, j>> \in Named(disc, slot) BY <3>4, ResolveIs DEF Named
    <3> QED BY <3>1, <3>5
  <2> QED BY <2>1, <2>5, <2>6, <2>7
<1>6. ASSUME NEW s \in DOMAIN b, b[s].type = 0, NEW p \in DOMAIN Unpacked(b[s]), IsWord(b, s, p)
      PROVE  Unpacked(Written[s])[p] = Unpacked(b[s])[p]
  <2>1. /\ Unpacked(disc[s])[p] = Unpacked(b[s])[p] /\ s \in DOMAIN disc /\ disc[s].type = 0
        /\ p \in DOMAIN Unpacked(disc[s])
    BY <1>6, <1>0 DEF Sound, Alike
  <2> DEFINE cell == Unpacked(disc[s])[p]
             u == Surveyed(disc, s)
  <2>2. cell.kind = "word" /\ cell.word \in Nat /\ cell = [kind |-> "word", word |-> cell.word]
    <3>1. cell \in Cells BY <2>1, <1>0, BodyIs
    <3>2. cell.kind = "word" BY <2>1, <1>6 DEF IsWord
    <3> HIDE DEF cell
    <3> QED BY <3>1, <3>2, CellIs
  <2>3. Unpacked(Written[s])[p] = [kind |-> "word", word |-> Repointed(<<u, p, 0>>, cell.word)]
    <3>1. Unpacked(Written[s]) = NewBody(s) BY <2>1, WrittenIs
    <3> QED BY <3>1, <2>1, <2>2, NewBodyIs
  <2>4. u \in DOMAIN disc /\ disc[u].type = 0 BY <2>1, <1>0, SurveyedIs
  <2> HIDE DEF u, cell
  <2>5. ASSUME NEW r \in refs, r.slot = <<u, p, 0>> PROVE FALSE
    <3>1. PICK system \in FourSystems : r.slot \in SlotsOf(disc)[system] BY BuildIs DEF Listing
    <3>2. <<u, p, 0>> \in Stored(disc) BY <3>1, <2>5, <1>0, SlotsAreStored
    <3>3. CASE \E v \in DOMAIN disc : \E q \in DOMAIN Unpacked(disc[v]) :
                 <<u, p, 0>> = <<v, q, 0>> /\ Followed(disc, v, q)
      <4>1. Followed(disc, u, p) BY <3>3
      <4> QED BY <4>1, <2>4 DEF Followed
    <3>4. CASE \E v \in TextSubs(disc) : \E j \in DOMAIN Block(disc, v).tail : <<u, p, 0>> = <<v, 1, j>>
      <4>1. PICK v \in TextSubs(disc) : 0 \in DOMAIN Block(disc, v).tail BY <3>4
      <4>2. Block(disc, v).tail \in Seq(Nat) BY <1>0, TextIs DEF Blocks
      <4> QED BY <4>1, <4>2
    <3> QED BY <3>2, <3>3, <3>4, StoredIs
  <2>6. Repointed(<<u, p, 0>>, cell.word) = cell.word BY <2>2, <2>5, RepointedIs
  <2> QED BY <2>1, <2>2, <2>3, <2>6 DEF cell
<1> QED BY <1>1, <1>3, <1>4, <1>5, <1>6 DEF Sound

----------------------------------------------------------------------------
(* Gate 44. *)

\* The gate finds every block where it was, but for sub-blocks it cannot read.
Seen(b, d) ==
  /\ DOMAIN d = DOMAIN b
  /\ \A s \in DOMAIN b :
       \/ s \in Unexaminable(d)
       \/ \A p \in DOMAIN Unpacked(b[s]) :
            Unpacked(b[s])[p].kind = "block" =>
              /\ p \in ScanImage(Unpacked(d[s]))
              /\ Unpacked(d[s])[p].block.id = Unpacked(b[s])[p].block.id

LEMMA SoundIsSeen == ASSUME NEW b, NEW d, Sound(b, d) PROVE Seen(b, d)
<1>1. Alike(b, d) /\ TreesHold(d) BY DEF Sound, WellFormed
<1>2. DOMAIN d = DOMAIN b BY <1>1 DEF Alike
<1>3. ASSUME NEW s \in DOMAIN b, NEW p \in DOMAIN Unpacked(b[s]), Unpacked(b[s])[p].kind = "block"
      PROVE  /\ p \in ScanImage(Unpacked(d[s]))
             /\ Unpacked(d[s])[p].block.id = Unpacked(b[s])[p].block.id
  <2>1. /\ p \in DOMAIN Unpacked(d[s]) /\ Unpacked(d[s])[p].kind = "block"
        /\ Unpacked(d[s])[p].block.id = Unpacked(b[s])[p].block.id
    BY <1>1, <1>3 DEF Alike
  <2>2. Unpacked(d[s])[p].block.tree BY <1>1, <1>2, <2>1 DEF TreesHold
  <2> QED BY <2>1, <2>2 DEF ScanImage
<1> QED BY <1>2, <1>3 DEF Seen

LEMMA GateCompares ==
  ASSUME NEW b, NEW d, Seen(b, d), NEW ids, Gate44(d, ids), NEW t \in ids,
         NEW x \in Held(b, t), NEW y \in Held(b, t)
  PROVE  x[1] \notin Unexaminable(d) /\ Payload(d, x) = Payload(d, y)
<1>1. Unexaminable(d) = {} /\ \A v, w \in CarriersOf(d, t) : Payload(d, v) = Payload(d, w) BY DEF Gate44
<1>2. ASSUME NEW z \in Held(b, t) PROVE z \in CarriersOf(d, t)
  <2>1. PICK s, p : /\ s \in DOMAIN b /\ p \in DOMAIN Unpacked(b[s]) /\ Unpacked(b[s])[p].kind = "block"
                    /\ Unpacked(b[s])[p].block.id = t /\ z = <<s, p>>
    BY DEF Held
  <2>2. s \in DOMAIN d /\ p \in ScanImage(Unpacked(d[s])) /\ Unpacked(d[s])[p].block.id = t
    BY <2>1, <1>1 DEF Seen
  <2>3. z \in Copies(d, s, t) BY <2>1, <2>2 DEF Copies
  <2>4. s \in Executable(d) \/ s \in DOMAIN d \ (Unexaminable(d) \cup Executable(d)) BY <2>2, <1>1
  <2> DEFINE E == Executable(d)
             A == DOMAIN d \ (Unexaminable(d) \cup Executable(d))
  <2>5. CarriersOf(d, t) = (UNION {Copies(d, u, t) : u \in E}) \cup (UNION {Copies(d, u, t) : u \in A})
    BY DEF CarriersOf
  <2>6. s \in E \/ s \in A BY <2>4
  <2> HIDE DEF E, A
  <2>7. CASE s \in E
    <3>1. Copies(d, s, t) \in {Copies(d, u, t) : u \in E} BY <2>7
    <3>2. z \in UNION {Copies(d, u, t) : u \in E} BY <2>3, <3>1
    <3> QED BY <3>2, <2>5
  <2>8. CASE s \in A
    <3>1. Copies(d, s, t) \in {Copies(d, u, t) : u \in A} BY <2>8
    <3>2. z \in UNION {Copies(d, u, t) : u \in A} BY <2>3, <3>1
    <3> QED BY <3>2, <2>5
  <2> QED BY <2>6, <2>7, <2>8
<1> QED BY <1>1, <1>2

\* So it does after a build that missed a sub-block, or left one that will not decompress.
LEMMA DamagedIsSeen ==
  ASSUME NEW b, WellFormed(b), Sound(b, disc), Listing,
         NEW tid, NEW i, NEW string, EditIs(tid, i, string),
         NEW dam \in Damages, dam.kind # "malformed"
  PROVE  Seen(b, [s \in DOMAIN disc |-> Left(s, dam)])
<1> DEFINE d == [s \in DOMAIN disc |-> Left(s, dam)]
<1>1. Seen(b, disc) /\ Seen(b, Written)
  <2>1. Sound(b, Written) BY WrittenIsSound
  <2> QED BY <2>1, SoundIsSeen
<1>2. DOMAIN d = DOMAIN b /\ DOMAIN disc = DOMAIN b BY <1>1 DEF Seen
<1>3. DOMAIN disc \subseteq Nat \ {0} BY DEF Listing, WellFormed
<1>4. ASSUME NEW s \in DOMAIN b
      PROVE  \/ s \in Unexaminable(d)
             \/ \A p \in DOMAIN Unpacked(b[s]) :
                  Unpacked(b[s])[p].kind = "block" =>
                    /\ p \in ScanImage(Unpacked(d[s]))
                    /\ Unpacked(d[s])[p].block.id = Unpacked(b[s])[p].block.id
  <2>1. d[s] = Left(s, dam) /\ s \in DOMAIN disc BY <1>2
  <2>2. CASE dam.sub = s /\ dam.kind = "missed"
    <3>1. d[s] = disc[s] BY <2>1, <2>2 DEF Left
    <3>2. s \notin Unexaminable(disc)
      <4>1. Readable(disc[s]) BY <2>1 DEF Listing, WellFormed
      <4> QED BY <4>1 DEF Unexaminable, Readable
    <3> QED BY <3>1, <3>2, <1>1 DEF Seen
  <2>3. CASE dam.sub = s /\ dam.kind = "broken"
    <3>1. disc[s].lzs BY <2>3 DEF Damages, NoDamage
    <3>2. d[s] = [disc[s] EXCEPT !.raw = <<[kind |-> "junk"]>>] BY <2>1, <2>3 DEF Left
    <3>3. DOMAIN disc[s] = {"type", "lzs", "raw"} BY <2>1 DEF Listing, WellFormed, Readable
    <3>4. d[s].lzs /\ d[s].raw[1].kind = "junk" BY <3>1, <3>2, <3>3
    <3> QED BY <3>4, <1>2 DEF Unexaminable
  <2>4. CASE ~(dam.sub = s /\ dam.kind \in {"missed", "broken"})
    <3>1. d[s] = Written[s]
      <4>1. dam.sub = s => dam.kind = "none" BY <2>4 DEF Damages, NoDamage
      <4>2. Left(s, dam) = Left(s, NoDamage) BY <4>1 DEF Left, NoDamage
      <4> QED BY <2>1, <4>2 DEF Written
    <3>2. s \notin Unexaminable(Written)
      <4>1. Readable(Written[s]) BY <2>1, WrittenIs
      <4> QED BY <4>1 DEF Unexaminable, Readable
    <3> QED BY <3>1, <3>2, <1>1 DEF Seen
  <2> QED BY <2>2, <2>3, <2>4
<1> HIDE DEF d
<1> QED BY <1>2, <1>4 DEF Seen, d

----------------------------------------------------------------------------
(* The invariant. *)

Inv ==
  /\ TypeOK
  /\ base \in Discs
  /\ phase \in {"edit", "write"} => builds < MaxBuilds
  /\ phase \in {"survey", "edit", "write"} => damage = NoDamage
  /\ phase # "done" => verdict = "none"
  /\ damage = NoDamage => Sound(base, disc)
  /\ phase \in {"edit", "write"} => index = BlockIndex(disc) /\ refs = Build(disc, index)
  /\ phase = "write" => \E tid, i, string : EditIs(tid, i, string)
  /\ damage.kind # "malformed" => Seen(base, disc)
  /\ verdict = "pass" => Gate44(disc, DOMAIN edited)

LEMMA InitInv == Init => Inv
<1> SUFFICES ASSUME Init PROVE Inv OBVIOUS
<1>1. WellFormed(base) BY DiscsAreWellFormed DEF Init
<1>2. Sound(base, disc) BY <1>1, BaseIsSound DEF Init
<1>3. Seen(base, disc) BY <1>2, SoundIsSeen
<1>4. TypeOK BY SizeAssumption DEF Init, TypeOK
<1> QED BY <1>2, <1>3, <1>4 DEF Init, Inv

LEMMA SurveyInv == Inv /\ Survey => Inv'
<1> SUFFICES ASSUME Inv, Survey PROVE Inv' OBVIOUS
<1>1. Sound(base, disc) /\ WellFormed(disc) BY DEF Inv, Survey, Sound
<1>2. index' = BlockIndex(disc) /\ refs' = Build(disc, index') BY DEF Survey
<1>3. TypeOK'
  <2>1. \A r \in refs' : r.string[1] \in DOMAIN index' /\ r.string[2] \in DOMAIN index'[r.string[1]].strings
    <3> SUFFICES ASSUME NEW r \in refs'
                 PROVE  r.string[1] \in DOMAIN index' /\ r.string[2] \in DOMAIN index'[r.string[1]].strings
      OBVIOUS
    <3> DEFINE x == BlockIndex(disc)
    <3>1. r \in Build(disc, x) BY <1>2
    <3>2. r.string \in Resolve(x, WordAt(disc, r.slot)) BY <3>1, BuildIs
    <3> HIDE DEF x
    <3>3. Names(x, WordAt(disc, r.slot), r.string[1], r.string[2]) BY <3>2, ResolveIs
    <3> QED BY <3>3, <1>2 DEF Names, x
  <2>2. DOMAIN edited' = {} BY DEF Survey
  <2> QED BY <2>1, <2>2 DEF TypeOK, Inv, Survey
<1>4. phase' = "edit" /\ builds' < MaxBuilds /\ UNCHANGED <<base, disc, damage, verdict>> BY DEF Survey
<1>5. damage = NoDamage /\ verdict = "none" BY DEF Inv, Survey
<1> QED BY <1>1, <1>2, <1>3, <1>4, <1>5 DEF Inv

LEMMA EditInv ==
  ASSUME Inv, NEW tid \in DOMAIN index, NEW i \in DOMAIN index[tid].strings, NEW string \in NewStrings,
         Edit(tid, i, string)
  PROVE  Inv'
<1>1. EditIs(tid, i, string)'
  BY DEF Edit, EditIs, Editable, Unresolved, Referred
<1>2. TypeOK'
  <2>1. Sound(base, disc) /\ index = BlockIndex(disc) BY DEF Inv, Edit
  <2>2. IndexOk(index) BY <2>1, CarrierIs DEF Sound
  <2>3. index[tid].strings \in Seq(Seq(Symbols)) BY <2>2 DEF IndexOk, Blocks
  <2>4. Len([index[tid].strings EXCEPT ![i] = string]) = Len(index[tid].strings)
    <3>1. string \in Seq(Symbols) BY EditAssumption
    <3> QED BY <3>1, <2>3
  <2>5. edited' = [t \in {tid} |-> [index[tid].strings EXCEPT ![i] = string]] BY DEF Edit
  <2>6. \A t \in DOMAIN edited' : t \in DOMAIN index /\ Len(edited'[t]) = Len(index[t].strings)
    BY <2>4, <2>5
  <2> QED BY <2>6 DEF Inv, TypeOK, Edit
<1>3. /\ phase' = "write" /\ UNCHANGED <<builds, base, disc, index, refs, damage, verdict>> /\ phase = "edit"
  BY DEF Edit
<1>4. damage = NoDamage /\ verdict = "none" /\ Sound(base, disc) /\ builds < MaxBuilds
      /\ index = BlockIndex(disc) /\ refs = Build(disc, index) /\ base \in Discs
  BY <1>3 DEF Inv
<1>5. Seen(base, disc) BY <1>4, SoundIsSeen
<1>6. \E t, k, text : EditIs(t, k, text)' BY <1>1
<1> QED BY <1>2, <1>3, <1>4, <1>5, <1>6 DEF Inv

LEMMA WriteInv == Inv /\ Write => Inv'
<1> SUFFICES ASSUME Inv, Write PROVE Inv' OBVIOUS
<1>1. /\ phase = "write" /\ phase' = "gate" /\ builds' = builds + 1
      /\ UNCHANGED <<base, index, refs, edited, verdict>>
  BY DEF Write
<1>2. PICK dam \in Damages : damage' = dam /\ disc' = [s \in DOMAIN disc |-> Left(s, dam)] BY DEF Write
<1>3. /\ Sound(base, disc) /\ builds < MaxBuilds /\ verdict = "none" /\ base \in Discs
      /\ index = BlockIndex(disc) /\ refs = Build(disc, index)
  BY <1>1 DEF Inv
<1>4. PICK tid, i, string : EditIs(tid, i, string) BY <1>1 DEF Inv
<1>5. WellFormed(base) /\ Listing BY <1>3, DiscsAreWellFormed DEF Listing, Sound
<1>6. dam = NoDamage => Sound(base, disc')
  <2> SUFFICES ASSUME dam = NoDamage PROVE Sound(base, disc') OBVIOUS
  <2>1. disc' = Written BY <1>2 DEF Written
  <2> QED BY <2>1, <1>3, <1>4, <1>5, WrittenIsSound
<1>7. dam.kind # "malformed" => Seen(base, disc')
  BY <1>2, <1>3, <1>4, <1>5, DamagedIsSeen
<1>8. TypeOK'
  <2>1. builds + 1 \in 0 .. MaxBuilds BY <1>3, SizeAssumption DEF Inv, TypeOK
  <2> QED BY <1>1, <2>1 DEF Inv, TypeOK
<1> QED BY <1>1, <1>2, <1>3, <1>6, <1>7, <1>8 DEF Inv

LEMMA CheckInv == Inv /\ Check => Inv'
<1> SUFFICES ASSUME Inv, Check PROVE Inv' OBVIOUS
<1>1. /\ phase' = "done" /\ UNCHANGED <<builds, base, disc, index, refs, edited, damage>>
      /\ verdict' = IF Gate44(disc, DOMAIN edited) THEN "pass" ELSE "fail"
  BY DEF Check
<1>2. TypeOK' BY <1>1 DEF Inv, TypeOK
<1>3. verdict' = "pass" => Gate44(disc', DOMAIN edited') BY <1>1
<1> QED BY <1>1, <1>2, <1>3 DEF Inv

LEMMA RaiseInv == Inv /\ Raise => Inv'
<1> SUFFICES ASSUME Inv, Raise PROVE Inv' OBVIOUS
<1>1. /\ phase = "gate" /\ phase' = "done"
      /\ UNCHANGED <<builds, base, disc, index, refs, edited, damage, verdict>>
  BY DEF Raise
<1>2. TypeOK' BY <1>1 DEF Inv, TypeOK
<1> QED BY <1>1, <1>2 DEF Inv, Gate44, Sound, Seen

LEMMA AgainInv == Inv /\ Again => Inv'
<1> SUFFICES ASSUME Inv, Again PROVE Inv' OBVIOUS
<1>1. /\ phase' = "survey" /\ UNCHANGED <<builds, base>> /\ damage' = NoDamage /\ verdict' = "none"
      /\ disc' = IF damage = NoDamage THEN disc ELSE base
      /\ refs' = {} /\ DOMAIN edited' = {}
  BY DEF Again
<1>2. WellFormed(base) BY DiscsAreWellFormed DEF Inv
<1>3. Sound(base, disc') BY <1>1, <1>2, BaseIsSound DEF Inv
<1>4. Seen(base, disc') BY <1>3, SoundIsSeen
<1>5. TypeOK' BY <1>1 DEF Inv, TypeOK
<1> QED BY <1>1, <1>3, <1>4, <1>5 DEF Inv

LEMMA StepInv == Inv /\ [Next]_vars => Inv'
<1> SUFFICES ASSUME Inv, [Next]_vars PROVE Inv' OBVIOUS
<1>1. CASE Survey BY <1>1, SurveyInv
<1>2. CASE \E tid \in DOMAIN index : \E i \in DOMAIN index[tid].strings : \E string \in NewStrings :
             Edit(tid, i, string)
  BY <1>2, EditInv
<1>3. CASE Write BY <1>3, WriteInv
<1>4. CASE Check BY <1>4, CheckInv
<1>5. CASE Raise BY <1>5, RaiseInv
<1>6. CASE Again BY <1>6, AgainInv
<1>7. CASE UNCHANGED vars
  <2>1. UNCHANGED <<phase, builds, base, disc, index, refs, edited, damage, verdict>> BY <1>7 DEF vars
  <2>2. ASSUME NEW tid, NEW i, NEW string, EditIs(tid, i, string) PROVE EditIs(tid, i, string)'
    <3>1. Editable(tid, i)' BY <2>1, <2>2 DEF EditIs, Editable, Unresolved, Referred
    <3>2. /\ tid \in DOMAIN index' /\ i \in DOMAIN index'[tid].strings /\ string \in NewStrings
          /\ Addressable([index'[tid] EXCEPT !.strings = [@ EXCEPT ![i] = string]])
          /\ edited' = [t \in {tid} |-> [index'[tid].strings EXCEPT ![i] = string]]
      BY <2>1, <2>2 DEF EditIs
    <3> QED BY <3>1, <3>2 DEF EditIs
  <2>3. TypeOK' BY <2>1 DEF Inv, TypeOK
  <2> QED BY <2>1, <2>2, <2>3 DEF Inv
<1> QED BY <1>1, <1>2, <1>3, <1>4, <1>5, <1>6, <1>7 DEF Next

\* The invariant holds.
THEOREM Invariance == Spec => []Inv
BY InitInv, StepInv, PTL DEF Spec

----------------------------------------------------------------------------
(* Theorems. *)

\* StoredKept: after any number of builds that went right, each upon the one before, every
\* word that the game reads through one of the four systems, in every copy, names the
\* string it named before the first: corpus.py:317's rule and the survey of referrers.py
\* are enough for that, whatever the texts and their codes.
THEOREM FollowedWordsKeepTheirStrings == Spec => []StoredKept
<1>1. Inv => StoredKept BY DEF Inv, StoredKept, Sound
<1> QED BY <1>1, Invariance, PTL

\* HiddenKept: and so does a word that no survey finds, if it names a string with symbols
\* that no other word is known to name.
THEOREM HiddenWordsKeepTheirStrings == Spec => []HiddenKept
<1>1. Inv => HiddenKept
  <2> SUFFICES ASSUME Inv, damage = NoDamage, NEW slot \in Hidden(base), NEW string \in Named(base, slot),
                      \A other \in Stored(base) : string \notin Named(base, other),
                      HasSymbols(BlockIndex(base)[string[1]], string[2])
               PROVE  Named(disc, slot) = Named(base, slot)
    BY DEF HiddenKept
  <2>1. Sound(base, disc) /\ WellFormed(base) BY DiscsAreWellFormed DEF Inv
  <2> QED BY <2>1, HiddenStays
<1> QED BY <1>1, Invariance, PTL

\* CarriersAgree: a pass of gate 44 says that the places which held a block of an edited
\* id all hold one and the same, unless one has lost its structure (verify.py).
THEOREM PassMeansCarriersAgree == Spec => []CarriersAgree
<1>1. Inv => CarriersAgree
  <2> SUFFICES ASSUME Inv, verdict = "pass", damage.kind # "malformed", NEW tid \in DOMAIN edited,
                      NEW a \in Held(base, tid), NEW b \in Held(base, tid)
               PROVE  a[1] \notin Unexaminable(disc) /\ Payload(disc, a) = Payload(disc, b)
    BY DEF CarriersAgree
  <2>1. Seen(base, disc) /\ Gate44(disc, DOMAIN edited) BY DEF Inv
  <2> QED BY <2>1, GateCompares
<1> QED BY <1>1, Invariance, PTL

=============================================================================
