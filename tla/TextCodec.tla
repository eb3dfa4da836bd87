------------------------------ MODULE TextCodec ------------------------------
(***************************************************************************)
(* dq4/treebuild.py and dq4/huffman.py: a Huffman tree is built from       *)
(* frequencies and laid out as the engine's dual-base array, a code stream *)
(* is written or found and read bit by bit, and the text is re-encoded     *)
(* with a tree of the same code lengths.                                   *)
(*                                                                         *)
(* A symbol is [kind, value]; an array entry is the 16-bit word that       *)
(* stands for a symbol or for a node.  A stream is its bits in the order   *)
(* they are read, a whole number of bytes of them.                         *)
(***************************************************************************)
EXTENDS Integers, Sequences, FiniteSets

CONSTANTS
  Page,          \* 2^8: a word is high byte * Page + low byte
  NodeBit,       \* 0x8000
  Order,         \* the symbols as Python sorts them, by kind and value
  Frequencies,   \* the frequencies a tree may be built from
  MinDepths,     \* the min_depth a build may ask for
  Byte,          \* bits of a byte
  Texts,         \* the symbol sequences a caller may encode
  MaxBytes       \* bound: bytes of a stream

Node(nn) == [kind |-> "NODE", value |-> nn]
CtrlPage == NodeBit \div Page - 1      \* 0x7F
DictPage == NodeBit \div Page - 2      \* 0x7E

Symbols == {Order[k] : k \in DOMAIN Order}
Kinds   == {"SJIS", "CTRL", "DICT", "END"}
Words   == 0 .. 2 * NodeBit - 1
Streams == UNION {[1 .. b * Byte -> {0, 1}] : b \in 0 .. MaxBytes}

ASSUME WordAssumption ==
  Page \in Nat \ {0} /\ NodeBit \in Nat /\ NodeBit % Page = 0 /\ NodeBit >= 3 * Page

\* Control and dictionary codes lie in their page, characters between END and those pages.
ASSUME SymbolAssumption ==
  Order \in Seq([kind : Kinds, value : Nat]) /\ \A s \in Symbols :
    \/ s.kind = "CTRL" /\ s.value \div Page = CtrlPage
    \/ s.kind = "DICT" /\ s.value \div Page = DictPage
    \/ s.kind = "END" /\ s.value = 0
    \/ s.kind = "SJIS" /\ s.value - NodeBit \in 1 .. DictPage * Page - 1

ASSUME InputAssumption ==
  /\ \A f \in Frequencies : DOMAIN f \subseteq Symbols /\ \A s \in DOMAIN f : f[s] \in Nat
  /\ MinDepths \subseteq {1, 2}
  /\ Texts \subseteq Seq(Symbols)
  /\ Byte \in Nat \ {0} /\ MaxBytes \in Nat

----------------------------------------------------------------------------
(* Words, and the tree they make up. *)

Descriptor(s) ==
  CASE s.kind = "NODE" -> NodeBit + s.value
    [] s.kind = "SJIS" -> s.value - NodeBit
    [] s.kind = "END"  -> 0
    [] OTHER -> s.value

\* Mutant of Entry: the node test on the high byte alone, which FORMAT.md warns of.
EntryNarrow(w) ==
  CASE w \div Page = NodeBit \div Page -> Node(w - NodeBit)
    [] w \div Page = CtrlPage -> [kind |-> "CTRL", value |-> w]
    [] w \div Page = DictPage -> [kind |-> "DICT", value |-> w]
    [] w = 0 -> [kind |-> "END", value |-> 0]
    [] OTHER -> [kind |-> "SJIS", value |-> w + NodeBit]

Entry(w) ==
  CASE w >= NodeBit -> Node(w - NodeBit)
    [] w \div Page = CtrlPage -> [kind |-> "CTRL", value |-> w]
    [] w \div Page = DictPage -> [kind |-> "DICT", value |-> w]
    [] w = 0 -> [kind |-> "END", value |-> 0]
    [] OTHER -> [kind |-> "SJIS", value |-> w + NodeBit]

\* The two slots of a node, and what is in them.
Slot(t, nn, side) == IF side = 0 THEN nn ELSE t.m + nn
Child(t, nn, side) == Entry(t.pairs[Slot(t, nn, side)])

\* children[nn + 1] is what node nn was created with; the last slot is the pad.
LayOut(children) ==
  LET m == Len(children) IN
    [m |-> m, root |-> m - 1,
     pairs |-> [i \in 0 .. 2 * m |->
                  IF i = 2 * m THEN 0
                  ELSE Descriptor(children[(i % m) + 1][IF i < m THEN 1 ELSE 2])]]

NoTree == [m |-> 0, root |-> 0, pairs |-> [i \in {0} |-> 0]]

\* Mutant of Leaves: the bits of a code from the leaf to the root.
LeavesReversed(t) ==
  LET Under[nn \in 0 .. t.m - 1] ==
        UNION {LET c == Child(t, nn, side) IN
                 IF c.kind = "NODE"
                   THEN {[leaf EXCEPT !.code = Append(@, side)] : leaf \in Under[c.value]}
                   ELSE {[symbol |-> c, code |-> <<side>>]} : side \in {0, 1}}
  IN Under[t.root]

\* walk: every leaf and the path to it.
Leaves(t) ==
  LET Under[nn \in 0 .. t.m - 1] ==
        UNION {LET c == Child(t, nn, side) IN
                 IF c.kind = "NODE"
                   THEN {[leaf EXCEPT !.code = <<side>> \o @] : leaf \in Under[c.value]}
                   ELSE {[symbol |-> c, code |-> <<side>>]} : side \in {0, 1}}
  IN Under[t.root]

Codes(t) ==
  LET leaves == Leaves(t) IN
    [s \in {leaf.symbol : leaf \in leaves} |-> (CHOOSE leaf \in leaves : leaf.symbol = s).code]

LengthsOf(t) == LET codes == Codes(t) IN [s \in DOMAIN codes |-> Len(codes[s])]

----------------------------------------------------------------------------
(* encode. *)

\* The codes of the first k symbols, one behind the other.
BitsOf(codes, text) ==
  LET upto[k \in 0 .. Len(text)] == IF k = 0 THEN <<>> ELSE upto[k - 1] \o codes[text[k]]
  IN upto

Bits(codes, text) == BitsOf(codes, text)[Len(text)]

\* Zero filled to size bits, or cut off there: only a one bit beyond it raises.
Packed(bits, size) == [k \in 1 .. size |-> IF k <= Len(bits) THEN bits[k] ELSE 0]
Overruns(bits, size) == \E k \in size + 1 .. Len(bits) : bits[k] = 1

----------------------------------------------------------------------------
(* build_from_lengths. *)

Position(s) == CHOOSE k \in DOMAIN Order : Order[k] = s
Before(s, t) == Position(s) < Position(t)

Power[k \in Nat] == IF k = 0 THEN 1 ELSE 2 * Power[k - 1]

Largest(set) == CHOOSE x \in set : \A y \in set : y <= x

Total(numbers) ==
  LET sum[k \in 0 .. Len(numbers)] == IF k = 0 THEN 0 ELSE sum[k - 1] + numbers[k]
  IN sum[Len(numbers)]

\* How many of a set come before x, and the set in that order.
Place(set, x, order) == Cardinality({y \in set : <<y, x>> \in order})
Sorted(set, order) == [k \in 1 .. Cardinality(set) |-> CHOOSE x \in set : Place(set, x, order) = k - 1]
Alphabet(set) == Sorted(set, {p \in set \X set : Before(p[1], p[2])})

\* Are these the code lengths of a full binary tree?
Kraft(lengths) ==
  LET longest == Largest({lengths[k] : k \in DOMAIN lengths}) IN
    Total([k \in DOMAIN lengths |-> Power[longest - lengths[k]]]) = Power[longest]

\* By length, then by symbol: repr and value order agree, every value having five digits.
CanonicalOrder(lengths) ==
  Sorted(DOMAIN lengths, {p \in (DOMAIN lengths) \X (DOMAIN lengths) :
    \/ lengths[p[1]] < lengths[p[2]]
    \/ lengths[p[1]] = lengths[p[2]] /\ Before(p[1], p[2])})

InOrder(lengths) == [k \in DOMAIN CanonicalOrder(lengths) |-> lengths[CanonicalOrder(lengths)[k]]]

\* Count up, and shift where the length grows.
Numbers(ordered) ==
  LET number[k \in DOMAIN ordered] ==
        IF k = 1 THEN 0 ELSE (number[k - 1] + 1) * Power[ordered[k] - ordered[k - 1]]
  IN number

CanonicalCodes(lengths) ==
  [s \in DOMAIN lengths |->
     LET k == CHOOSE k \in DOMAIN CanonicalOrder(lengths) : CanonicalOrder(lengths)[k] = s
         number == Numbers(InOrder(lengths))[k]
     IN [j \in 1 .. lengths[s] |-> (number \div Power[lengths[s] - j]) % 2]]

\* A code set's internal nodes are the proper prefixes of its codes.
Inner(codes) == UNION {{SubSeq(codes[s], 1, k) : k \in 0 .. Len(codes[s]) - 1} : s \in DOMAIN codes}

\* Post-order: side 0, side 1, and then the node itself.
Turn(path, k) == IF k <= Len(path) THEN path[k] ELSE 2
PostOrder(p, q) ==
  \E k \in 1 .. Len(p) + 1 : /\ Turn(p, k) < Turn(q, k)
                            /\ \A j \in 1 .. k - 1 : Turn(p, j) = Turn(q, j)

\* assign: the trie's nodes numbered children first, the root last.
Numbered(codes) ==
  LET inner == Inner(codes)
      order == {p \in inner \X inner : PostOrder(p[1], p[2])}
      On(path) == IF path \in inner THEN Node(Place(inner, path, order))
                  ELSE CHOOSE s \in DOMAIN codes : codes[s] = path
  IN [k \in 1 .. Cardinality(inner) |->
        <<On(Append(Sorted(inner, order)[k], 0)), On(Append(Sorted(inner, order)[k], 1))>>]

\* Mutant of BuildFromLengths: the codes in their order to the symbols in theirs.
BuildFromLengthsUnsorted(lengths) ==
  LET byLength == CanonicalOrder(lengths)
      bySymbol == Alphabet(DOMAIN lengths)
      codes == CanonicalCodes(lengths)
  IN LayOut(Numbered([s \in DOMAIN lengths |->
       codes[byLength[CHOOSE k \in DOMAIN bySymbol : bySymbol[k] = s]]]))

BuildFromLengths(lengths) == LayOut(Numbered(CanonicalCodes(lengths)))

----------------------------------------------------------------------------
VARIABLES
  phase,     \* "idle", "merge", "built", "reading", "read" or "raised"
  freqs, minDepth,
  heap,      \* build: the items still to be merged
  children,  \* build: the nodes created so far
  tree,
  stream,    \* the code stream
  at, nn,    \* the reader: bits read, and the node it is at
  out,       \* the symbols read
  starts,    \* string_offsets over the same bits
  (* observations, read by no action *)
  text,      \* what the stream was encoded from, or NoText
  old        \* what was read before the text was re-encoded, or NoText

NoText == [none |-> TRUE]
noFreqs == [s \in {} |-> 0]
building == <<freqs, minDepth, heap, children>>
reader == <<at, nn, out, starts>>
vars == <<phase, freqs, minDepth, heap, children, tree, stream, at, nn, out, starts, text, old>>

Init ==
  /\ phase = "idle"
  /\ freqs = noFreqs /\ minDepth = 2 /\ heap = {} /\ children = <<>>
  /\ tree = NoTree /\ stream = <<>>
  /\ at = 0 /\ nn = 0 /\ out = <<>> /\ starts = <<0>>
  /\ text = NoText /\ old = NoText

----------------------------------------------------------------------------
(* build. *)

\* Heap entries compare by weight, then by tag.
Less(a, b) == a.weight < b.weight \/ (a.weight = b.weight /\ a.tag < b.tag)
Lightest(h) == CHOOSE a \in h : \A b \in h \ {a} : Less(a, b)

Build(f, depth) ==
  /\ phase = "idle"
  /\ freqs' = f /\ minDepth' = depth
  /\ heap' = {[weight |-> f[s], tag |-> Position(s), child |-> s] : s \in DOMAIN f}
  /\ phase' = IF Cardinality(DOMAIN f) < 2 * depth THEN "raised" ELSE "merge"
  /\ UNCHANGED <<children, tree, stream, reader, text, old>>

\* Merging stops at four items when no code may be one bit long.
Stop == IF minDepth = 2 THEN 4 ELSE 1

\* Mutant of Merge: the merged item weighs what its lighter part does.
MergeLight ==
  LET a == Lightest(heap)  b == Lightest(heap \ {a}) IN
  /\ phase = "merge" /\ Cardinality(heap) > Stop
  /\ children' = Append(children, <<a.child, b.child>>)
  /\ heap' = (heap \ {a, b}) \cup
       {[weight |-> a.weight, tag |-> Len(Order) + Len(children'),
         child |-> Node(Len(children))]}
  /\ UNCHANGED <<phase, freqs, minDepth, tree, stream, reader, text, old>>

Merge ==
  LET a == Lightest(heap)  b == Lightest(heap \ {a}) IN
  /\ phase = "merge" /\ Cardinality(heap) > Stop
  /\ children' = Append(children, <<a.child, b.child>>)
  /\ heap' = (heap \ {a, b}) \cup
       {[weight |-> a.weight + b.weight, tag |-> Len(Order) + Len(children'),
         child |-> Node(Len(children))]}
  /\ UNCHANGED <<phase, freqs, minDepth, tree, stream, reader, text, old>>

\* The last four are paired in their order, and the two pairs, the lighter first, are the root.
Joined ==
  LET a == Lightest(heap)
      b == Lightest(heap \ {a})
      c == Lightest(heap \ {a, b})
      d == Lightest(heap \ {a, b, c})
      m == Len(children)
  IN << <<a.child, b.child>>, <<c.child, d.child>>, <<Node(m), Node(m + 1)>> >>

Lay ==
  /\ phase = "merge" /\ Cardinality(heap) = Stop
  /\ tree' = LayOut(children \o (IF minDepth = 2 THEN Joined ELSE <<>>))
  /\ phase' = "built"
  /\ heap' = {} /\ children' = <<>>
  /\ UNCHANGED <<freqs, minDepth, stream, reader, text, old>>

----------------------------------------------------------------------------
(* encode, or a stream found in an archive; decode and string_offsets over it. *)

\* A tree does not remember what it was built from.
Forgotten == freqs' = noFreqs /\ minDepth' = 2 /\ UNCHANGED <<heap, children>>

\* The reader before the first bit.
Rewound == at' = 0 /\ nn' = tree'.root /\ out' = <<>> /\ starts' = <<0>>

Encode(symbols, bytes) ==
  LET codes == Codes(tree)
      known == \A k \in DOMAIN symbols : symbols[k] \in DOMAIN codes
      bits == Bits(codes, symbols)
  IN
  /\ phase = "built"
  /\ IF known /\ ~Overruns(bits, bytes * Byte)
       THEN phase' = "reading" /\ stream' = Packed(bits, bytes * Byte) /\ text' = symbols
       ELSE phase' = "raised" /\ UNCHANGED <<stream, text>>
  /\ Forgotten
  /\ UNCHANGED tree /\ Rewound
  /\ UNCHANGED old

Load(bits) ==
  /\ phase = "built"
  /\ phase' = "reading"
  /\ stream' = bits
  /\ Forgotten
  /\ UNCHANGED tree /\ Rewound
  /\ UNCHANGED <<text, old>>

\* Mutants of ReadBit: the walk is not begun anew behind END; a string starts at its END.
ReadBitNoReset ==
  LET i == Slot(tree, nn, stream[at + 1])
      c == Entry(tree.pairs[i])
  IN
  /\ phase = "reading" /\ at < Len(stream)
  /\ at' = at + 1
  /\ nn' = IF c.kind = "NODE" THEN c.value ELSE IF c.kind = "END" THEN nn ELSE tree.root
  /\ out' = IF c.kind = "NODE" THEN out ELSE Append(out, c)
  /\ starts' = IF c.kind = "END" THEN Append(starts, at') ELSE starts
  /\ UNCHANGED <<phase, building, tree, stream, text, old>>

ReadBitStartsEarly ==
  LET i == Slot(tree, nn, stream[at + 1])
      c == Entry(tree.pairs[i])
  IN
  /\ phase = "reading" /\ at < Len(stream)
  /\ at' = at + 1
  /\ nn' = IF c.kind = "NODE" THEN c.value ELSE tree.root
  /\ out' = IF c.kind = "NODE" THEN out ELSE Append(out, c)
  /\ starts' = IF c.kind = "END" THEN Append(starts, at) ELSE starts
  /\ UNCHANGED <<phase, building, tree, stream, text, old>>

\* One turn of both loops.  A slot past the array raises in decode.
ReadBit ==
  LET i == Slot(tree, nn, stream[at + 1])
      c == Entry(tree.pairs[i])
  IN
  /\ phase = "reading" /\ at < Len(stream)
  /\ at' = at + 1
  /\ IF i \in DOMAIN tree.pairs
       THEN /\ nn' = IF c.kind = "NODE" THEN c.value ELSE tree.root
            /\ out' = IF c.kind = "NODE" THEN out ELSE Append(out, c)
            /\ starts' = IF c.kind = "END" THEN Append(starts, at') ELSE starts
            /\ UNCHANGED phase
       ELSE phase' = "raised" /\ UNCHANGED <<nn, out, starts>>
  /\ UNCHANGED <<building, tree, stream, text, old>>

EndOfStream ==
  /\ phase = "reading" /\ at = Len(stream)
  /\ phase' = "read"
  /\ UNCHANGED <<building, tree, stream, reader, text, old>>

\* What was read, encoded to the same size with a tree built from the code lengths alone.
Recode ==
  /\ phase = "read" /\ old = NoText
  /\ IF Kraft(InOrder(LengthsOf(tree)))
       THEN /\ phase' = "reading"
            /\ tree' = BuildFromLengths(LengthsOf(tree))
            /\ stream' = Packed(Bits(Codes(tree'), out), Len(stream))
            /\ old' = [out |-> out, starts |-> starts]
            /\ Rewound
       ELSE phase' = "raised" /\ UNCHANGED <<tree, stream, old, reader>>
  /\ text' = NoText
  /\ UNCHANGED building

Next ==
  \/ \E f \in Frequencies, depth \in MinDepths : Build(f, depth)
  \/ Merge \/ Lay
  \/ \E symbols \in Texts, bytes \in 0 .. MaxBytes : Encode(symbols, bytes)
  \/ \E bits \in Streams : Load(bits)
  \/ ReadBit \/ EndOfStream \/ Recode

Spec == Init /\ [][Next]_vars

----------------------------------------------------------------------------
(* Properties. *)

\* Types, a part of AsTheEngineWalks below.
TypeOK ==
  /\ phase \in {"idle", "merge", "built", "reading", "read", "raised"}
  /\ minDepth \in {1, 2}
  /\ \A item \in heap : item.weight \in Nat /\ item.tag \in 1 .. 2 * Len(Order)
  /\ tree.m \in 0 .. Len(Order) /\ DOMAIN tree.pairs = 0 .. 2 * tree.m
  /\ \A i \in DOMAIN tree.pairs : tree.pairs[i] \in Words
  /\ stream \in Streams /\ at \in 0 .. Len(stream)
  /\ tree.m > 0 /\ phase \in {"reading", "read"} => nn \in 0 .. tree.m - 1
  /\ \A k \in DOMAIN out : out[k] \in Symbols
  /\ \A k \in DOMAIN starts : starts[k] \in 0 .. at

\* What FORMAT.md measured of the game's own trees and the engine's walk relies on, for both
\* builders: the root is the last node, every other one is the child of exactly one node, a
\* higher one, no slot below 2m is left over, and the pad is never reached.
AsTheEngineWalks ==
  /\ TypeOK
  /\ tree # NoTree =>
       LET slots == 0 .. 2 * tree.m - 1
           owner(i) == i % tree.m
           nodes == {i \in slots : Entry(tree.pairs[i]).kind = "NODE"}
       IN /\ tree.root = tree.m - 1
          /\ tree.pairs[2 * tree.m] = 0
          /\ \A i \in nodes : Entry(tree.pairs[i]).value < owner(i)
          /\ \A n \in 0 .. tree.m - 2 : Cardinality({i \in nodes : Entry(tree.pairs[i]).value = n}) = 1

\* The tree of a build gives each of its symbols one code, none of them short, and no full
\* tree with codes that long encodes the text in fewer bits: stopping at four items is the
\* constrained optimum.
FullTrees ==
  [p \in (2 .. Len(Order)) \X {1, 2} |->
     {l \in [1 .. p[1] -> p[2] .. p[1] - 1] : Kraft(l)}]

Cost(weights, lengths) == Total([k \in DOMAIN weights |-> weights[k] * lengths[k]])

Optimal ==
  phase = "built" =>
    LET lengths == LengthsOf(tree)
        used == Alphabet(DOMAIN freqs)
        weights == [k \in DOMAIN used |-> freqs[used[k]]]
    IN /\ DOMAIN lengths = DOMAIN freqs
       /\ \A s \in DOMAIN freqs : lengths[s] >= minDepth
       /\ \A l \in FullTrees[<<Len(used), minDepth>>] :
            Cost(weights, [k \in DOMAIN used |-> lengths[used[k]]]) <= Cost(weights, l)

Begins(s, t) == Len(s) <= Len(t) /\ SubSeq(t, 1, Len(s)) = s

\* A text that fits its region comes back symbol by symbol, and whatever the zero fill behind
\* it completes is the symbol of the all-zero code.
TextComesBack ==
  phase = "read" /\ text # NoText =>
    LET codes == Codes(tree) IN
      Len(Bits(codes, text)) <= Len(stream) =>
        /\ Begins(text, out)
        /\ \A k \in Len(text) + 1 .. Len(out) : \A j \in DOMAIN codes[out[k]] : codes[out[k]][j] = 0

\* Any stream at all is the codes of what is read from it and a tail that completes no code,
\* so that encoding to the same length gives it back exactly when that tail is zero.
RoundTrip ==
  phase = "read" =>
    LET codes == Codes(tree)
        bits == Bits(codes, out)
    IN /\ Packed(bits, Len(stream)) = stream <=> \A k \in Len(bits) + 1 .. Len(stream) : stream[k] = 0
       /\ SubSeq(stream, Len(bits) + 1, Len(stream)) \in Inner(codes)

\* Reading on from any start but the last gives one string and its END, the very bits up to
\* the next start: a reference that lands on a start lands on a string.
Ends == {k \in DOMAIN out : out[k].kind = "END"}

StartsAreStrings ==
  phase = "read" =>
    LET codes == Codes(tree) IN
      /\ Len(starts) = Cardinality(Ends) + 1
      /\ \A e \in Ends :
           LET k == Cardinality({d \in Ends : d <= e})
               begin == Largest({d \in Ends : d < e} \cup {0}) + 1
           IN SubSeq(stream, starts[k] + 1, starts[k + 1]) = Bits(codes, SubSeq(out, begin, e))

\* A tree of the same lengths leaves every string and its start where it was; only the zero
\* fill may complete further codes behind them.
StartsKept ==
  phase = "read" /\ old # NoText => Begins(old.out, out) /\ Begins(old.starts, starts)
=============================================================================
