------------------------------- MODULE MCLocate -------------------------------
(***************************************************************************)
(* Overlays of one or two text blocks of every shape the locators tell     *)
(* apart, at the first word or behind one another, in archives where an    *)
(* image occurs once, twice, or beside one that shares a block with it;    *)
(* archives whose headers do not add up; and executables with every        *)
(* combination of six words under two tables.                              *)
(***************************************************************************)
EXTENDS Locate, TLC

TextShape(id, a, c, d, e, f6, self, parses) ==
  [id |-> id, a |-> a, c |-> c, d |-> d, e |-> e, f6 |-> f6, self |-> self, parses |-> parses,
   strings |-> 2]

Plain      == TextShape(5, 40, 24, 0, 28, 0, TRUE, TRUE)
Records    == TextShape(5, 44, 24, 40, 28, 0, TRUE, TRUE)
Dictionary == TextShape(6, 44, 28, 0, 32, 24, TRUE, TRUE)
Odd        == TextShape(6, 42, 24, 0, 28, 0, TRUE, TRUE)
Treeless   == [TextShape(7, 32, 24, 0, 0, 0, TRUE, TRUE) EXCEPT !.strings = 0]
NoPointer  == TextShape(5, 40, 24, 0, 28, 0, FALSE, TRUE)
NoC        == TextShape(5, 40, 28, 0, 32, 0, TRUE, TRUE)
Unparsed   == TextShape(5, 40, 24, 0, 36, 0, TRUE, FALSE)
Wide       == TextShape(7, 76, 24, 0, 72, 0, TRUE, TRUE)

Shapes == {Plain, Records, Dictionary, Odd, Treeless, NoPointer, NoC, Unparsed}

Put(shape, offset) == [at |-> offset] @@ shape
Up(n) == ((n + 3) \div 4) * 4

\* Two blocks one behind the other, the image just long enough for them or a word short.
Pairs == {[len |-> Up(first + x.a + 4) + y.a + 4 - short,
           blocks |-> {Put(x, first), Put(y, Up(first + x.a + 4))}] :
            x \in Shapes, y \in Shapes, first \in {0, 4}, short \in {0, 4}}

\* A block in the data of another.
Nested == {[len |-> 80 + 44, blocks |-> {Put(Wide, 0), Put(x, 28), Put(Plain, 80)}] :
             x \in {Plain, NoPointer, Records}}

Images == Pairs \cup Nested

Sub(type, dlen, lzs, image) == [type |-> type, dlen |-> dlen, lzs |-> lzs, image |-> image]
BlockHead(nsec, tlen, zero, subs) == [nsec |-> nsec, tlen |-> tlen, zero |-> zero, subs |-> subs]

Raw(image) == Sub(46, image.len, FALSE, image)
Packed(image) == Sub(46, 20, TRUE, image)
Blank(type, dlen) == Sub(type, dlen, FALSE, [len |-> dlen, blocks |-> {}])
Other      == Blank(39, 12)

Good(subs) ==
  LET total == IF Len(subs) = 1 THEN subs[1].dlen ELSE subs[1].dlen + subs[2].dlen
  IN BlockHead(Ceil(Header + Len(subs) * Header + total, Sector), total, 0, subs)

Archive(first, second) ==
  [len |-> 8 * Sector, headers |-> (0 :> first) @@ (4 :> second)]

Twin == [len |-> 92, blocks |-> {Put(Dictionary, 0), Put(Plain, 48)}]

Archives ==
  {Archive(Good(<<Packed(x), Other>>), Good(<<Raw(x)>>)) : x \in Images} \cup
  {Archive(Good(<<Raw(Twin), Raw(x)>>), Good(<<Packed(Twin)>>)) : x \in Images} \cup
  {Archive(Good(<<Raw(Twin)>>), h) :
     h \in {BlockHead(1, 92 + 4, 0, <<Raw(Twin)>>), BlockHead(3, 92 + Sector, 0, <<Raw(Twin)>>), BlockHead(2, 92, 0, <<Raw(Twin)>>),
            BlockHead(2, 92, 1, <<Raw(Twin)>>), BlockHead(0, 0, 0, <<>>),
            BlockHead(2, 68, 0, <<Other, Other, Other, Blank(46, 32)>>),
            Good(<<Other, Packed(Twin)>>)}} \cup
  {[len |-> 2 * Sector, headers |-> (0 :> Good(<<Raw(Twin)>>)) @@ (1 :> Good(<<Raw(Twin)>>))]}

NoWords == [o \in {} |-> 0]
Exe(blks, words) == [len |-> 180, tsize |-> 172, blocks |-> blks, words |-> words]
ExeEmpty == Exe({}, NoWords)

ExeBlks ==
  {{Put(Plain, 32), Put(Dictionary, 80)}, {Put(Plain, 32), Put([Plain EXCEPT !.strings = 1], 80)},
   {Put(Treeless, 32), Put(NoPointer, 80)}, {Put(Plain, 32), Put(Unparsed, 80)}}

Values == {[id |-> 0, string |-> 0], [id |-> 5, string |-> 2], [id |-> 5, string |-> 3],
           [id |-> 6, string |-> 1]}
WordsOf == [{0, 4, 8, 12, 24, 172} -> Values]

MCTables == <<[base |-> 0, stride |-> 12, fields |-> <<0, 4>>],
              [base |-> 24, stride |-> 148, fields |-> <<0>>]>>

MCDiscs ==
  {[arch |-> a, exe |-> ExeEmpty] : a \in Archives} \cup
  {[arch |-> [len |-> Sector, headers |-> NoWords], exe |-> Exe(b, w)] : b \in ExeBlks, w \in WordsOf}
=============================================================================
