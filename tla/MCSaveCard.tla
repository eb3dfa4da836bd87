------------------------------ MODULE MCSaveCard ------------------------------
(***************************************************************************)
(* Two blocks, four chunks of four cells.  Record 0's name lies in chunk   *)
(* 1; record 1's begins in chunk 2 and ends in chunk 3, as record 15's     *)
(* does over chunks 19 and 20 of a real save; cells between them are game  *)
(* state.  Fields hold a Japanese name, an English one, a full field,      *)
(* nothing, bytes after the terminator, and bytes that are not Shift-JIS.  *)
(***************************************************************************)
EXTENDS SaveCard, TLC

CONSTANTS ja, jb,             \* Japanese characters
          wa, wb, ws,         \* fullwidth Latin, and the fullwidth space
          a, b, s,            \* their ASCII forms
          zero, unreadable, state

MCFullwidth == {wa, wb, ws}
MCCells == {ja, jb, wa, wb, ws, zero, unreadable, state} \cup SUBSET (0 .. 3)
MCAscii == wa :> a @@ wb :> b @@ ws :> s

Names == {<<ja, zero, zero>>, <<wa, wb, zero>>, <<wa, zero, zero>>, <<jb, jb, jb>>,
          <<zero, zero, zero>>, <<ja, zero, ja>>, <<unreadable, zero, zero>>}
Places == {<<ja, ws, ws>>, <<wa, ws, wb>>, <<ws, ws, ws>>}
Maps == {{0, 1, 2, 3}, {0, 1, 2}, {1, 2, 3}}

\* A save the game sealed; `bad` is a chunk whose seal fails, if any, 4 the title's.
Save(n0, n1, place, map, bad) ==
  LET ram == [o \in 0..15 |-> CASE o = 0 -> map
                                [] o \in 5..7 -> n0[o - 4]
                                [] o \in 10..12 -> n1[o - 9]
                                [] OTHER -> state]
      payload == [c \in 0..3 |-> [j \in 0..3 |-> ram[4 * c + j]]]
  IN [sc |-> TRUE, place |-> place, xor |-> IF bad = 4 THEN <<>> ELSE place,
      payload |-> payload,
      crc |-> [c \in 0..3 |-> IF c = bad THEN [j \in 0..3 |-> unreadable] ELSE payload[c]]]

Erased == [Save(<<ja, zero, zero>>, <<ja, zero, zero>>, <<ja, ws, ws>>, {}, 4)
             EXCEPT !.sc = FALSE]

Whole == {0, 1, 2, 3}
Japanese == Save(<<ja, zero, zero>>, <<jb, jb, jb>>, <<ja, ws, ws>>, Whole, 9)

FirstBlocks ==
  {Save(n0, n1, <<ja, ws, ws>>, Whole, 9) : n0 \in Names, n1 \in Names}
  \cup {Save(<<ja, zero, zero>>, n1, place, map, bad) :
          n1 \in {<<wa, zero, zero>>, <<jb, jb, jb>>}, place \in Places, map \in Maps, bad \in {3, 4, 9}}

MCSaves ==
  {1 :> x @@ 2 :> Erased : x \in FirstBlocks} \cup {1 :> Japanese @@ 2 :> Japanese}

r1 == << <<ja>>, <<a>> >>
r2 == << <<ja>>, <<b, a>> >>
r3 == << <<jb, jb, jb>>, <<a, s, b>> >>
r4 == << <<jb, jb, jb>>, <<a, b, a, b>> >>
r5 == << <<ja>>, <<jb>> >>
r6 == << <<wa>>, <<b>> >>
r7 == << <<a>>, <<b>> >>
MCGlossaryFiles == {{r1, r3}, {r2, r3}, {r1, r2}, {r1, r4}, {r5}, {r1, r6}, {r1, r7}, {}}
NoRename == [k \in {} |-> <<>>]
MCRenames == {NoRename, <<a>> :> <<b>>, <<a, b>> :> <<>>}
MCOptions == {[party |-> TRUE, place |-> TRUE], [party |-> FALSE, place |-> TRUE],
              [party |-> TRUE, place |-> FALSE]}
=============================================================================
