------------------------------- MODULE MCCorpus -------------------------------
(***************************************************************************)
(* Four decodes: the source disc, a build that reached one of two copies   *)
(* of a block, a build with other texts, two of one id in the executable,  *)
(* and no dictionaries, and one whose edited overlay block is found beside *)
(* the unedited one.                                                       *)
(***************************************************************************)
EXTENDS CorpusTree

Copy(id, text, sector, dict) == [id |-> id, text |-> text, sector |-> sector, dict |-> dict]
ExeBlock(id, text, va) == [id |-> id, text |-> text, va |-> va]
OvBlock(id, text, site, dict) == [id |-> id, text |-> text, site |-> site, dict |-> dict]

Disc == [archive |-> {Copy(1, 2, 10, TRUE), Copy(1, 2, 11, TRUE)},
         exe |-> {ExeBlock(7, 1, 20)}, overlay |-> {OvBlock(8, 1, 30, TRUE)}, table |-> 1]

\* One copy edited, before or behind the other in the order of digests; the table has moved.
Partial == [Disc EXCEPT !.archive = {Copy(1, 2, 10, TRUE), Copy(1, 3, 11, TRUE)}, !.table = 2]
Other   == [archive |-> {Copy(1, 1, 10, FALSE), Copy(1, 2, 11, TRUE), Copy(2, 1, 12, FALSE)},
            exe |-> {ExeBlock(7, 1, 20), ExeBlock(6, 1, 21), ExeBlock(7, 2, 22)},
            overlay |-> {OvBlock(8, 2, 30, FALSE)},
            table |-> 1]
Doubled == [Disc EXCEPT !.overlay = {OvBlock(8, 1, 31, TRUE), OvBlock(8, 2, 30, FALSE)}]

MCGens == {Disc, Partial, Other, Doubled}
MCTree   == [g \in MCGens |-> TreeOf(g)]
MCWrites == MCTree
=============================================================================
