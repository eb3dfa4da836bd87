---------------------------- MODULE MCSectorTable ----------------------------
(***************************************************************************)
(* An archive of six sectors and a table of four words: two levels that    *)
(* name the same text block or one that has two, a level that names a      *)
(* block without text, one that points into the video band, and an address *)
(* with bit 31 set.  Lengths fit in two bits, LBAs in three.               *)
(***************************************************************************)
EXTENDS SectorTable, TLC

Block(id, nsec, text) == [id |-> id, nsec |-> nsec, text |-> text]

Word(flag, len, sector) == Pack(len, sector + ArchiveBase, flag)

\* A text block of two sectors, a block of one sector without text.
Plain == 0 :> Block(1, 2, TRUE) @@ 2 :> Block(2, 1, FALSE)

MCBases ==
  {[archive |-> Plain,
    table |-> (-1 :> 1 @@ 0 :> Word(0, 2, 0) @@ 1 :> Word(0, shared[1], shared[2])
               @@ 2 :> Word(0, 2, 4) @@ 3 :> Word(1, 1, 3) @@ 4 :> 1)] :
     shared \in {<<2, 0>>, <<1, 2>>}}

MCNewLengths == {1, 2, 4}
MCNewLbas == {1, 4, 8}
=============================================================================
