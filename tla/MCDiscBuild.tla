----------------------------- MODULE MCDiscBuild -----------------------------
(***************************************************************************)
(* An image of five sectors of two cells: the directory, the executable,   *)
(* an archive of three cells, whose second sector has slack and an EDC the *)
(* mastering left off, and a last sector of neither file.  A build may     *)
(* inject what is there already, new files, or an archive of the wrong     *)
(* size.                                                                   *)
(***************************************************************************)
EXTENDS DiscBuild

Sealed(c, d) == [user |-> <<c, d>>, seal |-> <<c, d>>]
MCCells == {"dir", "x", "a", "slack", "z", "X", "A", "B"}
MCBase == << Sealed("dir", "dir"), Sealed("x", "x"), Sealed("a", "a"),
             [user |-> <<"a", "slack">>, seal |-> Off], Sealed("z", "z") >>
MCExtent == [exe |-> [lba |-> 2, size |-> 2], archive |-> [lba |-> 3, size |-> 3]]
MCPayloads == [exe |-> {<<"X", "x">>}, archive |-> {<<"a", "a", "a">>, <<"A", "A", "B">>, <<"A">>}]
MCJobs == << [src |-> "base", out |-> "tmp", name |-> "exe"],
             [src |-> "tmp", out |-> "out", name |-> "archive"] >>
=============================================================================
