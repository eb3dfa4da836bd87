----------------------------- MODULE MCSplitImm -----------------------------
(***************************************************************************)
(* Immediates of two bits, so that a low half of 2 or 3 is negative to     *)
(* addiu.  One register is written in every way, a second is its decoy,    *)
(* and the hardwired zero takes a pair as well.  The references lie on     *)
(* both sides of every carry, the last of them where it wraps around.      *)
(***************************************************************************)
EXTENDS SplitImm

MCRegs == {0, 1, 2, 31}

W(op, rt, rs, rd, imm) == [op |-> op, rs |-> rs, rt |-> rt, rd |-> rd, imm |-> imm]

MCInstructions ==
  {W("lui", 1, 0, 0, i) : i \in {0, 2, 3}} \cup
  {W(op, 1, 1, 0, i) : op \in {"ori", "addiu"}, i \in {1, 3}} \cup
  {W("lui", 2, 0, 0, 2), W("ori", 2, 2, 0, 3), W("addiu", 1, 2, 0, 3), W("ori", 2, 1, 0, 1),
   W("lui", 0, 0, 0, 2), W("ori", 0, 0, 0, 1), W("lui", 1, 2, 0, 2),
   W("load", 1, 2, 0, 0), W("alu", 2, 2, 1, 0), W("alu", 0, 0, 0, 0), W("store", 1, 2, 0, 0),
   W("jr", 0, 31, 0, 0), W("jal", 0, 0, 0, 0), W("jalr", 0, 2, 1, 0)}

MCStarts == {1, 3, 7}
=============================================================================
