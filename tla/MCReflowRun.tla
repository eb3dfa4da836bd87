----------------------------- MODULE MCReflowRun -----------------------------
(***************************************************************************)
(* Two saves of the game, each with the two cards its reflows under two    *)
(* glossaries make of it, and one card whose checksums fail.  Glossary A   *)
(* leaves a card it has reflowed alone; glossary B changes A's cards.      *)
(***************************************************************************)
EXTENDS ReflowRun, TLC

CONSTANTS g1, g1A, g1B, g2, g2B, damaged, A, B

MCValid == {g1, g1A, g1B, g2, g2B}
MCCards == MCValid \cup {damaged}
MCReflowed ==
  (A :> (g1 :> g1A @@ g1A :> g1A @@ g1B :> g1B @@ g2 :> g2 @@ g2B :> g2B)) @@
  (B :> (g1 :> g1B @@ g1A :> g1B @@ g1B :> g1B @@ g2 :> g2B @@ g2B :> g2B))
=============================================================================
