----------------------------- MODULE MCTextCodec -----------------------------
(***************************************************************************)
(* Pages of two words, so that nodes from 2 on need the wide form.  Trees  *)
(* of up to five symbols of every kind under two weights, and of six       *)
(* under four in rising order; streams of up to three bytes of two bits.   *)
(***************************************************************************)
EXTENDS TextCodec

S(kind, value) == [kind |-> kind, value |-> value]

MCOrder == << S("CTRL", 14), S("DICT", 12), S("END", 0),
              S("SJIS", 17), S("SJIS", 20), S("SJIS", 27) >>

Rising == {f \in [Symbols -> {1, 2, 3, 5}] : \A j, k \in DOMAIN Order : j < k => f[Order[j]] <= f[Order[k]]}
MCFrequencies == UNION {[used -> {1, 3}] : used \in SUBSET (Symbols \ {MCOrder[5]})} \cup Rising

MCTexts ==
  LET c == MCOrder[1]  d == MCOrder[2]  e == MCOrder[3]  x == MCOrder[4]
  IN {<<>>, <<x, e>>, <<c, x, e>>, <<e, d, e>>}
=============================================================================
