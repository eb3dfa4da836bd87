-------------------------------- MODULE MCLzs --------------------------------
(***************************************************************************)
(* Bytes of two bits and a ring of eight: a match is of three or four      *)
(* bytes, and data of ten bytes run over the ring and its chains.  Every   *)
(* stream of up to five bytes is decompressed.                             *)
(***************************************************************************)
EXTENDS Lzs

Words(letters, most) == UNION {[1 .. n -> letters] : n \in 0 .. most}

MCDatas == Words({0, 1}, 10) \cup Words({0, 1, 3}, 6)
MCStreams == Words(Bytes, 5)
=============================================================================
