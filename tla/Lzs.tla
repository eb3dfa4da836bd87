--------------------------------- MODULE Lzs ---------------------------------
(***************************************************************************)
(* dq4/lzs_comp.py and dq4/lzs.py: the compressor, one token a step, and   *)
(* the decompressor over what it wrote, over any part of it, or over any   *)
(* bytes at all.                                                           *)
(*                                                                         *)
(* Bytes and packed fields are the integers they are.  The inner loop of   *)
(* either function moves one byte into the ring a turn, and so does a step *)
(* here.                                                                   *)
(***************************************************************************)
EXTENDS Integers, Sequences

CONSTANTS
  Bits,       \* 8: flags of a group, bits of a byte
  Byte,       \* 2^8
  LenSpan,    \* 2^4: what the length nibble of a match can say
  Threshold,  \* 2: a match is longer
  MaxChain,   \* max_chain
  Datas,      \* what is to be compressed
  Streams     \* what a sub-block that is decompressed may hold

N == Byte * (Byte \div LenSpan)     \* the ring: an offset is a byte and a nibble
F == Threshold + LenSpan            \* the longest match

\* 1 << b
Weight[b \in Nat] == IF b = 0 THEN 1 ELSE 2 * Weight[b - 1]

Bytes == 0 .. Byte - 1
Ring  == 0 .. N - 1
None  == -1

ASSUME SizeAssumption ==
  /\ Bits \in Nat \ {0} /\ Byte = Weight[Bits]
  /\ LenSpan \in Nat \ {0} /\ Byte % LenSpan = 0
  /\ Threshold = 2 /\ F <= N
  /\ MaxChain \in Nat

ASSUME InputAssumption == Datas \subseteq Seq(Bytes) /\ Streams \subseteq Seq(Bytes)

VARIABLES
  phase,     \* "compress", "slide", "written", "decompress", "copy" or "done"
  data,      \* compress: its input, or NoData
  i, ring, r,      \* compress: bytes moved into the ring, the ring, where the next one goes
  head, prev,      \* compress: key -> where it last began; where -> where before that
  left,            \* compress: bytes of the last token still to move
  stream,          \* the output of the one, the input of the other
  flagpos, flagbit, flags,
  at, dflags,      \* decompress: bytes read, and the flags with their guard bits above them
  dring, dr,       \* decompress: its ring
  match,           \* decompress: the ring offset and the bytes of a match still to copy
  out,
  whole            \* observation, read by no action: has the stream not been cut?

compressor   == <<data, i, ring, r, head, prev, left, flagpos, flagbit, flags>>
decompressor == <<at, dflags, dring, dr, match, out>>
vars == <<phase, compressor, stream, decompressor, whole>>

NoData   == <<None>>
NoMatch  == [off |-> 0, left |-> 0]
ZeroRing == [p \in Ring |-> 0]

Init ==
  /\ \/ data \in Datas /\ stream = <<>> /\ phase = "compress"
     \/ data = NoData /\ stream \in Streams /\ phase = "decompress"
  /\ i = 0 /\ ring = ZeroRing /\ r = N - F
  /\ head = [k \in {} |-> None] /\ prev = [p \in Ring |-> None]
  /\ left = 0
  /\ flagpos = 0 /\ flagbit = 0 /\ flags = 0
  /\ at = 0 /\ dflags = 0 /\ dring = ZeroRing /\ dr = N - F
  /\ match = NoMatch /\ out = <<>>
  /\ whole = TRUE

----------------------------------------------------------------------------
(* compress. *)

\* Mutant of Source: verify does not see the bytes the match itself will have written.
SourceStale(off, k) == ring[(off + k) % N]

\* verify's view of the ring at offset off + k, when the k bytes before have been written to it.
Source(off, k) ==
  LET p == (off + k) % N
      written == (p - r) % N
  IN IF written < k THEN data[i + written + 1] ELSE ring[p]

\* verify: how many bytes agree.
Agrees(off, n)    == \A k \in 0 .. n - 1 : Source(off, k) = data[i + k + 1]
Verify(off, most) == CHOOSE n \in 0 .. most : Agrees(off, n) /\ (n < most => ~Agrees(off, n + 1))

\* head, and back from there; a link may be to a place that has been written over since.
Chain(key) ==
  LET Link[c \in 0 .. MaxChain] ==
        IF c = 0 THEN IF key \in DOMAIN head THEN head[key] ELSE None
        ELSE IF Link[c - 1] = None THEN None ELSE prev[Link[c - 1]]
  IN Link

\* The chain, a run of the previous byte, and a place not written yet.
Candidates ==
  LET chain == Chain(SubSeq(data, i + 1, i + 3))
  IN [c \in 1 .. MaxChain + 2 |-> IF c <= MaxChain THEN chain[c - 1]
                                  ELSE IF c = MaxChain + 1 THEN (r - 1) % N
                                  ELSE (r + 1) % N]

\* The first of the candidates that agree the longest; a chain that has ended has none.
Best(cands, most) ==
  LET length == [c \in DOMAIN cands |-> IF cands[c] = None THEN 0 ELSE Verify(cands[c], most)]
      first  == CHOOSE c \in DOMAIN cands :
                  /\ \A d \in DOMAIN cands : length[d] <= length[c]
                  /\ \A d \in 1 .. c - 1 : length[d] < length[c]
  IN [off |-> cands[first], len |-> length[first]]

\* One turn of compress, up to the loop that moves the token into the ring.
Token ==
  LET most  == IF Len(data) - i < F THEN Len(data) - i ELSE F
      best  == IF most > Threshold THEN Best(Candidates, most) ELSE [off |-> 0, len |-> 0]
      found == best.len > Threshold
      new   == flagbit = 0
      bit   == IF new THEN 1 ELSE flagbit
      pos   == IF new THEN Len(stream) + 1 ELSE flagpos
      set   == (IF new THEN 0 ELSE flags) + (IF found THEN 0 ELSE Weight[bit - 1])
      token == IF found THEN << best.off % Byte,
                                (best.off \div Byte) * LenSpan + best.len - Threshold - 1 >>
                        ELSE << data[i + 1] >>
      grown == (IF new THEN Append(stream, 0) ELSE stream) \o token
  IN
  /\ phase = "compress" /\ i < Len(data)
  /\ left' = IF found THEN best.len ELSE 1
  /\ flagpos' = pos /\ flags' = set
  /\ IF bit = Bits
       THEN flagbit' = 0 /\ stream' = [grown EXCEPT ![pos] = set]
       ELSE flagbit' = bit + 1 /\ stream' = grown
  /\ phase' = "slide"
  /\ UNCHANGED <<data, i, ring, r, head, prev, decompressor, whole>>

\* One byte of a token into the ring, and the three bytes that end with it into the chains.
Slide ==
  LET sp  == (r - 2) % N
      key == <<ring'[sp], ring'[(sp + 1) % N], ring'[(sp + 2) % N]>>
  IN
  /\ phase = "slide"
  /\ ring' = [ring EXCEPT ![r] = data[i + 1]]
  /\ IF i + 1 >= 3
       THEN /\ prev' = [prev EXCEPT ![sp] = IF key \in DOMAIN head THEN head[key] ELSE None]
            /\ head' = [k \in DOMAIN head \cup {key} |-> IF k = key THEN sp ELSE head[k]]
       ELSE UNCHANGED <<head, prev>>
  /\ r' = (r + 1) % N
  /\ i' = i + 1 /\ left' = left - 1
  /\ phase' = IF left' = 0 THEN "compress" ELSE "slide"
  /\ UNCHANGED <<data, stream, flagpos, flagbit, flags, decompressor, whole>>

\* Mutant of Finish: the flags of the last, short group are not stored.
FinishBare ==
  /\ phase = "compress" /\ i = Len(data)
  /\ phase' = "written"
  /\ UNCHANGED <<compressor, stream, decompressor, whole>>

Finish ==
  /\ phase = "compress" /\ i = Len(data)
  /\ stream' = IF flagbit # 0 THEN [stream EXCEPT ![flagpos] = flags] ELSE stream
  /\ phase' = "written"
  /\ UNCHANGED <<compressor, decompressor, whole>>

----------------------------------------------------------------------------
(* decompress. *)

\* The sub-block is read back, or what a wrong length leaves of it.
ReadBack(length) ==
  /\ phase = "written"
  /\ stream' = SubSeq(stream, 1, length)
  /\ whole' = (length = Len(stream))
  /\ phase' = "decompress"
  /\ UNCHANGED <<compressor, decompressor>>

Emit(c) ==
  /\ out' = Append(out, c)
  /\ dring' = [dring EXCEPT ![dr] = c]
  /\ dr' = (dr + 1) % N

\* The input ends inside a token: nothing of the token comes out.
Stop == phase' = "done" /\ UNCHANGED <<match, out, dring, dr>>

\* One turn of the loop: flags when the guard bits have run out, then a token, if it is whole.
Turn ==
  LET shifted == dflags \div 2
      reload  == (shifted \div Byte) % 2 = 0
      now     == IF reload THEN (Byte - 1) * Byte + stream[at + 1] ELSE shifted
      j       == IF reload THEN at + 1 ELSE at
  IN
  /\ phase = "decompress" /\ at < Len(stream)
  /\ dflags' = now
  /\ \/ /\ now % 2 = 1 /\ j < Len(stream)
        /\ Emit(stream[j + 1])
        /\ at' = j + 1
        /\ UNCHANGED <<phase, match>>
     \/ /\ now % 2 = 0 /\ j + 1 < Len(stream)
        /\ match' = [off  |-> (stream[j + 2] \div LenSpan) * Byte + stream[j + 1],
                     left |-> (stream[j + 2] % LenSpan) + Threshold + 1]
        /\ at' = j + 2
        /\ phase' = "copy"
        /\ UNCHANGED <<out, dring, dr>>
     \/ /\ IF now % 2 = 1 THEN j >= Len(stream) ELSE j + 1 >= Len(stream)
        /\ at' = j
        /\ Stop
  /\ UNCHANGED <<compressor, stream, whole>>

\* Mutant of Copy: the ring is not written while a match is copied.
CopyBlind ==
  /\ phase = "copy"
  /\ out' = Append(out, dring[match.off])
  /\ dr' = (dr + 1) % N
  /\ match' = [off |-> (match.off + 1) % N, left |-> match.left - 1]
  /\ phase' = IF match.left = 1 THEN "decompress" ELSE "copy"
  /\ UNCHANGED <<compressor, stream, at, dflags, dring, whole>>

Copy ==
  /\ phase = "copy"
  /\ Emit(dring[match.off])
  /\ match' = [off |-> (match.off + 1) % N, left |-> match.left - 1]
  /\ phase' = IF match.left = 1 THEN "decompress" ELSE "copy"
  /\ UNCHANGED <<compressor, stream, at, dflags, whole>>

EndOfStream ==
  /\ phase = "decompress" /\ at = Len(stream)
  /\ phase' = "done"
  /\ UNCHANGED <<compressor, stream, decompressor, whole>>

Next ==
  \/ Token \/ Slide \/ Finish
  \/ \E length \in 0 .. Len(stream) : ReadBack(length)
  \/ Turn \/ Copy \/ EndOfStream

Spec == Init /\ [][Next]_vars

\* decompress_exact and overrun, for a declared length.
Exact(length)   == SubSeq(out, 1, IF length < Len(out) THEN length ELSE Len(out))
Overrun(length) == Len(out) - length

----------------------------------------------------------------------------
(* Properties. *)

\* Types, a part of RingIsWindow below.
TypeOK ==
  /\ phase \in {"compress", "slide", "written", "decompress", "copy", "done"}
  /\ data \in Datas \cup {NoData}
  /\ i \in 0 .. Len(data) /\ left \in 0 .. F
  /\ ring \in [Ring -> Bytes] /\ r \in Ring
  /\ DOMAIN head \subseteq Bytes \X Bytes \X Bytes /\ \A k \in DOMAIN head : head[k] \in Ring
  /\ prev \in [Ring -> Ring \cup {None}]
  /\ stream \in Seq(Bytes)
  /\ flagpos \in 0 .. Len(stream) \/ phase \in {"decompress", "copy", "done"}
  /\ flagbit \in 0 .. Bits /\ flags \in Bytes
  /\ at \in 0 .. Len(stream) /\ dflags \in 0 .. Byte * Byte - 1
  /\ dring \in [Ring -> Bytes] /\ dr \in Ring
  /\ match.off \in Ring /\ match.left \in 0 .. F
  /\ out \in Seq(Bytes)
  /\ whole \in BOOLEAN

\* "compress(data) returns an LZSS stream that lzs.decompress() turns back into data", with no
\* overrun, though the one searches chains of links into a ring it has written over since, and
\* the other copies from the bytes it is writing.  Of a stream that is cut short a beginning of
\* the data comes back, and never a byte that is not there.
RoundTrip ==
  phase = "done" /\ data # NoData =>
    /\ whole => out = data /\ Overrun(Len(data)) = 0
    /\ Len(out) <= Len(data) /\ Exact(Len(data)) = SubSeq(data, 1, Len(out))

\* Either ring is the last N bytes behind it, newest first, and zeros before the first: an
\* offset means the same byte to both sides, whatever was written over.
Window(seq, n, k) == IF k <= n THEN seq[n - k + 1] ELSE 0

RingIsWindow ==
  /\ TypeOK
  /\ \A k \in 1 .. N :
       /\ data # NoData => ring[(r - k) % N] = Window(data, i, k)
       /\ dring[(dr - k) % N] = Window(out, Len(out), k)
=============================================================================
