------------------------------ MODULE LzsProofs ------------------------------
(***************************************************************************)
(* The ring of either side is the window of what went through it, and what *)
(* compress writes comes back from decompress, for any data, any stream    *)
(* and any size of byte, ring and match.                                   *)
(***************************************************************************)
EXTENDS Lzs, NaturalLemmas

\* 1 << b doubles.
LEMMA WeightDoubles ==
  Weight[0] = 1 /\ \A n \in Nat : Weight[n] \in Nat \ {0} /\ Weight[n + 1] = 2 * Weight[n]
<1> DEFINE step == [p \in Nat \X (Nat \ {0}) |-> 2 * p[2]]
           E(f) == [b \in Nat |-> IF b = 0 THEN 1 ELSE 2 * f[b - 1]]
<1>1. step \in [Nat \X (Nat \ {0}) -> Nat \ {0}] OBVIOUS
<1>2. \A n \in Nat, w \in Nat \ {0} : step[<<n, w>>] = 2 * w OBVIOUS
<1> HIDE DEF step
<1>3. PICK f \in [Nat -> Nat \ {0}] : f[0] = 1 /\ \A n \in Nat : f[n + 1] = step[<<n, f[n]>>]
  <2> DEFINE S == Nat \ {0}
  <2>1. 1 \in S /\ step \in [Nat \X S -> S] BY <1>1
  <2> HIDE DEF S
  <2>2. PICK f : Iterates(f, S, 1, step) BY <2>1, Iteration
  <2> QED BY <2>2 DEF Iterates, S
<1>4. f = E(f)
  <2>1. ASSUME NEW b \in Nat PROVE f[b] = IF b = 0 THEN 1 ELSE 2 * f[b - 1]
    <3>1. CASE b = 0 BY <3>1, <1>3
    <3>2. CASE b # 0
      <4>1. b - 1 \in Nat /\ (b - 1) + 1 = b BY <3>2
      <4>2. f[b - 1] \in Nat \ {0} BY <4>1, <1>3
      <4> QED BY <3>2, <4>1, <4>2, <1>2, <1>3
    <3> QED BY <3>1, <3>2
  <2> QED BY <2>1, <1>3
<1>5. Weight = E(Weight) BY <1>4 DEF Weight
<1>6. ASSUME NEW n \in Nat PROVE Weight[n + 1] = 2 * Weight[n]
  <2>1. n + 1 \in Nat /\ n + 1 # 0 /\ (n + 1) - 1 = n OBVIOUS
  <2> QED BY <1>5, <2>1
<1>7. Weight[0] = 1 BY <1>5
<1> DEFINE T == {n \in Nat : Weight[n] \in Nat \ {0}}
<1>8. 0 \in T BY <1>7
<1>9. \A n \in Nat : n \in T => n + 1 \in T BY <1>6
<1> HIDE DEF T
<1>10. Nat \subseteq T BY <1>8, <1>9, Inductive
<1> QED BY <1>6, <1>7, <1>10 DEF T

\* 1 << (m + k) is 1 << m, k times doubled.
LEMMA WeightSplits ==
  ASSUME NEW m \in Nat
  PROVE  \A k \in Nat : Weight[m + k] = Weight[m] * Weight[k]
<1> DEFINE T == {k \in Nat : Weight[m + k] = Weight[m] * Weight[k]}
<1>1. 0 \in T BY WeightDoubles
<1>2. ASSUME NEW k \in Nat, k \in T PROVE k + 1 \in T
  <2>1. m + k \in Nat /\ m + (k + 1) = (m + k) + 1 OBVIOUS
  <2>2. Weight[m + (k + 1)] = 2 * Weight[m + k] /\ Weight[k + 1] = 2 * Weight[k]
    BY <2>1, WeightDoubles
  <2>3. Weight[m] \in Nat /\ Weight[k] \in Nat BY WeightDoubles
  <2>4. Weight[m + k] = Weight[m] * Weight[k] BY <1>2
  <2>5. \A a, b \in Nat : 2 * (a * b) = a * (2 * b) OBVIOUS
  <2> QED BY <2>2, <2>3, <2>4, <2>5
<1> HIDE DEF T
<1>3. Nat \subseteq T BY <1>1, <1>2, Inductive
<1> QED BY <1>3 DEF T

\* Half of a byte's weight is a weight, so a byte is even; a lower weight is no more.
LEMMA Sizes ==
  /\ Bits \in Nat \ {0} /\ Byte \in Nat /\ Byte >= 2 /\ LenSpan \in Nat \ {0}
  /\ Byte \div LenSpan \in Nat \ {0} /\ Byte = (Byte \div LenSpan) * LenSpan
  /\ N \in Nat \ {0} /\ F = LenSpan + 2 /\ F <= N /\ Threshold = 2 /\ MaxChain \in Nat
  /\ Byte = Weight[Bits]
<1>1. Bits \in Nat /\ Bits - 1 \in Nat /\ (Bits - 1) + 1 = Bits BY SizeAssumption
<1>2. Byte = 2 * Weight[Bits - 1] /\ Weight[Bits - 1] \in Nat \ {0}
  BY <1>1, WeightDoubles, SizeAssumption
<1>3. Byte \in Nat /\ Byte >= 2 BY <1>2
<1>4. LenSpan \in Nat \ {0} /\ Byte % LenSpan = 0 /\ Byte \in Int BY <1>3, SizeAssumption
<1> DEFINE q == Byte \div LenSpan
<1>5. q \in Int /\ Byte = q * LenSpan + (Byte % LenSpan) BY <1>4, DivMod
<1> HIDE DEF q
<1>6. Byte = q * LenSpan BY <1>4, <1>5
<1>7. q >= 1
  <2> SUFFICES ASSUME q <= 0 PROVE FALSE BY <1>5
  <2>1. q * LenSpan <= 0 * LenSpan BY <1>4, <1>5, TimesMonotone
  <2> QED BY <2>1, <1>3, <1>4, <1>6
<1>8. Byte * q \in Nat \ {0}
  <2>1. q * Byte >= Byte BY <1>3, <1>5, <1>7, AtLeastOnce
  <2>2. Byte * q = q * Byte BY <1>3, <1>5
  <2> QED BY <2>1, <2>2, <1>3, <1>5
<1>9. N = Byte * q BY DEF N, q
<1>10. F = LenSpan + 2 /\ F <= N /\ Threshold = 2 /\ MaxChain \in Nat /\ Byte = Weight[Bits]
  BY <1>4, SizeAssumption DEF F
<1>11. q \in Nat \ {0} BY <1>5, <1>7
<1>12. Bits \in Nat \ {0} BY SizeAssumption
<1>13. N \in Nat \ {0} BY <1>8, <1>9
<1> QED BY <1>3, <1>4, <1>6, <1>10, <1>11, <1>12, <1>13 DEF q

\* A lower weight divides a higher one.
LEMMA WeightBelow ==
  ASSUME NEW m \in 0 .. Bits
  PROVE  /\ Weight[m] \in Nat \ {0} /\ Weight[Bits - m] \in Nat \ {0}
         /\ Byte = Weight[Bits - m] * Weight[m] /\ Weight[m] <= Byte
         /\ m < Bits => Weight[Bits - m] = 2 * Weight[Bits - m - 1]
<1>1. m \in Nat /\ Bits - m \in Nat /\ (Bits - m) + m = Bits BY Sizes
<1>2. Weight[m] \in Nat \ {0} /\ Weight[Bits - m] \in Nat \ {0} BY <1>1, WeightDoubles
<1>3. Weight[(Bits - m) + m] = Weight[Bits - m] * Weight[m] BY <1>1, WeightSplits
<1>4. Byte = Weight[Bits - m] * Weight[m] BY <1>1, <1>3, Sizes
<1>5. Weight[Bits - m] * Weight[m] >= Weight[m] BY <1>2, AtLeastOnce
<1>6. ASSUME m < Bits PROVE Weight[Bits - m] = 2 * Weight[Bits - m - 1]
  <2>1. Bits - m - 1 \in Nat /\ (Bits - m - 1) + 1 = Bits - m BY <1>1, <1>6
  <2> QED BY <2>1, WeightDoubles
<1> QED BY <1>2, <1>4, <1>5, <1>6

(***************************************************************************)
(* The ring.                                                               *)
(***************************************************************************)

\* The remainder of a number that is the divisor, at most, away from the range of remainders.
LEMMA Wraps ==
  ASSUME NEW n \in Nat \ {0}, NEW x \in Int
  PROVE  /\ x \in 0 .. n - 1 => x % n = x
         /\ x + n \in 0 .. n - 1 => x % n = x + n
         /\ x - n \in 0 .. n - 1 => x % n = x - n
<1>1. x = 0 * n + x /\ x = (-1) * n + (x + n) /\ x = 1 * n + (x - n) OBVIOUS
<1>2. x \in 0 .. n - 1 => x % n = x BY <1>1, DivModUnique
<1>3. ASSUME x + n \in 0 .. n - 1 PROVE x % n = x + n
  <2> DEFINE y == x + n
             q == -1
  <2>1. y \in 0 .. n - 1 /\ q \in Int /\ x = q * n + y BY <1>1, <1>3
  <2> HIDE DEF y, q
  <2>2. x % n = y BY <2>1, DivModUnique
  <2> QED BY <2>2 DEF y
<1>4. ASSUME x - n \in 0 .. n - 1 PROVE x % n = x - n
  <2> DEFINE y == x - n
             q == 1
  <2>1. y \in 0 .. n - 1 /\ q \in Int /\ x = q * n + y BY <1>1, <1>4
  <2> HIDE DEF y, q
  <2>2. x % n = y BY <2>1, DivModUnique
  <2> QED BY <2>2 DEF y
<1> QED BY <1>2, <1>3, <1>4

\* A place of the ring, and the place that is k behind it.
LEMMA Behind ==
  ASSUME NEW p \in Ring, NEW k \in 0 .. N
  PROVE  /\ (p - k) % N = IF k <= p THEN p - k ELSE p - k + N
         /\ (p - k) % N \in Ring
<1>1. N \in Nat \ {0} BY Sizes
<1>2. p \in Nat /\ p < N /\ k \in Nat /\ k <= N BY <1>1 DEF Ring
<1> DEFINE x == p - k
<1>3. x \in Int /\ (k <= p => x \in 0 .. N - 1) /\ (~(k <= p) => x + N \in 0 .. N - 1)
  BY <1>1, <1>2
<1> HIDE DEF x
<1>4. x % N = IF k <= p THEN x ELSE x + N BY <1>1, <1>3, Wraps
<1>5. x % N \in 0 .. N - 1 BY <1>1, <1>3, DivMod
<1> QED BY <1>4, <1>5 DEF x, Ring

\* A place of the ring, and the place that is k ahead of it.
LEMMA Ahead ==
  ASSUME NEW p \in Ring, NEW k \in 0 .. N - 1
  PROVE  /\ (p + k) % N = IF p + k < N THEN p + k ELSE p + k - N
         /\ (p + k) % N \in Ring
<1>1. N \in Nat \ {0} BY Sizes
<1>2. p \in Nat /\ p < N /\ k \in Nat /\ k < N BY <1>1 DEF Ring
<1> DEFINE x == p + k
<1>3. x \in Int /\ (x < N => x \in 0 .. N - 1) /\ (~(x < N) => x - N \in 0 .. N - 1)
  BY <1>1, <1>2
<1> HIDE DEF x
<1>4. x % N = IF x < N THEN x ELSE x - N BY <1>1, <1>3, Wraps
<1>5. x % N \in 0 .. N - 1 BY <1>1, <1>3, DivMod
<1>6. x % N \in Ring BY <1>5 DEF Ring
<1>7. x = p + k BY DEF x
<1> QED BY ONLY <1>1, <1>2, <1>4, <1>6, <1>7

\* The ring that ends at place p holds the last N bytes of the first n of seq.
IsWindow(buffer, p, seq, n) == \A k \in 1 .. N : buffer[(p - k) % N] = Window(seq, n, k)

\* It still does when the next byte of seq has gone into the ring.
LEMMA WindowMoves ==
  ASSUME NEW buffer \in [Ring -> Bytes], NEW p \in Ring, NEW b \in Bytes,
         NEW seq \in Seq(Bytes), NEW more \in Seq(Bytes), NEW n \in 0 .. Len(seq),
         n + 1 <= Len(more), \A k \in 1 .. n : more[k] = seq[k], more[n + 1] = b,
         IsWindow(buffer, p, seq, n)
  PROVE  /\ IsWindow([buffer EXCEPT ![p] = b], (p + 1) % N, more, n + 1)
         /\ [buffer EXCEPT ![p] = b] \in [Ring -> Bytes] /\ (p + 1) % N \in Ring
<1> DEFINE next == [buffer EXCEPT ![p] = b]
           p1 == (p + 1) % N
<1>1. N \in Nat \ {0} /\ N >= 3 BY Sizes
<1>2. next \in [Ring -> Bytes] /\ next[p] = b /\ \A m \in Ring \ {p} : next[m] = buffer[m]
  OBVIOUS
<1>3. 1 \in 0 .. N - 1 BY <1>1
<1>4. p1 \in Ring /\ p1 = IF p + 1 < N THEN p + 1 ELSE p + 1 - N BY <1>3, Ahead
<1> HIDE DEF next, p1
<1>5. ASSUME NEW k \in 1 .. N PROVE next[(p1 - k) % N] = Window(more, n + 1, k)
  <2>1. k \in 0 .. N /\ k - 1 \in 0 .. N /\ p \in 0 .. N - 1 /\ p1 \in 0 .. N - 1 /\ n \in Nat
    BY <1>1, <1>4 DEF Ring
  <2>2. (p1 - k) % N = IF k <= p1 THEN p1 - k ELSE p1 - k + N BY <2>1, <1>4, Behind
  <2>3. /\ (p - (k - 1)) % N = IF k - 1 <= p THEN p - (k - 1) ELSE p - (k - 1) + N
        /\ (p - (k - 1)) % N \in Ring
    BY <2>1, Behind
  <2>4. (p1 - k) % N = (p - (k - 1)) % N BY ONLY <2>1, <2>2, <2>3, <1>4, <1>1
  <2>5. CASE k = 1
    <3>1. (p - 0) % N = p BY <2>3, <2>5, <2>1
    <3>2. Window(more, n + 1, k) = more[n + 1] BY <2>1, <2>5 DEF Window
    <3> QED BY <3>1, <3>2, <2>4, <2>5, <1>2
  <2>6. CASE k # 1
    <3>1. k - 1 \in 1 .. N /\ k >= 2 BY <2>6, <1>1
    <3>2. (p - (k - 1)) % N # p BY ONLY <3>1, <2>3, <2>1, <1>1
    <3>3. next[(p - (k - 1)) % N] = buffer[(p - (k - 1)) % N] BY <3>2, <2>3, <1>2
    <3>4. buffer[(p - (k - 1)) % N] = Window(seq, n, k - 1) BY <3>1 DEF IsWindow
    <3>5. Window(more, n + 1, k) = Window(seq, n, k - 1)
      <4>1. k <= n + 1 <=> k - 1 <= n BY <2>1
      <4>2. (n + 1) - k + 1 = n - (k - 1) + 1 BY <2>1
      <4>3. k <= n + 1 => n - (k - 1) + 1 \in 1 .. n BY <3>1, <2>1
      <4> QED BY <4>1, <4>2, <4>3 DEF Window
    <3> QED BY <3>3, <3>4, <3>5, <2>4
  <2> QED BY <2>5, <2>6
<1> QED BY <1>2, <1>4, <1>5 DEF IsWindow, next, p1

(***************************************************************************)
(* The search: what it may return.                                         *)
(***************************************************************************)

\* A chain is links into the ring, and None when it has ended.
LEMMA ChainStays ==
  ASSUME prev \in [Ring -> Ring \cup {None}], \A k \in DOMAIN head : head[k] \in Ring, NEW key
  PROVE  \A c \in 0 .. MaxChain : Chain(key)[c] \in Ring \cup {None}
<1> DEFINE S == Ring \cup {None}
           x == IF key \in DOMAIN head THEN head[key] ELSE None
           step == [p \in Nat \X S |-> IF p[2] = None THEN None ELSE prev[p[2]]]
           E(L) == [c \in 0 .. MaxChain |->
                      IF c = 0 THEN IF key \in DOMAIN head THEN head[key] ELSE None
                      ELSE IF L[c - 1] = None THEN None ELSE prev[L[c - 1]]]
<1>1. x \in S OBVIOUS
<1>2. step \in [Nat \X S -> S] OBVIOUS
<1>3. \A n \in Nat, y \in S : step[<<n, y>>] = IF y = None THEN None ELSE prev[y] OBVIOUS
<1>4. PICK f : Iterates(f, S, x, step)
  <2> HIDE DEF S, x, step
  <2> QED BY <1>1, <1>2, Iteration
<1> HIDE DEF step
<1>5. /\ \A n \in Nat : f[n] \in S
      /\ f[0] = x /\ \A n \in Nat : f[n + 1] = IF f[n] = None THEN None ELSE prev[f[n]]
  <2> HIDE DEF S, x
  <2> QED BY <1>3, <1>4 DEF Iterates
<1> DEFINE g == [c \in 0 .. MaxChain |-> f[c]]
<1>6. MaxChain \in Nat BY Sizes
<1>7. g = E(g)
  <2>1. ASSUME NEW c \in 0 .. MaxChain PROVE g[c] = E(g)[c]
    <3>1. CASE c = 0 BY <3>1, <1>5, <1>6
    <3>2. CASE c # 0
      <4>1. c - 1 \in 0 .. MaxChain /\ c - 1 \in Nat /\ (c - 1) + 1 = c BY <3>2, <1>6
      <4>2. f[(c - 1) + 1] = IF f[c - 1] = None THEN None ELSE prev[f[c - 1]] BY <4>1, <1>5
      <4>3. g[c] = f[c] /\ g[c - 1] = f[c - 1] BY <4>1
      <4> HIDE DEF g
      <4> QED BY <3>2, <4>1, <4>2, <4>3
    <3> QED BY <3>1, <3>2
  <2> QED BY <2>1
<1> HIDE DEF g
<1>8. Chain(key) = E(Chain(key)) BY <1>7 DEF Chain
<1> DEFINE L == Chain(key)
           T == {n \in Nat : n <= MaxChain => L[n] \in S}
<1>9. 0 \in T BY <1>8, <1>6
<1>10. ASSUME NEW n \in Nat, n \in T PROVE n + 1 \in T
  <2> SUFFICES ASSUME n + 1 <= MaxChain PROVE L[n + 1] \in S OBVIOUS
  <2>1. n \in 0 .. MaxChain /\ n + 1 \in 0 .. MaxChain /\ n + 1 # 0 /\ (n + 1) - 1 = n
    BY <1>6
  <2>2. L[n] \in S BY <1>10, <2>1
  <2>3. L[n + 1] = IF L[n] = None THEN None ELSE prev[L[n]] BY <1>8, <2>1
  <2> QED BY <2>2, <2>3
<1> HIDE DEF T
<1>11. Nat \subseteq T BY <1>9, <1>10, Inductive
<1> QED BY <1>11, <1>6 DEF T

\* verify returns a number of bytes that agree, and no more than it may.
LEMMA VerifyAgrees ==
  ASSUME NEW off, NEW most \in Nat
  PROVE  Verify(off, most) \in 0 .. most /\ Agrees(off, Verify(off, most))
<1> DEFINE Is(n) == Agrees(off, n) /\ (n < most => ~Agrees(off, n + 1))
           T == {n \in 0 .. most : n = most \/ ~Agrees(off, n + 1)}
<1>1. T \subseteq Nat /\ T # {} BY DEF T
<1>2. PICK n \in T : \A m \in T : n <= m
  <2> HIDE DEF T
  <2> QED BY <1>1, LeastNatural
<1>3. n \in 0 .. most /\ (n < most => ~Agrees(off, n + 1)) OBVIOUS
<1>4. Agrees(off, n)
  <2>1. CASE n = 0 BY <2>1 DEF Agrees
  <2>2. CASE n # 0
    <3>1. n - 1 \in 0 .. most /\ ~(n <= n - 1) /\ n - 1 # most /\ (n - 1) + 1 = n BY <2>2, <1>3
    <3>2. n - 1 \notin T BY <3>1, <1>2
    <3> QED BY <3>1, <3>2
  <2> QED BY <2>1, <2>2
<1>5. \E m \in 0 .. most : Is(m) BY <1>3, <1>4
<1>6. Verify(off, most) \in 0 .. most /\ Is(Verify(off, most)) BY <1>5 DEF Verify
<1> QED BY <1>6

\* A match that is taken is a place of the ring, and no longer than it may be; it agrees with
\* the data as far as it is long.
LEMMA BestAgrees ==
  ASSUME NEW cands, NEW n \in Nat \ {0}, DOMAIN cands = 1 .. n, NEW most \in Nat,
         \A c \in 1 .. n : cands[c] \in Ring \cup {None}
  PROVE  LET best == Best(cands, most)
         IN best.len \in 0 .. most
            /\ (best.len > 0 => best.off \in Ring /\ Agrees(best.off, best.len))
<1> DEFINE length == [c \in DOMAIN cands |-> IF cands[c] = None THEN 0 ELSE Verify(cands[c], most)]
           Is(c)  == /\ \A d \in DOMAIN cands : length[d] <= length[c]
                     /\ \A d \in 1 .. c - 1 : length[d] < length[c]
           first  == CHOOSE c \in DOMAIN cands : Is(c)
           short  == {most - length[c] : c \in 1 .. n}
<1>1. \A c \in 1 .. n : length[c] \in 0 .. most
  <2> SUFFICES ASSUME NEW c \in 1 .. n PROVE length[c] \in 0 .. most OBVIOUS
  <2>1. length[c] = IF cands[c] = None THEN 0 ELSE Verify(cands[c], most) OBVIOUS
  <2> QED BY <2>1, VerifyAgrees
<1>2. \A c \in 1 .. n : length[c] > 0 =>
         cands[c] \in Ring /\ Agrees(cands[c], length[c])
  <2> SUFFICES ASSUME NEW c \in 1 .. n, length[c] > 0
               PROVE  cands[c] \in Ring /\ Agrees(cands[c], length[c])
    OBVIOUS
  <2>1. length[c] = IF cands[c] = None THEN 0 ELSE Verify(cands[c], most) OBVIOUS
  <2>2. cands[c] # None BY <2>1
  <2> QED BY <2>1, <2>2, VerifyAgrees
<1> HIDE DEF length
<1>3. \E c \in 1 .. n : Is(c)
  <2>1. short \subseteq Nat /\ short # {}
    <3>1. \A c \in 1 .. n : most - length[c] \in Nat BY <1>1
    <3>2. 1 \in 1 .. n OBVIOUS
    <3> QED BY <3>1, <3>2
  <2>2. PICK s \in short : \A m \in short : s <= m
    <3> HIDE DEF short
    <3> QED BY <2>1, LeastNatural
  <2>3. PICK b \in 1 .. n : s = most - length[b] BY <2>2
  <2>4. ASSUME NEW d \in 1 .. n PROVE length[d] <= length[b]
    <3>1. most - length[b] <= most - length[d] BY <2>2, <2>3
    <3>2. length[d] \in 0 .. most /\ length[b] \in 0 .. most BY <1>1
    <3> QED BY ONLY <3>1, <3>2
  <2> DEFINE T == {c \in 1 .. n : length[c] = length[b]}
  <2>5. T \subseteq Nat /\ T # {} BY <2>3
  <2>6. PICK c \in T : \A m \in T : c <= m
    <3> HIDE DEF T
    <3> QED BY <2>5, LeastNatural
  <2>7. c \in 1 .. n /\ length[c] = length[b] BY <2>6
  <2>8. ASSUME NEW d \in 1 .. c - 1 PROVE length[d] < length[c]
    <3>1. d \in 1 .. n /\ ~(c <= d) BY <2>7
    <3>2. d \notin T BY <3>1, <2>6
    <3>3. length[d] # length[b] BY <3>1, <3>2
    <3> QED BY <3>1, <3>3, <2>4, <2>7, <1>1
  <2> QED BY <2>4, <2>7, <2>8
<1>4. first \in 1 .. n BY <1>3
<1> HIDE DEF first
<1>5. Best(cands, most) = [off |-> cands[first], len |-> length[first]]
  BY DEF Best, length, first
<1> QED BY <1>1, <1>2, <1>4, <1>5

(***************************************************************************)
(* Types, with what they rest on: how far a token reaches, and that the    *)
(* flags of a group are below the bit the next token of it has.            *)
(***************************************************************************)

Compressing == phase \in {"compress", "slide", "written"}

Types ==
  /\ TypeOK
  /\ Compressing => data \in Datas
  /\ IF phase = "slide" THEN left >= 1 /\ i + left <= Len(data) ELSE left = 0
  /\ Compressing /\ flagbit # 0 =>
       flagpos \in 1 .. Len(stream) /\ flags < Weight[flagbit - 1]
  /\ phase = "copy" => match.left >= 1
  /\ Compressing => at = 0 /\ dflags = 0 /\ out = <<>>

\* What is compressed is bytes, and is not the mark that there is none.
LEMMA DataAreBytes ==
  ASSUME data \in Datas \cup {NoData}
  PROVE  /\ Len(data) \in Nat
         /\ data # NoData <=> data \in Datas
         /\ data \in Datas => data \in Seq(Bytes) /\ \A k \in 1 .. Len(data) : data[k] \in Bytes
<1>1. NoData \notin Seq(Bytes)
  <2> SUFFICES ASSUME NoData \in Seq(Bytes) PROVE FALSE OBVIOUS
  <2>1. Len(NoData) = 1 /\ NoData[1] = -1 BY DEF NoData, None
  <2>2. NoData[1] \in Bytes BY <2>1
  <2> QED BY <2>1, <2>2, Sizes DEF Bytes
<1>2. Datas \subseteq Seq(Bytes) BY InputAssumption
<1>3. Len(NoData) = 1 BY DEF NoData
<1> QED BY <1>1, <1>2, <1>3

\* Every candidate is a place of the ring, or none.
LEMMA CandidatesInRing ==
  ASSUME TypeOK
  PROVE  /\ MaxChain + 2 \in Nat \ {0} /\ DOMAIN Candidates = 1 .. MaxChain + 2
         /\ \A c \in 1 .. MaxChain + 2 : Candidates[c] \in Ring \cup {None}
<1>1. MaxChain \in Nat /\ N \in Nat \ {0} /\ N >= 3 BY Sizes
<1>2. r \in Ring /\ prev \in [Ring -> Ring \cup {None}] /\ \A k \in DOMAIN head : head[k] \in Ring
  BY DEF TypeOK
<1>3. (r - 1) % N \in Ring
  <2>1. 1 \in 0 .. N BY <1>1
  <2> QED BY <2>1, <1>2, Behind
<1>4. (r + 1) % N \in Ring
  <2>1. 1 \in 0 .. N - 1 BY <1>1
  <2> QED BY <2>1, <1>2, Ahead
<1> DEFINE key == SubSeq(data, i + 1, i + 3)
<1> HIDE DEF key
<1>5. \A c \in 0 .. MaxChain : Chain(key)[c] \in Ring \cup {None} BY <1>2, ChainStays
<1>6. Candidates = [c \in 1 .. MaxChain + 2 |-> IF c <= MaxChain THEN Chain(key)[c - 1]
                                                ELSE IF c = MaxChain + 1 THEN (r - 1) % N
                                                ELSE (r + 1) % N]
  BY DEF Candidates, key
<1>7. ASSUME NEW c \in 1 .. MaxChain + 2 PROVE Candidates[c] \in Ring \cup {None}
  <2>1. CASE c <= MaxChain
    <3>1. c - 1 \in 0 .. MaxChain BY <2>1, <1>1
    <3> QED BY <3>1, <2>1, <1>5, <1>6
  <2>2. CASE ~(c <= MaxChain) BY <2>2, <1>3, <1>4, <1>6
  <2> QED BY <2>1, <2>2
<1> QED BY <1>1, <1>6, <1>7

\* At the beginning.
LEMMA InitTypes == ASSUME Init PROVE Types
<1>1. N \in Nat \ {0} /\ F <= N /\ F \in Nat /\ F >= 3 /\ Byte \in Nat /\ Byte >= 2 /\ Bits \in Nat
  BY Sizes
<1>2. data \in Datas \cup {NoData} /\ (phase = "compress" => data \in Datas)
      /\ phase \in {"compress", "decompress"} /\ stream \in Seq(Bytes)
  <2>1. <<>> \in Seq(Bytes) OBVIOUS
  <2>2. Streams \subseteq Seq(Bytes) BY InputAssumption
  <2> QED BY <2>1, <2>2 DEF Init
<1>3. Len(data) \in Nat /\ Len(stream) \in Nat BY <1>2, DataAreBytes
<1>4. 0 \in Bytes /\ 0 \in Ring /\ N - F \in Ring BY <1>1 DEF Bytes, Ring
<1>5. ring \in [Ring -> Bytes] /\ dring \in [Ring -> Bytes] BY <1>4 DEF Init, ZeroRing
<1>6. prev \in [Ring -> Ring \cup {None}] /\ DOMAIN head = {} BY DEF Init
<1>7. 0 \in 0 .. Byte * Byte - 1
  <2>1. Byte * Byte >= Byte BY <1>1, AtLeastOnce
  <2>2. Byte * Byte \in Int BY <1>1
  <2> QED BY <2>1, <2>2, <1>1
<1>8. match.off = 0 /\ match.left = 0 BY DEF Init, NoMatch
<1>9. i = 0 /\ left = 0 /\ r = N - F /\ flagpos = 0 /\ flagbit = 0 /\ flags = 0 /\ at = 0
      /\ dflags = 0 /\ dr = N - F /\ out = <<>> /\ whole = TRUE
  BY DEF Init
<1>10. out \in Seq(Bytes) BY <1>9
<1>11. TypeOK BY <1>1, <1>2, <1>3, <1>4, <1>5, <1>6, <1>7, <1>8, <1>9, <1>10 DEF TypeOK
<1> QED BY <1>1, <1>2, <1>9, <1>11 DEF Types, Compressing

(***************************************************************************)
(* A turn of compress, taken apart.                                        *)
(***************************************************************************)

\* The bytes of a match, and of a token that is a literal or a match.
Pair(off, len) == <<off % Byte, (off \div Byte) * LenSpan + len - Threshold - 1>>

\* What a turn does when it has a bit, a place for the flags and a token: len bytes, from off in
\* the ring when it has found a match.
TurnOf(found, off, len, bit, pos, old, base) ==
  LET set   == old + (IF found THEN 0 ELSE Weight[bit - 1])
      grown == base \o (IF found THEN Pair(off, len) ELSE <<data[i + 1]>>)
  IN
  /\ i < Len(data) /\ len \in 1 .. F /\ i + len <= Len(data)
  /\ IF found THEN len > Threshold /\ off \in Ring /\ Agrees(off, len) ELSE len = 1
  /\ bit = (IF flagbit = 0 THEN 1 ELSE flagbit) /\ bit \in 1 .. Bits
  /\ pos = (IF flagbit = 0 THEN Len(stream) + 1 ELSE flagpos)
  /\ old = (IF flagbit = 0 THEN 0 ELSE flags)
  /\ base = (IF flagbit = 0 THEN Append(stream, 0) ELSE stream)
  /\ left' = len /\ flagpos' = pos /\ flags' = set
  /\ flagbit' = (IF bit = Bits THEN 0 ELSE bit + 1)
  /\ stream' = (IF bit = Bits THEN [grown EXCEPT ![pos] = set] ELSE grown)

\* Every turn is one of these.
LEMMA TokenIsTurn ==
  ASSUME Types, Token
  PROVE  \E found \in BOOLEAN : \E off, len, bit, pos, old, base :
            TurnOf(found, off, len, bit, pos, old, base)
<1> DEFINE most  == IF Len(data) - i < F THEN Len(data) - i ELSE F
           best  == IF most > Threshold THEN Best(Candidates, most) ELSE [off |-> 0, len |-> 0]
           found == best.len > Threshold
           bit   == IF flagbit = 0 THEN 1 ELSE flagbit
           pos   == IF flagbit = 0 THEN Len(stream) + 1 ELSE flagpos
           old   == IF flagbit = 0 THEN 0 ELSE flags
           set   == old + (IF found THEN 0 ELSE Weight[bit - 1])
           token == IF found THEN Pair(best.off, best.len) ELSE <<data[i + 1]>>
           base  == IF flagbit = 0 THEN Append(stream, 0) ELSE stream
           grown == base \o token
           len   == IF found THEN best.len ELSE 1
<1>1. TypeOK /\ Len(data) \in Nat /\ i \in Nat /\ F \in Nat /\ F >= 3 /\ Threshold = 2
      /\ Bits \in Nat \ {0}
  <2>1. TypeOK BY DEF Types
  <2>2. data \in Datas \cup {NoData} /\ i \in 0 .. Len(data) BY <2>1 DEF TypeOK
  <2>3. Len(data) \in Nat BY <2>2, DataAreBytes
  <2> QED BY <2>1, <2>2, <2>3, Sizes
<1>2. i < Len(data) BY DEF Token
<1>3. most \in Nat /\ most <= F /\ i + most <= Len(data) /\ most >= 1 BY <1>1, <1>2
<1>4. best.len \in 0 .. most /\ (best.len > 0 => best.off \in Ring /\ Agrees(best.off, best.len))
  <2>1. CASE most > Threshold
    <3> DEFINE b == Best(Candidates, most)
               n == MaxChain + 2
               cands == Candidates
    <3>1. n \in Nat \ {0} /\ DOMAIN cands = 1 .. n
          /\ \A c \in 1 .. n : cands[c] \in Ring \cup {None}
      BY <1>1, CandidatesInRing
    <3> HIDE DEF cands, n, most
    <3>2. LET t == Best(cands, most)
          IN t.len \in 0 .. most /\ (t.len > 0 => t.off \in Ring /\ Agrees(t.off, t.len))
      BY <3>1, <1>3, BestAgrees
    <3>3. best = Best(cands, most) BY <2>1 DEF cands
    <3> QED BY <3>2, <3>3
  <2>2. CASE ~(most > Threshold)
    <3>1. best.len = 0 BY <2>2
    <3> QED BY <3>1, <1>3
  <2> QED BY <2>1, <2>2
<1>5. /\ left' = (IF found THEN best.len ELSE 1) /\ flagpos' = pos /\ flags' = set
      /\ flagbit' = (IF bit = Bits THEN 0 ELSE bit + 1)
      /\ stream' = (IF bit = Bits THEN [grown EXCEPT ![pos] = set] ELSE grown)
  <2>1. set = (IF flagbit = 0 THEN 0 ELSE flags) + (IF found THEN 0 ELSE Weight[bit - 1]) OBVIOUS
  <2>2. token = IF found THEN << best.off % Byte,
                                 (best.off \div Byte) * LenSpan + best.len - Threshold - 1 >>
                         ELSE << data[i + 1] >>
    BY DEF Pair
  <2>3. grown = (IF flagbit = 0 THEN Append(stream, 0) ELSE stream) \o token OBVIOUS
  <2> HIDE DEF best, token, grown
  <2> QED BY <2>2, <2>3 DEF Token, best, token
<1>6. bit \in 1 .. Bits BY <1>1 DEF TypeOK
<1>7. len \in 1 .. F /\ i + len <= Len(data)
      /\ IF found THEN len > Threshold /\ best.off \in Ring /\ Agrees(best.off, len) ELSE len = 1
  <2> HIDE DEF best, most
  <2> QED BY <1>1, <1>2, <1>3, <1>4
<1>8. base \o (IF found THEN Pair(best.off, len) ELSE <<data[i + 1]>>) = grown OBVIOUS
<1>9. left' = len BY <1>5
<1> DEFINE off == best.off
<1>10. TurnOf(found, off, len, bit, pos, old, base)
  <2>1. bit = (IF flagbit = 0 THEN 1 ELSE flagbit) /\ pos = (IF flagbit = 0 THEN Len(stream) + 1 ELSE flagpos)
        /\ old = (IF flagbit = 0 THEN 0 ELSE flags)
        /\ base = (IF flagbit = 0 THEN Append(stream, 0) ELSE stream)
        /\ set = old + (IF found THEN 0 ELSE Weight[bit - 1])
    OBVIOUS
  <2>2. len \in 1 .. F /\ i + len <= Len(data)
        /\ IF found THEN len > Threshold /\ off \in Ring /\ Agrees(off, len) ELSE len = 1
    BY <1>7
  <2>3. base \o (IF found THEN Pair(off, len) ELSE <<data[i + 1]>>) = grown BY <1>8
  <2> HIDE DEF best, most, found, off, len, bit, pos, old, base, set, grown, token
  <2> QED BY <1>2, <1>5, <1>6, <1>9, <2>1, <2>2, <2>3 DEF TurnOf
<1>11. found \in BOOLEAN OBVIOUS
<1> HIDE DEF best, most, found, off, len, bit, pos, old, base, set, grown, token
<1> QED BY <1>10, <1>11

\* A sequence that is continued by another.
LEMMA Continued ==
  ASSUME NEW S, NEW s \in Seq(S), NEW t \in Seq(S)
  PROVE  /\ s \o t \in Seq(S) /\ Len(s \o t) = Len(s) + Len(t)
         /\ \A k \in 1 .. Len(s) : (s \o t)[k] = s[k]
         /\ \A k \in 1 .. Len(t) : (s \o t)[Len(s) + k] = t[k]
OBVIOUS

\* A sequence with one of its elements replaced.
LEMMA Replaced ==
  ASSUME NEW S, NEW s \in Seq(S), NEW p \in 1 .. Len(s), NEW e \in S
  PROVE  /\ [s EXCEPT ![p] = e] \in Seq(S) /\ Len([s EXCEPT ![p] = e]) = Len(s)
         /\ \A k \in 1 .. Len(s) : [s EXCEPT ![p] = e][k] = IF k = p THEN e ELSE s[k]
OBVIOUS

\* A match is two bytes, and the two bytes are the match.
LEMMA PairIsMatch ==
  ASSUME NEW off \in Ring, NEW len \in 1 .. F, len > Threshold
  PROVE  /\ Pair(off, len) \in Seq(Bytes) /\ Len(Pair(off, len)) = 2
         /\ Pair(off, len)[1] \in Bytes /\ Pair(off, len)[2] \in Bytes
         /\ (Pair(off, len)[2] \div LenSpan) * Byte + Pair(off, len)[1] = off
         /\ (Pair(off, len)[2] % LenSpan) + Threshold + 1 = len
<1> DEFINE q  == Byte \div LenSpan
           hi == off \div Byte
           lo == off % Byte
           l  == len - Threshold - 1
           y  == hi * LenSpan + l
<1>1. Byte \in Nat \ {0} /\ LenSpan \in Nat \ {0} /\ q \in Nat \ {0} /\ Byte = q * LenSpan
      /\ N = Byte * q /\ F = LenSpan + 2 /\ Threshold = 2
  BY Sizes DEF N
<1>2. off \in Int /\ 0 <= off /\ off < N
  <2>1. N \in Nat BY Sizes
  <2> QED BY <2>1 DEF Ring
<1> HIDE DEF q
<1>3. hi \in 0 .. q - 1
  <2>1. 0 * Byte <= off /\ off < q * Byte
    <3>1. q * Byte = Byte * q /\ 0 * Byte = 0 BY <1>1
    <3> QED BY <3>1, <1>1, <1>2
  <2>2. 0 \in Int /\ q \in Int /\ Byte \in Nat \ {0} /\ off \in Int BY <1>1, <1>2
  <2>3. off \div Byte \in 0 .. q - 1 BY ONLY <2>1, <2>2, DivBetween
  <2> QED BY <2>3
<1>4. lo \in 0 .. Byte - 1 /\ off = hi * Byte + lo BY <1>1, <1>2, DivMod
<1>5. l \in 0 .. LenSpan - 1 /\ l + Threshold + 1 = len BY <1>1
<1> HIDE DEF hi, lo, l
<1>6. y \in Int /\ y \in 0 .. Byte - 1
  <2>1. hi * LenSpan \in Int /\ 0 * LenSpan <= hi * LenSpan BY <1>1, <1>3, TimesMonotone
  <2>2. hi * LenSpan <= (q - 1) * LenSpan BY <1>1, <1>3, TimesMonotone
  <2>3. (q - 1) * LenSpan = q * LenSpan - 1 * LenSpan /\ q * LenSpan \in Int
    BY <1>1, Distribute
  <2>4. 0 * LenSpan = 0 /\ 1 * LenSpan = LenSpan BY <1>1
  <2> DEFINE z == hi * LenSpan
             top == (q - 1) * LenSpan
             whole1 == q * LenSpan
  <2>5. z \in Int /\ 0 <= z /\ z <= top /\ top = Byte - LenSpan BY <1>1, <2>1, <2>2, <2>3, <2>4
  <2>6. y = z + l OBVIOUS
  <2> HIDE DEF z, top, whole1, y
  <2> QED BY <1>1, <1>5, <2>5, <2>6
<1>7. y \div LenSpan = hi /\ y % LenSpan = l BY <1>1, <1>3, <1>5, <1>6, DivModUnique
<1>8. Pair(off, len) = <<lo, y>>
  <2>1. \A a \in Int : a + len - Threshold - 1 = a + l BY <1>1, <1>5
  <2>2. hi * LenSpan \in Int BY <1>1, <1>3
  <2> QED BY <2>1, <2>2 DEF Pair, hi, lo
<1> HIDE DEF y
<1>10. \A a \in Int, b \in Int : <<a, b>>[1] = a /\ <<a, b>>[2] = b /\ Len(<<a, b>>) = 2 OBVIOUS
<1>11. lo \in Int /\ y \in Int BY <1>4, <1>6
<1>12. (y \div LenSpan) * Byte + lo = off /\ (y % LenSpan) + Threshold + 1 = len
  BY <1>4, <1>5, <1>7
<1>9. <<lo, y>> \in Seq(Bytes) /\ lo \in Bytes /\ y \in Bytes BY <1>4, <1>6 DEF Bytes
<1> QED BY ONLY <1>8, <1>9, <1>10, <1>11, <1>12

\* A flag that is set below the weight of the next bit.
LEMMA FlagsGrow ==
  ASSUME NEW b \in 1 .. Bits, NEW old \in Nat, old < Weight[b - 1], NEW found \in BOOLEAN
  PROVE  LET set == old + (IF found THEN 0 ELSE Weight[b - 1])
         IN set \in Nat /\ set < Weight[b] /\ set \in Bytes
<1>1. b \in Nat /\ b - 1 \in Nat /\ (b - 1) + 1 = b /\ b \in 0 .. Bits BY Sizes
<1>2. Weight[b] = 2 * Weight[b - 1] /\ Weight[b - 1] \in Nat \ {0} BY <1>1, WeightDoubles
<1>3. Weight[b] <= Byte BY <1>1, WeightBelow
<1> QED BY <1>2, <1>3, Sizes DEF Bytes

\* What a turn writes: the stream grows behind what it had, the flags apart.
LEMMA TurnWrites ==
  ASSUME Types, phase = "compress", NEW found \in BOOLEAN, NEW off, NEW len, NEW bit, NEW pos,
         NEW old, NEW base, TurnOf(found, off, len, bit, pos, old, base)
  PROVE  LET set   == old + (IF found THEN 0 ELSE Weight[bit - 1])
             token == IF found THEN Pair(off, len) ELSE <<data[i + 1]>>
             grown == base \o token
         IN /\ set \in Bytes /\ set < Weight[bit] /\ old \in Nat /\ old < Weight[bit - 1]
            /\ token \in Seq(Bytes) /\ Len(token) = (IF found THEN 2 ELSE 1)
            /\ grown \in Seq(Bytes) /\ Len(grown) = Len(base) + Len(token)
            /\ Len(base) = Len(stream) + (IF flagbit = 0 THEN 1 ELSE 0)
            /\ pos \in 1 .. Len(base)
            /\ \A k \in 1 .. Len(stream) : grown[k] = stream[k]
            /\ \A k \in 1 .. Len(token) : grown[Len(base) + k] = token[k]
            /\ stream' \in Seq(Bytes) /\ Len(stream') = Len(grown)
<1> DEFINE set   == old + (IF found THEN 0 ELSE Weight[bit - 1])
           token == IF found THEN Pair(off, len) ELSE <<data[i + 1]>>
           grown == base \o token
<1>1. /\ data \in Seq(Bytes) /\ i \in Nat /\ stream \in Seq(Bytes) /\ Len(stream) \in Nat
      /\ flagbit \in 0 .. Bits /\ flags \in Bytes /\ i < Len(data) /\ Len(data) \in Nat
      /\ flagbit # 0 => flagpos \in 1 .. Len(stream) /\ flags < Weight[flagbit - 1]
  <2>1. data \in Datas BY DEF Types, Compressing
  <2>2. data \in Seq(Bytes) BY <2>1, InputAssumption
  <2>3. Len(data) \in Nat BY <2>2
  <2>4. i \in 0 .. Len(data) /\ stream \in Seq(Bytes) /\ flagbit \in 0 .. Bits /\ flags \in Bytes
    BY DEF Types, TypeOK
  <2>5. flagbit # 0 => flagpos \in 1 .. Len(stream) /\ flags < Weight[flagbit - 1]
    BY DEF Types, Compressing
  <2>6. i < Len(data) BY DEF TurnOf
  <2> QED BY <2>2, <2>3, <2>4, <2>5, <2>6
<1>2. /\ bit \in 1 .. Bits /\ bit = (IF flagbit = 0 THEN 1 ELSE flagbit)
      /\ pos = (IF flagbit = 0 THEN Len(stream) + 1 ELSE flagpos)
      /\ old = (IF flagbit = 0 THEN 0 ELSE flags)
      /\ base = (IF flagbit = 0 THEN Append(stream, 0) ELSE stream)
  BY DEF TurnOf
<1>3. /\ len \in 1 .. F /\ IF found THEN len > Threshold /\ off \in Ring ELSE len = 1
      /\ stream' = (IF bit = Bits THEN [grown EXCEPT ![pos] = set] ELSE grown)
  BY DEF TurnOf
<1>4. Bits \in Nat \ {0} /\ Byte \in Nat /\ Byte >= 2 BY Sizes
<1>5. old \in Nat /\ old < Weight[bit - 1]
  <2>1. Weight[0] = 1 BY WeightDoubles
  <2>2. CASE flagbit = 0
    <3>1. old = 0 /\ bit - 1 = 0 BY <2>2, <1>2
    <3> QED BY <3>1, <2>1
  <2>3. CASE flagbit # 0 BY <2>3, <1>1, <1>2, <1>4 DEF Bytes
  <2> QED BY <2>2, <2>3
<1>6. set \in Bytes /\ set < Weight[bit] BY <1>2, <1>5, FlagsGrow
<1>7. 0 \in Bytes /\ data[i + 1] \in Bytes
  <2>1. i + 1 \in 1 .. Len(data) BY <1>1
  <2> QED BY <2>1, <1>1, <1>4 DEF Bytes
<1>8. token \in Seq(Bytes) /\ Len(token) = (IF found THEN 2 ELSE 1)
  <2>1. CASE found BY <2>1, <1>3, PairIsMatch
  <2>2. CASE ~found BY <2>2, <1>7
  <2> QED BY <2>1, <2>2
<1>9. /\ base \in Seq(Bytes) /\ Len(base) = Len(stream) + (IF flagbit = 0 THEN 1 ELSE 0)
      /\ pos \in 1 .. Len(base) /\ \A k \in 1 .. Len(stream) : base[k] = stream[k]
  <2>1. CASE flagbit = 0 BY <2>1, <1>1, <1>2, <1>7
  <2>2. CASE flagbit # 0 BY <2>2, <1>1, <1>2
  <2> QED BY <2>1, <2>2
<1> HIDE DEF token, set
<1>10. /\ grown \in Seq(Bytes) /\ Len(grown) = Len(base) + Len(token)
       /\ \A k \in 1 .. Len(base) : grown[k] = base[k]
       /\ \A k \in 1 .. Len(token) : grown[Len(base) + k] = token[k]
  <2>1. base \in Seq(Bytes) /\ token \in Seq(Bytes) BY <1>8, <1>9
  <2>2. /\ base \o token \in Seq(Bytes) /\ Len(base \o token) = Len(base) + Len(token)
        /\ \A k \in 1 .. Len(base) : (base \o token)[k] = base[k]
        /\ \A k \in 1 .. Len(token) : (base \o token)[Len(base) + k] = token[k]
    BY ONLY <2>1, Continued
  <2> QED BY ONLY <2>2 DEF grown
<1> HIDE DEF grown
<1>11. \A k \in 1 .. Len(stream) : grown[k] = stream[k]
  <2>1. \A k \in 1 .. Len(stream) : k \in 1 .. Len(base) BY <1>1, <1>9
  <2> QED BY <2>1, <1>9, <1>10
<1>12. stream' \in Seq(Bytes) /\ Len(stream') = Len(grown)
  <2>1. pos \in 1 .. Len(grown) /\ Len(grown) \in Nat
    <3>1. Len(base) \in Nat /\ Len(grown) \in Nat /\ Len(token) \in Nat
      <4>1. base \in Seq(Bytes) /\ grown \in Seq(Bytes) /\ token \in Seq(Bytes)
        BY <1>8, <1>9, <1>10
      <4> QED BY ONLY <4>1
    <3>2. Len(grown) = Len(base) + Len(token) BY <1>10
    <3> QED BY ONLY <3>1, <3>2, <1>9
  <2>2. /\ [grown EXCEPT ![pos] = set] \in Seq(Bytes)
        /\ Len([grown EXCEPT ![pos] = set]) = Len(grown)
    BY ONLY <2>1, <1>6, <1>10, Replaced
  <2> QED BY ONLY <2>2, <1>3, <1>10
<1> QED BY <1>5, <1>6, <1>8, <1>9, <1>10, <1>11, <1>12 DEF grown, token, set

\* A token is no longer than the data that is left, and its flags are below the next bit.
LEMMA TokenTypes == ASSUME Types, Token PROVE Types'
<1>1. PICK found \in BOOLEAN : \E off, len, bit, pos, old, base :
                                 TurnOf(found, off, len, bit, pos, old, base)
  BY TokenIsTurn
<1>2. PICK off, len, bit, pos, old, base : TurnOf(found, off, len, bit, pos, old, base) BY <1>1
<1> DEFINE set   == old + (IF found THEN 0 ELSE Weight[bit - 1])
           token == IF found THEN Pair(off, len) ELSE <<data[i + 1]>>
           grown == base \o token
<1>3. phase = "compress" /\ phase' = "slide" BY DEF Token
<1>4. /\ set \in Bytes /\ set < Weight[bit]
      /\ token \in Seq(Bytes) /\ Len(token) = (IF found THEN 2 ELSE 1)
      /\ grown \in Seq(Bytes) /\ Len(grown) = Len(base) + Len(token)
      /\ pos \in 1 .. Len(base) /\ stream' \in Seq(Bytes) /\ Len(stream') = Len(grown)
      /\ Len(base) = Len(stream) + (IF flagbit = 0 THEN 1 ELSE 0)
  BY <1>2, <1>3, TurnWrites
<1>5. /\ len \in 1 .. F /\ i + len <= Len(data) /\ bit \in 1 .. Bits
      /\ left' = len /\ flagpos' = pos /\ flags' = set
      /\ flagbit' = (IF bit = Bits THEN 0 ELSE bit + 1)
  BY <1>2 DEF TurnOf
<1> HIDE DEF set, token, grown
<1>6. UNCHANGED <<data, i, ring, r, head, prev, at, dflags, dring, dr, match, out, whole>>
  BY DEF Token, decompressor
<1>7. Bits \in Nat \ {0} /\ F \in Nat BY Sizes
<1>8. TypeOK /\ data \in Datas BY <1>3 DEF Types, Compressing
<1>9. at \in 0 .. Len(stream) /\ stream \in Seq(Bytes) BY <1>8 DEF TypeOK
<1>10. pos \in 0 .. Len(stream') /\ pos \in 1 .. Len(stream') /\ at \in 0 .. Len(stream')
  <2>1. Len(stream) \in Nat BY <1>9
  <2>2. Len(token) \in {1, 2} BY <1>4
  <2>3. Len(base) \in Nat /\ Len(base) >= Len(stream) BY <2>1, <1>4
  <2>6. Len(stream') = Len(base) + Len(token) BY <1>4
  <2>4. Len(stream') \in Nat /\ Len(stream') >= Len(base) BY ONLY <2>2, <2>3, <2>6
  <2>5. pos \in 1 .. Len(base) BY <1>4
  <2> QED BY ONLY <2>1, <2>3, <2>4, <2>5, <1>9
<1>11. flagbit' \in 0 .. Bits /\ (flagbit' # 0 => flagbit' = bit + 1) BY <1>5, <1>7
<1>12. TypeOK'
  <2>1. left' \in 0 .. F BY <1>5, <1>7
  <2> QED BY <1>3, <1>4, <1>5, <1>6, <1>8, <1>10, <1>11, <2>1 DEF TypeOK
<1>13. flagbit' # 0 => flags' < Weight[flagbit' - 1]
  <2> SUFFICES ASSUME flagbit' # 0 PROVE flags' < Weight[flagbit' - 1] OBVIOUS
  <2>1. flagbit' - 1 = bit BY <1>5, <1>7, <1>11
  <2> QED BY <2>1, <1>4, <1>5
<1>14. left' >= 1 /\ i' + left' <= Len(data') BY <1>5, <1>6
<1> QED BY <1>3, <1>5, <1>6, <1>8, <1>10, <1>12, <1>13, <1>14 DEF Types, Compressing

\* A byte that goes into the ring is a byte of the data, and a link is a place of the ring.
LEMMA SlideTypes == ASSUME Types, Slide PROVE Types'
<1>1. phase = "slide" /\ phase' = (IF left' = 0 THEN "compress" ELSE "slide") /\ i' = i + 1
      /\ left' = left - 1 /\ r' = (r + 1) % N /\ ring' = [ring EXCEPT ![r] = data[i + 1]]
      /\ UNCHANGED <<data, stream, flagpos, flagbit, flags, at, dflags, dring, dr, match, out, whole>>
  BY DEF Slide, decompressor
<1>2. TypeOK /\ data \in Datas /\ left >= 1 /\ i + left <= Len(data)
      /\ (flagbit # 0 => flagpos \in 1 .. Len(stream) /\ flags < Weight[flagbit - 1])
  BY <1>1 DEF Types, Compressing
<1>3. data \in Seq(Bytes) /\ Len(data) \in Nat /\ i \in Nat /\ left \in 0 .. F /\ F \in Nat
      /\ N \in Nat \ {0} /\ N >= 3
  <2>1. data \in Seq(Bytes) BY <1>2, InputAssumption
  <2>2. Len(data) \in Nat BY <2>1
  <2>3. i \in 0 .. Len(data) /\ left \in 0 .. F BY <1>2 DEF TypeOK
  <2> QED BY <2>1, <2>2, <2>3, Sizes
<1>4. data[i + 1] \in Bytes
  <2>1. i + 1 \in 1 .. Len(data) BY <1>2, <1>3
  <2> QED BY <2>1, <1>3
<1>5. ring \in [Ring -> Bytes] /\ r \in Ring BY <1>2 DEF TypeOK
<1>6. ring' \in [Ring -> Bytes] BY <1>1, <1>4, <1>5
<1>7. r' \in Ring
  <2>1. 1 \in 0 .. N - 1 BY <1>3
  <2> QED BY <2>1, <1>1, <1>5, Ahead
<1> DEFINE sp  == (r - 2) % N
           key == <<ring'[sp], ring'[(sp + 1) % N], ring'[(sp + 2) % N]>>
<1>8. sp \in Ring
  <2>1. 2 \in 0 .. N BY <1>3
  <2> QED BY <2>1, <1>5, Behind
<1>9. key \in Bytes \X Bytes \X Bytes
  <2> HIDE DEF sp
  <2>1. 1 \in 0 .. N - 1 /\ 2 \in 0 .. N - 1 BY <1>3
  <2>2. (sp + 1) % N \in Ring /\ (sp + 2) % N \in Ring BY <2>1, <1>8, Ahead
  <2> QED BY <2>2, <1>6, <1>8
<1>10. /\ prev' \in [Ring -> Ring \cup {None}]
       /\ DOMAIN head' \subseteq Bytes \X Bytes \X Bytes /\ \A k \in DOMAIN head' : head'[k] \in Ring
  <2>1. /\ prev \in [Ring -> Ring \cup {None}]
        /\ DOMAIN head \subseteq Bytes \X Bytes \X Bytes /\ \A k \in DOMAIN head : head[k] \in Ring
    BY <1>2 DEF TypeOK
  <2>2. CASE i + 1 >= 3
    <3>1. /\ prev' = [prev EXCEPT ![sp] = IF key \in DOMAIN head THEN head[key] ELSE None]
          /\ head' = [k \in DOMAIN head \cup {key} |-> IF k = key THEN sp ELSE head[k]]
      BY <2>2 DEF Slide
    <3> HIDE DEF sp, key
    <3> QED BY <2>1, <3>1, <1>8, <1>9
  <2>3. CASE ~(i + 1 >= 3)
    <3>1. UNCHANGED <<head, prev>> BY <2>3 DEF Slide
    <3> QED BY <2>1, <3>1
  <2> QED BY <2>2, <2>3
<1>11. i' \in 0 .. Len(data') /\ left' \in 0 .. F
       /\ (left' # 0 => left' >= 1 /\ i' + left' <= Len(data'))
  BY <1>1, <1>2, <1>3
<1> HIDE DEF sp, key
<1>12. TypeOK' BY <1>1, <1>2, <1>6, <1>7, <1>10, <1>11 DEF TypeOK
<1> QED BY <1>1, <1>2, <1>11, <1>12 DEF Types, Compressing

\* The flags of the last group are a byte, and have their place.
LEMMA FinishTypes == ASSUME Types, Finish PROVE Types'
<1>1. /\ phase = "compress" /\ phase' = "written"
      /\ stream' = (IF flagbit # 0 THEN [stream EXCEPT ![flagpos] = flags] ELSE stream)
      /\ UNCHANGED <<data, i, ring, r, head, prev, left, flagpos, flagbit, flags>>
      /\ UNCHANGED <<at, dflags, dring, dr, match, out, whole>>
  BY DEF Finish, compressor, decompressor
<1>2. TypeOK /\ data \in Datas /\ left = 0
      /\ (flagbit # 0 => flagpos \in 1 .. Len(stream) /\ flags < Weight[flagbit - 1])
  BY <1>1 DEF Types, Compressing
<1>3. stream' \in Seq(Bytes) /\ Len(stream') = Len(stream)
  <2>1. stream \in Seq(Bytes) /\ flags \in Bytes BY <1>2 DEF TypeOK
  <2>2. CASE flagbit # 0 BY <2>1, <2>2, <1>1, <1>2, Replaced
  <2>3. CASE flagbit = 0 BY <2>1, <2>3, <1>1
  <2> QED BY <2>2, <2>3
<1>4. TypeOK' BY <1>1, <1>2, <1>3 DEF TypeOK
<1> QED BY <1>1, <1>2, <1>3, <1>4 DEF Types, Compressing

\* A beginning of the stream is a stream.
LEMMA ReadBackTypes ==
  ASSUME Types, NEW length \in 0 .. Len(stream), ReadBack(length) PROVE Types'
<1>1. /\ phase = "written" /\ phase' = "decompress"
      /\ stream' = SubSeq(stream, 1, length) /\ whole' = (length = Len(stream))
      /\ UNCHANGED <<data, i, ring, r, head, prev, left, flagpos, flagbit, flags>>
      /\ UNCHANGED <<at, dflags, dring, dr, match, out>>
  BY DEF ReadBack, compressor, decompressor
<1>2. TypeOK /\ data \in Datas /\ left = 0 /\ at = 0 BY <1>1 DEF Types, Compressing
<1>3. stream \in Seq(Bytes) BY <1>2 DEF TypeOK
<1>4. stream' \in Seq(Bytes) /\ Len(stream') = length BY <1>1, <1>3
<1>5. at' \in 0 .. Len(stream') BY <1>1, <1>2, <1>4
<1>6. whole' \in BOOLEAN BY <1>1
<1>7. TypeOK' BY <1>1, <1>2, <1>4, <1>5, <1>6 DEF TypeOK
<1> QED BY <1>1, <1>2, <1>7 DEF Types, Compressing

\* What goes out goes into the ring too.
LEMMA EmitTypes ==
  ASSUME out \in Seq(Bytes), dring \in [Ring -> Bytes], dr \in Ring, NEW c \in Bytes, Emit(c)
  PROVE  out' \in Seq(Bytes) /\ dring' \in [Ring -> Bytes] /\ dr' \in Ring
<1>1. N \in Nat \ {0} /\ N >= 3 BY Sizes
<1>2. 1 \in 0 .. N - 1 BY <1>1
<1>3. (dr + 1) % N \in Ring BY <1>2, Ahead
<1> QED BY <1>3 DEF Emit

\* A byte of a match comes out of the ring.
LEMMA CopyTypes == ASSUME Types, Copy PROVE Types'
<1>1. /\ phase = "copy" /\ phase' = (IF match.left = 1 THEN "decompress" ELSE "copy")
      /\ match' = [off |-> (match.off + 1) % N, left |-> match.left - 1]
      /\ Emit(dring[match.off])
      /\ UNCHANGED <<data, i, ring, r, head, prev, left, flagpos, flagbit, flags>>
      /\ UNCHANGED <<stream, at, dflags, whole>>
  BY DEF Copy, compressor
<1>2. TypeOK /\ left = 0 /\ match.left >= 1 BY <1>1 DEF Types
<1>3. match.off \in Ring /\ match.left \in 0 .. F /\ dring \in [Ring -> Bytes] /\ dr \in Ring
      /\ out \in Seq(Bytes)
  BY <1>2 DEF TypeOK
<1>4. dring[match.off] \in Bytes BY <1>3
<1>5. out' \in Seq(Bytes) /\ dring' \in [Ring -> Bytes] /\ dr' \in Ring
  BY <1>1, <1>3, <1>4, EmitTypes
<1>6. match'.off \in Ring /\ match'.left \in 0 .. F /\ (match.left # 1 => match'.left >= 1)
  <2>1. N \in Nat \ {0} /\ N >= 3 /\ F \in Nat BY Sizes
  <2>2. 1 \in 0 .. N - 1 BY <2>1
  <2>3. (match.off + 1) % N \in Ring BY <2>2, <1>3, Ahead
  <2>4. match'.off = (match.off + 1) % N /\ match'.left = match.left - 1 BY <1>1
  <2> QED BY <2>1, <2>3, <2>4, <1>2, <1>3
<1>7. TypeOK' BY <1>1, <1>2, <1>5, <1>6 DEF TypeOK
<1> QED BY <1>1, <1>2, <1>6, <1>7 DEF Types, Compressing

(***************************************************************************)
(* A turn of decompress, taken apart.                                      *)
(***************************************************************************)

Reload   == ((dflags \div 2) \div Byte) % 2 = 0
NowFlags == IF Reload THEN (Byte - 1) * Byte + stream[at + 1] ELSE dflags \div 2
Begins   == IF Reload THEN at + 1 ELSE at
MatchAt(s, j) == [off  |-> (s[j + 2] \div LenSpan) * Byte + s[j + 1],
                  left |-> (s[j + 2] % LenSpan) + Threshold + 1]

Literal == /\ NowFlags % 2 = 1 /\ Begins < Len(stream)
           /\ Emit(stream[Begins + 1])
           /\ at' = Begins + 1
           /\ UNCHANGED <<phase, match>>
Matched == /\ NowFlags % 2 = 0 /\ Begins + 1 < Len(stream)
           /\ match' = MatchAt(stream, Begins)
           /\ at' = Begins + 2
           /\ phase' = "copy"
           /\ UNCHANGED <<out, dring, dr>>
Stopped == /\ IF NowFlags % 2 = 1 THEN Begins >= Len(stream) ELSE Begins + 1 >= Len(stream)
           /\ at' = Begins
           /\ phase' = "done" /\ UNCHANGED <<match, out, dring, dr>>

\* A turn is a literal, a match, or the end of an input that ends inside a token.
LEMMA TurnParts ==
  ASSUME Turn
  PROVE  /\ phase = "decompress" /\ at < Len(stream) /\ dflags' = NowFlags
         /\ Literal \/ Matched \/ Stopped
         /\ UNCHANGED <<data, i, ring, r, head, prev, left, flagpos, flagbit, flags, stream, whole>>
<1> DEFINE shifted == dflags \div 2
           reload  == (shifted \div Byte) % 2 = 0
           now     == IF reload THEN (Byte - 1) * Byte + stream[at + 1] ELSE shifted
           j       == IF reload THEN at + 1 ELSE at
<1>1. now = NowFlags /\ j = Begins BY DEF NowFlags, Begins, Reload
<1>2. /\ phase = "decompress" /\ at < Len(stream) /\ dflags' = now
      /\ \/ /\ now % 2 = 1 /\ j < Len(stream)
            /\ Emit(stream[j + 1])
            /\ at' = j + 1
            /\ UNCHANGED <<phase, match>>
         \/ /\ now % 2 = 0 /\ j + 1 < Len(stream)
            /\ match' = MatchAt(stream, j)
            /\ at' = j + 2
            /\ phase' = "copy"
            /\ UNCHANGED <<out, dring, dr>>
         \/ /\ IF now % 2 = 1 THEN j >= Len(stream) ELSE j + 1 >= Len(stream)
            /\ at' = j
            /\ phase' = "done" /\ UNCHANGED <<match, out, dring, dr>>
      /\ UNCHANGED <<data, i, ring, r, head, prev, left, flagpos, flagbit, flags, stream, whole>>
  BY DEF Turn, Stop, MatchAt, compressor
<1> HIDE DEF now, j
<1> QED BY <1>1, <1>2 DEF Literal, Matched, Stopped

\* A match that is read is a place of the ring, of a length that is allowed.
LEMMA MatchInRing ==
  ASSUME NEW s \in Seq(Bytes), NEW j \in Nat, j + 2 <= Len(s)
  PROVE  MatchAt(s, j).off \in Ring /\ MatchAt(s, j).left \in Threshold + 1 .. F
<1> DEFINE q == Byte \div LenSpan
           x == s[j + 1]
           y == s[j + 2]
<1>1. Byte \in Nat \ {0} /\ LenSpan \in Nat \ {0} /\ q \in Nat \ {0} /\ Byte = q * LenSpan
      /\ N = Byte * q /\ N \in Nat /\ F = LenSpan + 2 /\ Threshold = 2
  BY Sizes DEF N
<1>2. x \in 0 .. Byte - 1 /\ y \in 0 .. Byte - 1
  <2>1. Len(s) \in Nat OBVIOUS
  <2>2. j + 1 \in 1 .. Len(s) /\ j + 2 \in 1 .. Len(s) BY <2>1
  <2>3. s[j + 1] \in Bytes /\ s[j + 2] \in Bytes BY <2>2
  <2> QED BY ONLY <2>3 DEF Bytes, x, y
<1> HIDE DEF q, x, y
<1>3. y \div LenSpan \in 0 .. q - 1
  <2>1. 0 * LenSpan <= y /\ y < q * LenSpan
    <3>1. 0 * LenSpan = 0 BY <1>1
    <3> QED BY <3>1, <1>1, <1>2
  <2>2. 0 \in Int /\ q \in Int /\ LenSpan \in Nat \ {0} /\ y \in Int BY <1>1, <1>2
  <2> QED BY ONLY <2>1, <2>2, DivBetween
<1>4. y % LenSpan \in 0 .. LenSpan - 1
  <2>1. y \in Int /\ LenSpan \in Nat \ {0} BY <1>1, <1>2
  <2> QED BY ONLY <2>1, DivMod
<1>5. (y \div LenSpan) * Byte + x \in 0 .. N - 1
  <2> DEFINE d == y \div LenSpan
             z == d * Byte
  <2>1. d \in 0 .. q - 1 BY <1>3
  <2> HIDE DEF d
  <2>2. z \in Int /\ 0 * Byte <= z /\ z <= (q - 1) * Byte BY <1>1, <2>1, TimesMonotone
  <2>3. (q - 1) * Byte = q * Byte - 1 * Byte /\ 0 * Byte = 0 /\ 1 * Byte = Byte /\ q * Byte = Byte * q
    BY <1>1, Distribute
  <2>4. z <= N - Byte /\ 0 <= z
    <3> DEFINE u == (q - 1) * Byte
               v == q * Byte
    <3>1. u = v - Byte /\ v = N /\ z <= u /\ 0 <= z BY <1>1, <2>2, <2>3
    <3> HIDE DEF u, v, z
    <3> QED BY <3>1, <1>1, <2>2
  <2> HIDE DEF z
  <2>5. z + x \in 0 .. N - 1 BY <1>1, <1>2, <2>2, <2>4
  <2> QED BY <2>5 DEF z, d
<1>6. MatchAt(s, j).off = (y \div LenSpan) * Byte + x
      /\ MatchAt(s, j).left = (y % LenSpan) + Threshold + 1
  BY DEF MatchAt, x, y
<1>7. (y % LenSpan) + Threshold + 1 \in Threshold + 1 .. F BY <1>1, <1>4
<1> QED BY <1>5, <1>6, <1>7 DEF Ring

\* A turn reads no byte that is not there.
LEMMA TurnTypes == ASSUME Types, Turn PROVE Types'
<1>1. /\ phase = "decompress" /\ at < Len(stream) /\ dflags' = NowFlags
      /\ Literal \/ Matched \/ Stopped
      /\ UNCHANGED <<data, i, ring, r, head, prev, left, flagpos, flagbit, flags, stream, whole>>
  BY TurnParts
<1>2. TypeOK /\ left = 0 BY <1>1 DEF Types
<1>3. /\ stream \in Seq(Bytes) /\ out \in Seq(Bytes) /\ dring \in [Ring -> Bytes] /\ dr \in Ring
      /\ at \in 0 .. Len(stream) /\ dflags \in 0 .. Byte * Byte - 1 /\ Len(stream) \in Nat
      /\ match.off \in Ring /\ match.left \in 0 .. F
  BY <1>2 DEF TypeOK
<1>4. Byte \in Nat /\ Byte >= 2 /\ F \in Nat /\ Threshold = 2 BY Sizes
<1>5. Begins \in at .. at + 1 /\ Begins \in Nat BY <1>3 DEF Begins
<1>6. NowFlags \in 0 .. Byte * Byte - 1
  <2> DEFINE sq == Byte * Byte
  <2>1. sq \in Int /\ (Byte - 1) * Byte = sq - Byte
    <3>1. (Byte - 1) * Byte = Byte * Byte - 1 * Byte /\ 1 * Byte = Byte BY <1>4, Distribute
    <3> QED BY <3>1, <1>4
  <2>2. sq >= Byte BY <1>4, AtLeastOnce
  <2>3. dflags \in 0 .. sq - 1 BY <1>3
  <2>4. stream[at + 1] \in 0 .. Byte - 1
    <3>1. at + 1 \in 1 .. Len(stream) BY <1>1, <1>3
    <3>2. stream[at + 1] \in Bytes BY <3>1, <1>3
    <3> QED BY ONLY <3>2 DEF Bytes
  <2> DEFINE up == (Byte - 1) * Byte
  <2> HIDE DEF sq
  <2>5. up + stream[at + 1] \in 0 .. sq - 1 BY <1>4, <2>1, <2>2, <2>4
  <2>6. dflags \div 2 \in 0 .. sq - 1 BY <2>1, <2>3
  <2>7. NowFlags = IF Reload THEN up + stream[at + 1] ELSE dflags \div 2 BY DEF NowFlags
  <2> HIDE DEF up
  <2> QED BY <2>5, <2>6, <2>7 DEF sq
<1>7. CASE Literal
  <2>1. Begins + 1 \in 1 .. Len(stream) BY <1>3, <1>5, <1>7 DEF Literal
  <2>2. stream[Begins + 1] \in Bytes BY <2>1, <1>3
  <2>3. out' \in Seq(Bytes) /\ dring' \in [Ring -> Bytes] /\ dr' \in Ring
    BY <2>2, <1>3, <1>7, EmitTypes DEF Literal
  <2>4. at' \in 0 .. Len(stream') BY <2>1, <1>1, <1>7 DEF Literal
  <2>5. UNCHANGED <<phase, match>> BY <1>7 DEF Literal
  <2>6. TypeOK' BY <2>3, <2>4, <2>5, <1>1, <1>2, <1>6 DEF TypeOK
  <2> QED BY <2>5, <2>6, <1>1, <1>2 DEF Types, Compressing
<1>8. CASE Matched
  <2>1. Begins + 2 <= Len(stream) BY <1>3, <1>5, <1>8 DEF Matched
  <2>2. match' = MatchAt(stream, Begins) /\ at' = Begins + 2 /\ phase' = "copy"
        /\ UNCHANGED <<out, dring, dr>>
    BY <1>8 DEF Matched
  <2>3. match'.off \in Ring /\ match'.left \in Threshold + 1 .. F
    BY <2>1, <2>2, <1>3, <1>5, MatchInRing
  <2>4. at' \in 0 .. Len(stream') BY <2>1, <2>2, <1>1, <1>3, <1>5
  <2>5. match'.left \in 0 .. F /\ match'.left >= 1 BY <2>3, <1>4
  <2>6. TypeOK' BY <2>2, <2>3, <2>4, <2>5, <1>1, <1>2, <1>6 DEF TypeOK
  <2> QED BY <2>2, <2>5, <2>6, <1>1, <1>2 DEF Types, Compressing
<1>9. CASE Stopped
  <2>1. at' = Begins /\ phase' = "done" /\ UNCHANGED <<match, out, dring, dr>>
    BY <1>9 DEF Stopped
  <2>2. at' \in 0 .. Len(stream') BY <2>1, <1>1, <1>3, <1>5
  <2>3. TypeOK' BY <2>1, <2>2, <1>1, <1>2, <1>6 DEF TypeOK
  <2> QED BY <2>1, <2>3, <1>1, <1>2 DEF Types, Compressing
<1> QED BY <1>1, <1>7, <1>8, <1>9

\* Every step keeps the types.
LEMMA TypesStep == ASSUME Types, [Next]_vars PROVE Types'
<1>1. CASE Token BY <1>1, TokenTypes
<1>2. CASE Slide BY <1>2, SlideTypes
<1>3. CASE Finish BY <1>3, FinishTypes
<1>4. ASSUME NEW length \in 0 .. Len(stream), ReadBack(length) PROVE Types'
  BY <1>4, ReadBackTypes
<1>5. CASE Turn BY <1>5, TurnTypes
<1>6. CASE Copy BY <1>6, CopyTypes
<1>7. CASE EndOfStream
  <2>1. phase' = "done" /\ phase = "decompress"
        /\ UNCHANGED <<data, i, ring, r, head, prev, left, flagpos, flagbit, flags>>
        /\ UNCHANGED <<stream, at, dflags, dring, dr, match, out, whole>>
    BY <1>7 DEF EndOfStream, compressor, decompressor
  <2>2. TypeOK' BY <2>1 DEF Types, TypeOK
  <2> QED BY <2>1, <2>2 DEF Types, Compressing
<1>8. CASE UNCHANGED vars
  <2>1. UNCHANGED <<phase, data, i, ring, r, head, prev, left, flagpos, flagbit, flags>>
        /\ UNCHANGED <<stream, at, dflags, dring, dr, match, out, whole>>
    BY <1>8 DEF vars, compressor, decompressor
  <2>2. TypeOK' BY <2>1 DEF Types, TypeOK
  <2> QED BY <2>1, <2>2 DEF Types, Compressing
<1> QED BY <1>1, <1>2, <1>3, <1>4, <1>5, <1>6, <1>7, <1>8 DEF Next

(***************************************************************************)
(* RingIsWindow.                                                           *)
(***************************************************************************)

\* Where the next byte goes when n have gone into the ring.
Pos(n) == (N - F + n) % N

Windows ==
  /\ data # NoData => IsWindow(ring, r, data, i)
  /\ IsWindow(dring, dr, out, Len(out))
  /\ r = Pos(i) /\ dr = Pos(Len(out))

\* The place after the next byte.
LEMMA PosMoves ==
  ASSUME NEW n \in Nat
  PROVE  Pos(n) \in Ring /\ Pos(n + 1) = (Pos(n) + 1) % N
<1> DEFINE x == N - F + n
           q == x \div N
           m == x % N
<1>1. N \in Nat \ {0} /\ N >= 3 /\ F \in Nat /\ F <= N BY Sizes
<1>2. x \in Int /\ N - F + (n + 1) = x + 1 BY <1>1
<1> HIDE DEF x
<1>3. q \in Int /\ m \in 0 .. N - 1 /\ x = q * N + m BY <1>1, <1>2, DivMod
<1> HIDE DEF q, m
<1>4. (x + 1) % N = (m + 1) % N
  <2>1. CASE m + 1 < N
    <3> DEFINE v == m + 1
    <3>1. v \in 0 .. N - 1 /\ x + 1 = q * N + v /\ v = 0 * N + v /\ x + 1 \in Int /\ 0 \in Int
      <4>1. q * N \in Int BY <1>1, <1>3
      <4> DEFINE z == q * N
      <4>2. x = z + m /\ z \in Int BY <4>1, <1>3
      <4> HIDE DEF z
      <4>3. x + 1 = z + v BY <4>2, <1>3
      <4>4. v \in 0 .. N - 1 /\ v = 0 * N + v BY <2>1, <1>1, <1>3
      <4> QED BY <4>3, <4>4, <1>2 DEF z
    <3> HIDE DEF v
    <3>2. (x + 1) % N = v /\ v % N = v BY <3>1, <1>1, <1>3, DivModUnique
    <3> QED BY <3>2 DEF v
  <2>2. CASE ~(m + 1 < N)
    <3>1. m + 1 = N BY <2>2, <1>1, <1>3
    <3>2. x + 1 = (q + 1) * N + 0 /\ q + 1 \in Int /\ 0 \in 0 .. N - 1
      <4>1. (q + 1) * N = q * N + 1 * N /\ 1 * N = N BY <1>1, <1>3, Distribute
      <4>2. q * N \in Int BY <1>1, <1>3
      <4> DEFINE z == q * N
                 u == (q + 1) * N
      <4>3. x = z + m /\ z \in Int /\ u = z + N BY <4>1, <4>2, <1>3
      <4> HIDE DEF z, u
      <4>4. x + 1 = u + 0 BY <4>3, <3>1, <1>1, <1>3
      <4> QED BY <4>4, <1>1, <1>3 DEF u
    <3>3. (x + 1) % N = 0
      <4>1. x + 1 \in Int BY <1>2
      <4> QED BY ONLY <4>1, <3>2, <1>1, DivModUnique
    <3>4. (m + 1) % N = 0
      <4>1. m + 1 \in Int /\ (m + 1) - N \in 0 .. N - 1 /\ (m + 1) - N = 0 BY <3>1, <1>1, <1>3
      <4> DEFINE t == m + 1
      <4>2. t \in Int /\ t - N \in 0 .. N - 1 /\ t - N = 0 BY <4>1
      <4> HIDE DEF t
      <4>3. t % N = t - N BY <4>2, <1>1, Wraps
      <4> QED BY <4>2, <4>3 DEF t
    <3> QED BY <3>3, <3>4
  <2> QED BY <2>1, <2>2
<1>5. Pos(n) = m /\ Pos(n + 1) = (x + 1) % N BY <1>2 DEF Pos, x, m
<1> QED BY <1>3, <1>4, <1>5 DEF Ring

\* The ring a byte goes out into.
LEMMA EmitWindow ==
  ASSUME out \in Seq(Bytes), dring \in [Ring -> Bytes], dr \in Ring, NEW c \in Bytes, Emit(c),
         IsWindow(dring, dr, out, Len(out)), dr = Pos(Len(out))
  PROVE  /\ Len(out') = Len(out) + 1
         /\ IsWindow(dring', dr', out', Len(out')) /\ dr' = Pos(Len(out'))
<1>1. out' = Append(out, c) /\ dring' = [dring EXCEPT ![dr] = c] /\ dr' = (dr + 1) % N
  BY DEF Emit
<1>2. Len(out) \in Nat OBVIOUS
<1> DEFINE n == Len(out)
           more == Append(out, c)
<1>3. /\ more \in Seq(Bytes) /\ Len(more) = n + 1 /\ more[n + 1] = c
      /\ \A k \in 1 .. n : more[k] = out[k]
  OBVIOUS
<1>4. n \in 0 .. Len(out) /\ n + 1 <= Len(more) BY <1>2, <1>3
<1> HIDE DEF n, more
<1>5. IsWindow(dring, dr, out, n) BY DEF n
<1>6. IsWindow([dring EXCEPT ![dr] = c], (dr + 1) % N, more, n + 1)
  BY <1>3, <1>4, <1>5, WindowMoves
<1>7. Pos(n + 1) = (Pos(n) + 1) % N
  <2>1. n \in Nat BY <1>2 DEF n
  <2> QED BY <2>1, PosMoves
<1>8. dr = Pos(n) BY DEF n
<1> QED BY <1>1, <1>3, <1>6, <1>7, <1>8 DEF n, more

\* Both rings are zeros, and zeros are what the windows show before the first byte.
LEMMA InitWindows == ASSUME Init PROVE Windows
<1>1. N \in Nat \ {0} /\ F \in Nat /\ F >= 3 /\ F <= N BY Sizes
<1>2. ring = ZeroRing /\ dring = ZeroRing /\ r = N - F /\ dr = N - F /\ i = 0 /\ out = <<>>
  BY DEF Init
<1>3. N - F \in Ring BY <1>1 DEF Ring
<1>4. ASSUME NEW seq PROVE IsWindow(ZeroRing, N - F, seq, 0)
  <2> SUFFICES ASSUME NEW k \in 1 .. N PROVE ZeroRing[(N - F - k) % N] = Window(seq, 0, k)
    BY DEF IsWindow
  <2>1. k \in 0 .. N BY <1>1
  <2>2. (N - F - k) % N \in Ring BY <2>1, <1>3, Behind
  <2>3. ~(k <= 0) BY <1>1
  <2> QED BY <2>2, <2>3 DEF ZeroRing, Window
<1>5. Pos(0) = N - F
  <2> DEFINE x == N - F
  <2>1. x \in 0 .. N - 1 /\ x \in Int /\ N - F + 0 = x BY <1>1
  <2> HIDE DEF x
  <2>2. x % N = x BY <2>1, <1>1, Wraps
  <2> QED BY <2>1, <2>2 DEF Pos, x
<1>6. Len(out) = 0 BY <1>2
<1> QED BY <1>2, <1>4, <1>5, <1>6 DEF Windows

\* Every step keeps both.
LEMMA WindowsStep == ASSUME Types, Windows, [Next]_vars PROVE Windows'
<1>1. TypeOK BY DEF Types
<1>2. /\ ring \in [Ring -> Bytes] /\ r \in Ring /\ dring \in [Ring -> Bytes] /\ dr \in Ring
      /\ out \in Seq(Bytes) /\ i \in 0 .. Len(data) /\ data \in Datas \cup {NoData}
      /\ stream \in Seq(Bytes) /\ at \in 0 .. Len(stream) /\ match.off \in Ring
  BY <1>1 DEF TypeOK
<1>3. CASE UNCHANGED <<data, i, ring, r, dring, dr, out>> BY <1>3 DEF Windows
<1>4. CASE Token
  <2>1. UNCHANGED <<data, i, ring, r, dring, dr, out>> BY <1>4 DEF Token, decompressor
  <2> QED BY <2>1, <1>3
<1>5. CASE Slide
  <2>1. /\ phase = "slide" /\ ring' = [ring EXCEPT ![r] = data[i + 1]] /\ r' = (r + 1) % N
        /\ i' = i + 1 /\ UNCHANGED <<data, dring, dr, out>>
    BY <1>5 DEF Slide, decompressor
  <2>2. data \in Datas /\ left >= 1 /\ i + left <= Len(data) /\ left \in 0 .. F
    BY <2>1, <1>1 DEF Types, TypeOK, Compressing
  <2>3. data \in Seq(Bytes) /\ data # NoData BY <2>2, <1>2, DataAreBytes
  <2>4. Len(data) \in Nat BY <2>3
  <2>5. F \in Nat BY Sizes
  <2>6. i \in Nat /\ i + 1 \in 1 .. Len(data) BY <2>2, <2>4, <2>5, <1>2
  <2>7. data[i + 1] \in Bytes BY <2>3, <2>6
  <2> DEFINE b == data[i + 1]
             n == i
  <2>8. /\ n \in 0 .. Len(data) /\ n + 1 <= Len(data) /\ data[n + 1] = b /\ b \in Bytes
        /\ \A k \in 1 .. n : data[k] = data[k]
    BY <2>4, <2>6, <2>7
  <2>9. IsWindow(ring, r, data, n) BY <2>3 DEF Windows
  <2> HIDE DEF b, n
  <2>10. IsWindow([ring EXCEPT ![r] = b], (r + 1) % N, data, n + 1)
    BY <2>3, <2>8, <2>9, <1>2, WindowMoves
  <2>11. Pos(i + 1) = (Pos(i) + 1) % N BY <2>6, PosMoves
  <2>12. r' = Pos(i') BY <2>1, <2>11 DEF Windows
  <2>13. IsWindow(ring', r', data', i') BY <2>1, <2>10 DEF b, n
  <2> QED BY <2>1, <2>12, <2>13 DEF Windows
<1>6. CASE Finish
  <2>1. UNCHANGED <<data, i, ring, r, dring, dr, out>>
    BY <1>6 DEF Finish, compressor, decompressor
  <2> QED BY <2>1, <1>3
<1>7. ASSUME NEW length \in 0 .. Len(stream), ReadBack(length) PROVE Windows'
  <2>1. UNCHANGED <<data, i, ring, r, dring, dr, out>>
    BY <1>7 DEF ReadBack, compressor, decompressor
  <2> QED BY <2>1, <1>3
<1>8. ASSUME NEW c \in Bytes, Emit(c), UNCHANGED <<data, i, ring, r>> PROVE Windows'
  <2>1. /\ IsWindow(dring', dr', out', Len(out')) /\ dr' = Pos(Len(out'))
    BY <1>2, <1>8, EmitWindow DEF Windows
  <2> QED BY <2>1, <1>8 DEF Windows
<1>9. CASE Turn
  <2>1. /\ at < Len(stream) /\ (Literal \/ Matched \/ Stopped)
        /\ UNCHANGED <<data, i, ring, r>>
    BY <1>9, TurnParts
  <2>2. CASE Literal
    <3>1. Len(stream) \in Nat BY <1>2
    <3>2. Begins + 1 \in 1 .. Len(stream) BY <2>2, <3>1, <1>2 DEF Literal, Begins
    <3>3. stream[Begins + 1] \in Bytes /\ Emit(stream[Begins + 1]) BY <2>2, <3>2, <1>2 DEF Literal
    <3> QED BY <3>3, <2>1, <1>8
  <2>3. CASE Matched BY <2>1, <2>3, <1>3 DEF Matched
  <2>4. CASE Stopped BY <2>1, <2>4, <1>3 DEF Stopped
  <2> QED BY <2>1, <2>2, <2>3, <2>4
<1>10. CASE Copy
  <2>1. Emit(dring[match.off]) /\ UNCHANGED <<data, i, ring, r>> BY <1>10 DEF Copy, compressor
  <2>2. dring[match.off] \in Bytes BY <1>2
  <2> QED BY <2>1, <2>2, <1>8
<1>11. CASE EndOfStream
  <2>1. UNCHANGED <<data, i, ring, r, dring, dr, out>>
    BY <1>11 DEF EndOfStream, compressor, decompressor
  <2> QED BY <2>1, <1>3
<1>12. CASE UNCHANGED vars
  <2>1. UNCHANGED <<data, i, ring, r, dring, dr, out>>
    BY <1>12 DEF vars, compressor, decompressor
  <2> QED BY <2>1, <1>3
<1> QED BY <1>4, <1>5, <1>6, <1>7, <1>9, <1>10, <1>11, <1>12 DEF Next

\* Either side's ring is the last N bytes behind it at every moment, of any data and any stream.
THEOREM RingsAreWindows == Spec => []RingIsWindow
<1>1. Init => Types /\ Windows BY InitTypes, InitWindows
<1>2. Types /\ Windows /\ [Next]_vars => (Types /\ Windows)' BY TypesStep, WindowsStep
<1>3. Types /\ Windows => RingIsWindow
  BY DEF Types, Windows, IsWindow, RingIsWindow
<1> QED BY <1>1, <1>2, <1>3, PTL DEF Spec

(***************************************************************************)
(* The bits of a flag byte.                                                *)
(***************************************************************************)

Bit(x, m) == (x \div Weight[m]) % 2

\* Twice anything and a remainder of it.
LEMMA Halves ==
  ASSUME NEW x \in Int, NEW y \in Int
  PROVE  (2 * x + y) % 2 = y % 2 /\ (2 * x + y) \div 2 = x + (y \div 2)
OBVIOUS

\* A quotient when a multiple of the divisor is added.
LEMMA DivAdds ==
  ASSUME NEW n \in Nat \ {0}, NEW x \in Int, NEW k \in Int
  PROVE  k * n + x \in Int /\ (k * n + x) \div n = k + (x \div n)
<1> DEFINE d == x \div n
           m == x % n
           z == k * n
           u == d * n
<1>1. d \in Int /\ m \in 0 .. n - 1 /\ x = u + m BY DivMod
<1> HIDE DEF d, m
<1>2. (k + d) * n = z + u /\ z \in Int /\ u \in Int /\ k + d \in Int BY <1>1, Distribute
<1> DEFINE v == (k + d) * n
<1>3. v = z + u BY <1>2
<1> HIDE DEF z, u, v
<1>4. z + x = v + m BY <1>1, <1>2, <1>3
<1>5. z + x \in Int BY <1>2
<1> DEFINE y == z + x
           q == k + d
<1>6. y = q * n + m /\ y \in Int /\ q \in Int BY <1>2, <1>4, <1>5 DEF v
<1> HIDE DEF y, q
<1>7. y \div n = q BY <1>1, <1>6, DivModUnique
<1> QED BY <1>6, <1>7 DEF y, q, z, d

\* A flag that is set is read as set, one that is not is read as not set, and the flags below
\* it are read as before.
LEMMA BitIsSet ==
  ASSUME NEW b \in Nat, NEW old \in Nat, old < Weight[b]
  PROVE  /\ Bit(old, b) = 0 /\ Bit(old + Weight[b], b) = 1
         /\ \A m \in 0 .. b - 1 : Bit(old + Weight[b], m) = Bit(old, m)
<1> DEFINE w == Weight[b]
<1>1. w \in Nat \ {0} BY WeightDoubles
<1> HIDE DEF w
<1>2. old \in 0 .. w - 1 /\ old \in Int /\ old < w BY <1>1 DEF w
<1>3. old \div w = 0
  <2>1. old = 0 * w + old BY <1>1, <1>2
  <2> QED BY <2>1, <1>1, <1>2, DivModUnique
<1>4. (old + w) \div w = 1
  <2>1. 1 * w + old = old + w BY <1>1, <1>2
  <2>2. (1 * w + old) \div w = 1 + (old \div w) BY <1>1, <1>2, DivAdds
  <2> QED BY <2>1, <2>2, <1>3
<1>5. ASSUME NEW m \in 0 .. b - 1 PROVE Bit(old + w, m) = Bit(old, m)
  <2> DEFINE v == Weight[m]
             h == Weight[b - m - 1]
             k == 2 * h
             x == old \div v
  <2>1. m \in Nat /\ b - m - 1 \in Nat /\ b - m \in Nat /\ (b - m - 1) + 1 = b - m
        /\ m + (b - m) = b
    OBVIOUS
  <2>2. v \in Nat \ {0} /\ h \in Nat \ {0} /\ Weight[b - m] = k BY <2>1, WeightDoubles
  <2>3. w = v * Weight[b - m] BY <2>1, WeightSplits DEF w
  <2> HIDE DEF v, h
  <2>4. w = k * v /\ k \in Int BY <2>2, <2>3
  <2>5. x \in Int BY <2>2, <1>2, DivMod
  <2>6. (k * v + old) \div v = k + x BY <2>2, <2>4, <1>2, DivAdds
  <2> HIDE DEF x
  <2>7. (2 * h + x) % 2 = x % 2 BY <2>2, <2>5, Halves
  <2>8. old + w = k * v + old
    <3> DEFINE z == k * v
    <3>1. w = z BY <2>4
    <3> HIDE DEF z
    <3>2. old + w = z + old BY <3>1, <1>1, <1>2
    <3> QED BY <3>2 DEF z
  <2> QED BY <2>6, <2>7, <2>8 DEF Bit, v, x
<1> QED BY <1>3, <1>4, <1>5 DEF Bit, w

\* The flags as decompress holds them when m have been used: the guard bits above what is left.
Left(b, m) == (Byte - 1) * Weight[Bits - m] + (b \div Weight[m])

\* Its lowest bit is the flag of the token, half of it is what is left after, and the guard bits
\* are above a byte until the last has been used.
LEMMA FlagsLeft ==
  ASSUME NEW b \in Bytes, NEW m \in 0 .. Bits - 1
  PROVE  /\ Left(b, m) % 2 = Bit(b, m) /\ Left(b, m) \div 2 = Left(b, m + 1)
         /\ Left(b, 0) = (Byte - 1) * Byte + b
         /\ (Left(b, m) \div Byte) % 2 = 1 /\ (Left(b, Bits) \div Byte) % 2 = 0
<1>1. Bits \in Nat \ {0} /\ Byte \in Nat /\ Byte >= 2 BY Sizes
<1>2. b \in 0 .. Byte - 1 /\ b \in Int BY <1>1 DEF Bytes
<1>3. m \in Nat /\ m + 1 \in Nat /\ m \in 0 .. Bits /\ m + 1 \in 0 .. Bits /\ m < Bits
      /\ Bits - (m + 1) = Bits - m - 1
  BY <1>1
<1>4. Weight[0] = 1 /\ Weight[m + 1] = 2 * Weight[m] /\ Weight[m] \in Nat \ {0}
      /\ Weight[m + 1] \in Nat \ {0}
  BY <1>3, WeightDoubles
<1> DEFINE u == Weight[Bits - m - 1]
           x == b \div Weight[m]
           y == b \div Weight[m + 1]
           g == Byte - 1
<1>5. Weight[Bits - m] = 2 * u /\ u \in Nat \ {0}
  <2>1. Bits - m - 1 \in Nat BY <1>3, <1>1
  <2> QED BY <2>1, <1>3, WeightBelow, WeightDoubles
<1>6. x \in Int /\ y = x \div 2
  <2> DEFINE w == Weight[m]
  <2>1. x \in Int BY <1>2, <1>4, DivMod
  <2>2. b \div (2 * w) = (b \div w) \div 2
    <3> DEFINE lo == b % w
               p == x \div 2
               e == x % 2
    <3>1. w \in Nat \ {0} BY <1>4
    <3> HIDE DEF w
    <3>2. b \div w \in Int /\ lo \in 0 .. w - 1 /\ b = (b \div w) * w + lo BY <3>1, <1>2, DivMod
    <3> DEFINE xx == b \div w
    <3>3. xx \in Int /\ b = xx * w + lo BY <3>2
    <3> HIDE DEF xx, lo
    <3>4. PICK p1 \in Int, e1 \in 0 .. 1 : xx = 2 * p1 + e1
      <4>1. xx \div 2 \in Int /\ xx % 2 \in 0 .. 1 /\ xx = 2 * (xx \div 2) + (xx % 2) BY <3>3
      <4> QED BY <4>1
    <3>5. xx \div 2 = p1 BY <3>3, <3>4
    <3>6. b = p1 * (2 * w) + (e1 * w + lo)
      <4>1. xx * w = (2 * p1) * w + e1 * w BY <3>1, <3>4, Distribute
      <4>2. (2 * p1) * w = p1 * (2 * w) BY <3>1, <3>4
      <4>3. e1 * w \in Int /\ p1 * (2 * w) \in Int BY <3>1, <3>4
      <4> DEFINE z1 == e1 * w
                 z2 == p1 * (2 * w)
                 z3 == xx * w
      <4>4. z3 = z2 + z1 /\ b = z3 + lo /\ z1 \in Int /\ z2 \in Int BY <4>1, <4>2, <4>3, <3>3
      <4> HIDE DEF z1, z2, z3
      <4>5. b = z2 + (z1 + lo) BY <4>4, <3>1, <3>2
      <4> QED BY <4>5 DEF z1, z2
    <3>7. e1 * w + lo \in 0 .. 2 * w - 1
      <4>1. CASE e1 = 0 BY <4>1, <3>1, <3>2
      <4>2. CASE e1 = 1 BY <4>2, <3>1, <3>2
      <4> QED BY <4>1, <4>2, <3>4
    <3> DEFINE n2 == 2 * w
               rest == e1 * w + lo
    <3>8. n2 \in Nat \ {0} /\ rest \in 0 .. n2 - 1 /\ b = p1 * n2 + rest BY <3>1, <3>6, <3>7
    <3> HIDE DEF n2, rest
    <3>9. b \div n2 = p1 BY <3>8, <3>4, <1>2, DivModUnique
    <3> QED BY <3>5, <3>9 DEF n2, xx
  <2> QED BY <2>1, <2>2, <1>4
<1>7. Left(b, m) = 2 * (g * u) + x /\ g * u \in Int
  <2>1. (Byte - 1) * (2 * u) = 2 * (g * u) /\ g * u \in Int BY <1>1, <1>5
  <2> QED BY <2>1, <1>5 DEF Left
<1>8. Left(b, m + 1) = g * u + y BY <1>3 DEF Left
<1>9. Left(b, m) % 2 = x % 2 /\ Left(b, m) \div 2 = g * u + (x \div 2)
  <2> DEFINE z == g * u
  <2>1. z \in Int /\ Left(b, m) = 2 * z + x BY <1>7
  <2> HIDE DEF z, x
  <2> QED BY <2>1, <1>6, Halves DEF z
<1>10. b \div 1 = b BY <1>2
<1>11. Left(b, 0) = (Byte - 1) * Byte + b
  <2>1. Bits - 0 = Bits /\ Weight[Bits] = Byte BY Sizes
  <2> QED BY <2>1, <1>4, <1>10 DEF Left
<1>12. (Left(b, m) \div Byte) % 2 = 1
  <2> DEFINE v == Weight[Bits - m]
             w == Weight[m]
             rest == Byte - v + x
  <2>1. v \in Nat \ {0} /\ w \in Nat \ {0} /\ Byte = v * w /\ v = 2 * u BY <1>3, <1>5, WeightBelow
  <2>2. x \in 0 .. v - 1
    <3>1. 0 * w = 0 /\ b < v * w /\ 0 * w <= b BY <2>1, <1>2
    <3>2. 0 \in Int /\ v \in Int BY <2>1
    <3> HIDE DEF v, w
    <3>3. b \div w \in 0 .. v - 1 BY <2>1, <3>1, <3>2, <1>2, DivBetween
    <3> QED BY <3>3 DEF w
  <2>3. v <= Byte
    <3>1. w >= 1 BY <2>1
    <3>2. w * v >= v BY <3>1, <2>1, AtLeastOnce
    <3>3. w * v = v * w BY <2>1
    <3> QED BY <3>2, <3>3, <2>1
  <2>4. rest \in 0 .. Byte - 1
    <3> HIDE DEF v, x
    <3> QED BY <2>1, <2>2, <2>3, <1>1
  <2>5. Left(b, m) = (v - 1) * Byte + rest
    <3>1. (Byte - 1) * v = Byte * v - 1 * v /\ (v - 1) * Byte = v * Byte - 1 * Byte
      BY <2>1, <1>1, Distribute
    <3>2. Byte * v = v * Byte /\ 1 * v = v /\ 1 * Byte = Byte /\ v * Byte \in Int BY <2>1, <1>1
    <3> DEFINE z == v * Byte
               z1 == (Byte - 1) * v
               z2 == (v - 1) * Byte
    <3>3. z1 = z - v /\ z2 = z - Byte /\ z \in Int BY <3>1, <3>2
    <3>4. Left(b, m) = z1 + x BY DEF Left
    <3> HIDE DEF z, z1, z2, v, x
    <3>5. Left(b, m) = z2 + rest BY <3>3, <3>4, <2>1, <1>1, <1>6
    <3> QED BY <3>5 DEF z2
  <2>6. Left(b, m) \div Byte = v - 1
    <3> DEFINE L == Left(b, m)
               q == v - 1
    <3>1. q \in Int /\ L = q * Byte + rest BY <2>1, <2>5
    <3>2. L \in Int
      <4> DEFINE z == q * Byte
      <4>1. z \in Int BY <3>1, <1>1
      <4> HIDE DEF z, L, rest, q
      <4>2. L = z + rest BY <3>1 DEF z
      <4> QED BY <4>1, <4>2, <2>4
    <3> HIDE DEF L, q, rest
    <3>3. Byte \in Nat \ {0} BY <1>1
    <3>4. L \div Byte = q BY ONLY <3>1, <3>2, <3>3, <2>4, DivModUnique
    <3> QED BY <3>4 DEF L, q
  <2>7. (2 * u - 1) % 2 = 1 BY <1>5
  <2> HIDE DEF v
  <2> QED BY <2>1, <2>6, <2>7
<1>13. (Left(b, Bits) \div Byte) % 2 = 0
  <2>1. Bits - Bits = 0 /\ Weight[Bits] = Byte BY Sizes
  <2>2. b \div Byte = 0
    <3>1. b = 0 * Byte + b /\ Byte \in Nat \ {0} /\ 0 \in Int BY <1>1, <1>2
    <3> QED BY ONLY <3>1, <1>2, DivModUnique
  <2>3. Left(b, Bits) = Byte - 1 BY <2>1, <2>2, <1>1, <1>4 DEF Left
  <2>4. (Byte - 1) \div Byte = 0
    <3> DEFINE g1 == Byte - 1
    <3>1. g1 = 0 * Byte + g1 /\ Byte \in Nat \ {0} /\ 0 \in Int /\ g1 \in 0 .. Byte - 1 /\ g1 \in Int
      BY <1>1
    <3> HIDE DEF g1
    <3>2. g1 \div Byte = 0 BY ONLY <3>1, DivModUnique
    <3> QED BY <3>2 DEF g1
  <2> QED BY <2>3, <2>4
<1>14. Left(b, m) \div 2 = Left(b, m + 1)
  <2> HIDE DEF x, y
  <2> QED BY <1>6, <1>8, <1>9
<1> QED BY <1>9, <1>11, <1>12, <1>13, <1>14 DEF Bit

(***************************************************************************)
(* RoundTrip.  What compress has written is a trace of tokens, and what    *)
(* decompress reads is the same one: between two tokens both know how far  *)
(* the stream is, how far the data is, which flag is next and where the    *)
(* flags of the group are.                                                 *)
(***************************************************************************)

Cursor == [at : Nat, start : Nat, bit : 0 .. Bits - 1, flag : Nat]
Origin == [at |-> 0, start |-> 0, bit |-> 0, flag |-> 0]

\* Where the flags of the token at cursor a are, and how much of the stream is before its bytes.
FlagOf(a)  == IF a.bit = 0 THEN a.at + 1 ELSE a.flag
TokenAt(a) == IF a.bit = 0 THEN a.at + 1 ELSE a.at

\* From start on, len bytes of d are those that are w behind them.
Repeats(d, start, w, len) == \A k \in 0 .. len - 1 : d[start + k + 1] = Window(d, start + k, w)

\* The token of stream s at cursor a is the data d from a to b: a literal, or a match at a
\* distance in the ring.
Reads(s, d, a, b) ==
  /\ FlagOf(a) \in 1 .. TokenAt(a) /\ b.flag = FlagOf(a)
  /\ b.bit = (IF a.bit + 1 = Bits THEN 0 ELSE a.bit + 1)
  /\ b.at <= Len(s) /\ b.start <= Len(d)
  /\ IF Bit(s[FlagOf(a)], a.bit) = 1
     THEN /\ b.at = TokenAt(a) + 1 /\ b.start = a.start + 1
          /\ s[TokenAt(a) + 1] = d[b.start]
     ELSE /\ b.at = TokenAt(a) + 2 /\ b.start = a.start + MatchAt(s, TokenAt(a)).left
          /\ \E w \in 1 .. N : /\ MatchAt(s, TokenAt(a)).off = (Pos(a.start) - w) % N
                               /\ Repeats(d, a.start, w, MatchAt(s, TokenAt(a)).left)

Trace(c, T, s, d) ==
  /\ T \in Nat /\ c \in [0 .. T -> Cursor] /\ c[0] = Origin
  /\ \A t \in 0 .. T - 1 : Reads(s, d, c[t], c[t + 1])

\* A token is read the same from a stream that has its bytes, and its flag.
LEMMA ReadsKept ==
  ASSUME NEW s, NEW s1, NEW d, NEW a \in Cursor, NEW b \in Cursor, Reads(s, d, a, b),
         b.at <= Len(s1), \A k \in TokenAt(a) + 1 .. b.at : s1[k] = s[k],
         Bit(s1[FlagOf(a)], a.bit) = Bit(s[FlagOf(a)], a.bit)
  PROVE  Reads(s1, d, a, b)
<1>1. a.at \in Nat /\ TokenAt(a) \in Nat BY DEF Cursor, TokenAt
<1>2. CASE Bit(s[FlagOf(a)], a.bit) = 1
  <2>1. b.at = TokenAt(a) + 1 BY <1>2 DEF Reads
  <2>2. s1[TokenAt(a) + 1] = s[TokenAt(a) + 1]
    <3>1. TokenAt(a) + 1 \in TokenAt(a) + 1 .. b.at BY <2>1, <1>1
    <3> QED BY <3>1
  <2> QED BY <2>2, <1>2 DEF Reads
<1>3. CASE Bit(s[FlagOf(a)], a.bit) # 1
  <2>1. b.at = TokenAt(a) + 2 BY <1>3 DEF Reads
  <2>2. MatchAt(s1, TokenAt(a)) = MatchAt(s, TokenAt(a))
    <3>1. TokenAt(a) + 1 \in TokenAt(a) + 1 .. b.at /\ TokenAt(a) + 2 \in TokenAt(a) + 1 .. b.at
      BY <2>1, <1>1
    <3>2. s1[TokenAt(a) + 1] = s[TokenAt(a) + 1] /\ s1[TokenAt(a) + 2] = s[TokenAt(a) + 2]
      BY <3>1
    <3> QED BY <3>2 DEF MatchAt
  <2> QED BY <2>2, <1>3 DEF Reads
<1> QED BY <1>2, <1>3

\* The stream gets longer with every token, and the data too.
LEMMA TraceGrows ==
  ASSUME NEW c, NEW T, NEW s \in Seq(Bytes), NEW d, Trace(c, T, s, d), NEW t \in 0 .. T, t # T
  PROVE  c[t].at < c[T].at
<1>1. T \in Nat /\ c \in [0 .. T -> Cursor] BY DEF Trace
<1>2. ASSUME NEW u \in 0 .. T - 1 PROVE c[u].at < c[u + 1].at
  <2>1. u \in 0 .. T /\ u + 1 \in 0 .. T BY <1>1
  <2>2. c[u] \in Cursor /\ c[u + 1] \in Cursor BY <1>1, <2>1
  <2>3. Reads(s, d, c[u], c[u + 1]) BY DEF Trace
  <2> DEFINE j == TokenAt(c[u])
             x == c[u].at
             y == c[u + 1].at
  <2>4. x \in Nat /\ (j = x \/ j = x + 1) BY <2>2 DEF TokenAt, Cursor
  <2>5. y = j + 1 \/ y = j + 2 BY <2>3 DEF Reads
  <2> HIDE DEF j, x, y
  <2>6. x < y BY ONLY <2>4, <2>5
  <2> QED BY <2>6 DEF x, y
<1> DEFINE Q == {k \in Nat : t + k <= T /\ k # 0 => c[t].at < c[t + k].at}
<1>3. 0 \in Q OBVIOUS
<1>4. ASSUME NEW k \in Nat, k \in Q PROVE k + 1 \in Q
  <2> SUFFICES ASSUME t + (k + 1) <= T PROVE c[t].at < c[t + (k + 1)].at OBVIOUS
  <2>1. t \in 0 .. T /\ t + k \in 0 .. T - 1 /\ t + k \in 0 .. T /\ t + k + 1 \in 0 .. T
        /\ t + (k + 1) = t + k + 1
    BY <1>1
  <2>2. c[t + k].at < c[t + k + 1].at BY <2>1, <1>2
  <2>3. c[t].at \in Nat /\ c[t + k].at \in Nat /\ c[t + k + 1].at \in Nat
    BY <2>1, <1>1 DEF Cursor
  <2>4. CASE k = 0
    <3>1. t + k = t BY <2>4, <2>1
    <3> QED BY <3>1, <2>1, <2>2
  <2>5. CASE k # 0
    <3>1. c[t].at < c[t + k].at BY <2>5, <2>1, <1>4
    <3> QED BY <3>1, <2>1, <2>2, <2>3
  <2> QED BY <2>4, <2>5
<1> HIDE DEF Q
<1>5. Nat \subseteq Q BY <1>3, <1>4, Inductive
<1>6. T - t \in Nat /\ T - t # 0 /\ t + (T - t) = T BY <1>1
<1>7. T - t \in Q BY <1>5, <1>6
<1> QED BY <1>6, <1>7 DEF Q

Longer(c, T, b) == [t \in 0 .. T + 1 |-> IF t = T + 1 THEN b ELSE c[t]]

\* The trace that has one token more.
LEMMA TraceLonger ==
  ASSUME NEW c, NEW T \in Nat, NEW s, NEW d, NEW b \in Cursor, Trace(c, T, s, d),
         Reads(s, d, c[T], b)
  PROVE  /\ Trace(Longer(c, T, b), T + 1, s, d) /\ Longer(c, T, b)[T + 1] = b
         /\ \A t \in 0 .. T : Longer(c, T, b)[t] = c[t]
<1> DEFINE e == Longer(c, T, b)
<1>9. e = [t \in 0 .. T + 1 |-> IF t = T + 1 THEN b ELSE c[t]] BY DEF Longer
<1> HIDE DEF e
<1>0. /\ T \in Nat /\ c \in [0 .. T -> Cursor] /\ c[0] = Origin
      /\ \A t \in 0 .. T - 1 : Reads(s, d, c[t], c[t + 1])
  BY DEF Trace
<1>1. e[T + 1] = b /\ \A t \in 0 .. T : e[t] = c[t] BY <1>0, <1>9
<1>2. e \in [0 .. T + 1 -> Cursor] BY <1>0, <1>9
<1>3. ASSUME NEW t \in 0 .. (T + 1) - 1 PROVE Reads(s, d, e[t], e[t + 1])
  <2>1. CASE t = T BY <2>1, <1>0, <1>1
  <2>2. CASE t # T
    <3>1. t \in 0 .. T - 1 /\ t \in 0 .. T /\ t + 1 \in 0 .. T BY <2>2, <1>0
    <3> QED BY <3>1, <1>0, <1>1
  <2> QED BY <2>1, <2>2
<1>4. e[0] = Origin BY <1>0, <1>1
<1>5. Trace(e, T + 1, s, d) BY <1>0, <1>2, <1>3, <1>4 DEF Trace
<1> QED BY <1>1, <1>5 DEF e

\* A match that verify found is the bytes at a distance, in the data.
LEMMA MatchRepeats ==
  ASSUME NEW off \in Ring, NEW len \in 1 .. F, Agrees(off, len), i \in Nat,
         r \in Ring, IsWindow(ring, r, data, i)
  PROVE  \E w \in 1 .. N : off = (r - w) % N /\ Repeats(data, i, w, len)
<1> DEFINE w == IF off < r THEN r - off ELSE r - off + N
<1>1. N \in Nat \ {0} /\ F \in Nat /\ F <= N BY Sizes
<1>2. off \in 0 .. N - 1 /\ r \in 0 .. N - 1 BY DEF Ring
<1>3. w \in 1 .. N /\ w \in 0 .. N BY <1>1, <1>2
<1>4. off = (r - w) % N
  <2>1. (r - w) % N = IF w <= r THEN r - w ELSE r - w + N BY <1>3, Behind
  <2> QED BY ONLY <2>1, <1>1, <1>2 DEF w
<1>5. ASSUME NEW k \in 0 .. len - 1 PROVE data[i + k + 1] = Window(data, i + k, w)
  <2> DEFINE p == (off + k) % N
             written == (p - r) % N
  <2>1. k \in 0 .. N - 1 /\ k \in Int BY <1>1
  <2>2. p \in Ring /\ p = IF off + k < N THEN off + k ELSE off + k - N BY <2>1, Ahead
  <2>3. Source(off, k) = data[i + k + 1] BY <1>5 DEF Agrees
  <2>4. Source(off, k) = IF written < k THEN data[i + written + 1] ELSE ring[p] BY DEF Source
  <2>5. p \in 0 .. N - 1 BY <2>2 DEF Ring
  <2> DEFINE x == p - r
  <2>6. x \in Int /\ written = x % N BY <2>5, <1>2
  <2> HIDE DEF x
  <2>7. written = IF x >= 0 THEN x ELSE x + N
    <3>1. x = p - r BY DEF x
    <3>2. (x >= 0 => x \in 0 .. N - 1) /\ (~(x >= 0) => x + N \in 0 .. N - 1)
      BY ONLY <3>1, <2>5, <1>1, <1>2
    <3>3. /\ x \in 0 .. N - 1 => x % N = x
          /\ x + N \in 0 .. N - 1 => x % N = x + N
      BY <2>6, <1>1, Wraps
    <3> QED BY ONLY <2>6, <3>2, <3>3
  <2>8. x = p - r BY DEF x
  <2> HIDE DEF p, written
  <2>9. CASE w <= k
    <3>1. written = k - w /\ written < k
      BY ONLY <2>9, <2>1, <2>2, <2>7, <2>8, <1>1, <1>2 DEF w
    <3>2. i + written + 1 = (i + k) - w + 1 /\ w <= i + k
      <4> HIDE DEF w
      <4> QED BY <3>1, <2>9, <2>1, <1>3
    <3> HIDE DEF w
    <3>3. Window(data, i + k, w) = data[(i + k) - w + 1] BY <3>2 DEF Window
    <3> QED BY <3>1, <3>2, <3>3, <2>3, <2>4
  <2>10. CASE ~(w <= k)
    <3>1. written = k - w + N /\ ~(written < k)
      BY ONLY <2>10, <2>1, <2>2, <2>5, <2>7, <2>8, <1>1, <1>2 DEF w
    <3>2. w - k \in 1 .. N /\ w - k \in 0 .. N
      <4> HIDE DEF w
      <4> QED BY ONLY <2>10, <2>1, <1>1, <1>3
    <3>3. p = (r - (w - k)) % N
      <4>1. (r - (w - k)) % N = IF w - k <= r THEN r - (w - k) ELSE r - (w - k) + N
        BY <3>2, Behind
      <4> QED BY ONLY <4>1, <2>10, <2>1, <2>2, <2>5, <1>1, <1>2 DEF w
    <3> HIDE DEF w
    <3>4. ring[p] = Window(data, i, w - k) BY <3>2, <3>3 DEF IsWindow
    <3>5. Window(data, i, w - k) = Window(data, i + k, w)
      <4>1. (w - k <= i <=> w <= i + k) /\ i - (w - k) + 1 = (i + k) - w + 1 BY <2>1, <1>3
      <4> QED BY <4>1 DEF Window
    <3> QED BY <3>1, <3>4, <3>5, <2>3, <2>4
  <2> QED BY <2>9, <2>10
<1> HIDE DEF w
<1> QED BY <1>3, <1>4, <1>5 DEF Repeats

(***************************************************************************)
(* compress writes a trace.                                                *)
(***************************************************************************)

\* The stream, with the flags of the group that has begun where they will be stored.
Flagged == IF flagbit # 0 THEN [stream EXCEPT ![flagpos] = flags] ELSE stream

\* A trace of what has been written: the tokens of the group that has begun use the flags below
\* the next one, and the tokens before it end before its flags.
Written(c, T) ==
  /\ Trace(c, T, Flagged, data)
  /\ c[T].at = Len(stream) /\ c[T].start = i + left
  /\ flagbit # 1 /\ c[T].bit = (IF flagbit = 0 THEN 0 ELSE flagbit - 1)
  /\ flagbit # 0 =>
       /\ c[T].flag = flagpos
       /\ \A t \in 0 .. T - 1 : \/ c[t + 1].at < flagpos
                                \/ FlagOf(c[t]) = flagpos /\ c[t].bit < flagbit - 1

Writing ==
  /\ phase \in {"compress", "slide"} => \E c, T : Written(c, T)
  /\ phase = "written" => \E c, T : /\ Trace(c, T, stream, data)
                                    /\ c[T].at = Len(stream) /\ c[T].start = Len(data)

\* The cursor a turn begins at, the stream it leaves behind with its flags stored, and the
\* cursor it ends at.
TurnFrom(a, bit, pos, base) ==
  /\ a \in Cursor /\ a.at = Len(stream) /\ a.start = i /\ a.bit = bit - 1
  /\ FlagOf(a) = pos /\ TokenAt(a) = Len(base)
TurnLeaves(s, token, found, off, len, bit, pos, old, base) ==
  /\ s \in Seq(Bytes) /\ token \in Seq(Bytes)
  /\ token = (IF found THEN Pair(off, len) ELSE <<data[i + 1]>>)
  /\ Len(s) = Len(base) + Len(token)
  /\ \A k \in 1 .. Len(token) : s[Len(base) + k] = token[k]
  /\ s[pos] = old + (IF found THEN 0 ELSE Weight[bit - 1])
TurnTo(s, len, bit, pos) ==
  [at |-> Len(s), start |-> i + len, bit |-> IF bit = Bits THEN 0 ELSE bit, flag |-> pos]

\* What a turn writes is read as the token it is, from the stream it leaves.
LEMMA TurnReads ==
  ASSUME Types, Windows, phase = "compress", NEW found \in BOOLEAN, NEW off, NEW len, NEW bit,
         NEW pos, NEW old, NEW base, TurnOf(found, off, len, bit, pos, old, base),
         NEW a, TurnFrom(a, bit, pos, base),
         NEW s, NEW token, TurnLeaves(s, token, found, off, len, bit, pos, old, base)
  PROVE  TurnTo(s, len, bit, pos) \in Cursor /\ Reads(s, data, a, TurnTo(s, len, bit, pos))
<1> DEFINE b == TurnTo(s, len, bit, pos)
<1>20. /\ a \in Cursor /\ a.at = Len(stream) /\ a.start = i /\ a.bit = bit - 1
       /\ FlagOf(a) = pos /\ TokenAt(a) = Len(base)
  BY DEF TurnFrom
<1>21. /\ s \in Seq(Bytes) /\ token \in Seq(Bytes)
       /\ token = (IF found THEN Pair(off, len) ELSE <<data[i + 1]>>)
       /\ Len(s) = Len(base) + Len(token)
       /\ \A k \in 1 .. Len(token) : s[Len(base) + k] = token[k]
       /\ s[pos] = old + (IF found THEN 0 ELSE Weight[bit - 1])
  BY DEF TurnLeaves
<1>22. b = [at |-> Len(s), start |-> i + len, bit |-> IF bit = Bits THEN 0 ELSE bit, flag |-> pos]
  BY DEF TurnTo
<1> HIDE DEF b
<1> DEFINE n == Len(base)
<1>1. /\ i < Len(data) /\ len \in 1 .. F /\ i + len <= Len(data) /\ bit \in 1 .. Bits
      /\ IF found THEN len > Threshold /\ off \in Ring /\ Agrees(off, len) ELSE len = 1
  BY DEF TurnOf
<1>2. /\ old \in Nat /\ old < Weight[bit - 1] /\ pos \in 1 .. n /\ n \in Nat
      /\ Len(token) = (IF found THEN 2 ELSE 1)
  <2>1. /\ old \in Nat /\ old < Weight[bit - 1] /\ pos \in 1 .. n
        /\ Len(IF found THEN Pair(off, len) ELSE <<data[i + 1]>>) = (IF found THEN 2 ELSE 1)
    BY TurnWrites
  <2>2. n \in Nat BY <1>20 DEF Cursor, TokenAt
  <2> QED BY <2>1, <2>2, <1>21
<1>3. Bits \in Nat \ {0} /\ F \in Nat /\ Threshold = 2 BY Sizes
<1>4. i \in Nat /\ data \in Datas /\ r \in Ring /\ Len(data) \in Nat
  <2>1. data \in Datas /\ r \in Ring /\ i \in 0 .. Len(data)
    BY DEF Types, TypeOK, Compressing
  <2>2. Len(data) \in Nat BY <2>1, InputAssumption
  <2> QED BY <2>1, <2>2
<1>5. b \in Cursor
  <2>1. Len(s) \in Nat BY <1>21
  <2>2. i + len \in Nat /\ pos \in Nat /\ (IF bit = Bits THEN 0 ELSE bit) \in 0 .. Bits - 1
    BY <1>1, <1>2, <1>3, <1>4
  <2> QED BY <2>1, <2>2, <1>22 DEF Cursor
<1>6. /\ FlagOf(a) \in 1 .. TokenAt(a) /\ b.flag = FlagOf(a)
      /\ b.bit = (IF a.bit + 1 = Bits THEN 0 ELSE a.bit + 1)
      /\ b.at <= Len(s) /\ b.start <= Len(data)
  <2>1. a.bit + 1 = bit /\ bit \in Int BY <1>1, <1>3, <1>20
  <2>2. Len(s) \in Nat /\ b.at = Len(s) BY <1>21, <1>22
  <2>3. b.start = i + len /\ b.flag = pos /\ b.bit = (IF bit = Bits THEN 0 ELSE bit) BY <1>22
  <2> QED BY <2>1, <2>2, <2>3, <1>1, <1>2, <1>20
<1>7. bit - 1 \in Nat BY <1>1, <1>3
<1>8. ASSUME found PROVE Reads(s, data, a, b)
  <2>1. Bit(s[FlagOf(a)], a.bit) # 1
    <3>1. s[pos] = old BY <1>8, <1>2, <1>21
    <3> QED BY <3>1, <1>2, <1>7, <1>20, BitIsSet
  <2>2. token = Pair(off, len) /\ Len(token) = 2 BY <1>8, <1>2, <1>21
  <2>3. s[n + 1] = token[1] /\ s[n + 2] = token[2]
    <3>1. 1 \in 1 .. Len(token) /\ 2 \in 1 .. Len(token) BY ONLY <2>2
    <3> QED BY <3>1, <1>21
  <2>4. MatchAt(s, n).off = off /\ MatchAt(s, n).left = len
    BY <2>2, <2>3, <1>1, <1>8, PairIsMatch DEF MatchAt
  <2>5. PICK w \in 1 .. N : off = (r - w) % N /\ Repeats(data, i, w, len)
    <3>1. IsWindow(ring, r, data, i) BY <1>4, DataAreBytes DEF Windows
    <3> QED BY <3>1, <1>1, <1>4, <1>8, MatchRepeats
  <2>6. r = Pos(a.start) BY <1>20 DEF Windows
  <2>7. b.at = TokenAt(a) + 2 BY <2>2, <1>20, <1>21, <1>22
  <2>8. b.start = a.start + MatchAt(s, TokenAt(a)).left BY <2>4, <1>20, <1>22
  <2>9. MatchAt(s, TokenAt(a)).off = (Pos(a.start) - w) % N
        /\ Repeats(data, a.start, w, MatchAt(s, TokenAt(a)).left)
    BY <2>4, <2>5, <2>6, <1>20
  <2> QED BY ONLY <1>5, <1>6, <2>1, <2>7, <2>8, <2>9 DEF Reads
<1>9. ASSUME ~found PROVE Reads(s, data, a, b)
  <2>1. Bit(s[FlagOf(a)], a.bit) = 1
    <3>1. s[pos] = old + Weight[bit - 1] BY <1>9, <1>2, <1>21
    <3> QED BY <3>1, <1>2, <1>7, <1>20, BitIsSet
  <2>2. token = <<data[i + 1]>> /\ Len(token) = 1 /\ len = 1 BY <1>9, <1>1, <1>2, <1>21
  <2>3. s[n + 1] = data[i + 1]
    <3>1. 1 \in 1 .. Len(token) /\ token[1] = data[i + 1] BY <2>2
    <3> QED BY <3>1, <1>21
  <2>4. b.at = TokenAt(a) + 1 /\ b.start = a.start + 1 BY <2>2, <1>20, <1>21, <1>22
  <2>5. s[TokenAt(a) + 1] = data[b.start] BY <2>2, <2>3, <1>20, <1>22
  <2> QED BY ONLY <1>5, <1>6, <2>1, <2>4, <2>5 DEF Reads
<1> QED BY <1>8, <1>9, <1>5 DEF b

\* A turn makes the trace one token longer: the tokens before read as they did, though the flags of
\* their group have changed.
LEMMA TokenWriting == ASSUME Types, Windows, Writing, Token PROVE Writing'
<1>1. PICK found \in BOOLEAN : \E off, len, bit, pos, old, base :
                                 TurnOf(found, off, len, bit, pos, old, base)
  BY TokenIsTurn
<1>2. PICK off, len, bit, pos, old, base : TurnOf(found, off, len, bit, pos, old, base) BY <1>1
<1> DEFINE set   == old + (IF found THEN 0 ELSE Weight[bit - 1])
           token == IF found THEN Pair(off, len) ELSE <<data[i + 1]>>
           grown == base \o token
           s1    == [grown EXCEPT ![pos] = set]
           n     == Len(base)
           L     == Len(stream)
<1>3. phase = "compress" /\ phase' = "slide" /\ UNCHANGED <<data, i>> BY DEF Token
<1>4. /\ set \in Bytes /\ old \in Nat /\ old < Weight[bit - 1]
      /\ token \in Seq(Bytes) /\ Len(token) = (IF found THEN 2 ELSE 1)
      /\ grown \in Seq(Bytes) /\ Len(grown) = n + Len(token)
      /\ n = L + (IF flagbit = 0 THEN 1 ELSE 0) /\ pos \in 1 .. n
      /\ \A k \in 1 .. L : grown[k] = stream[k]
      /\ \A k \in 1 .. Len(token) : grown[n + k] = token[k]
      /\ Len(stream') = Len(grown)
  BY <1>2, <1>3, TurnWrites
<1>5. /\ i < Len(data) /\ len \in 1 .. F /\ i + len <= Len(data) /\ bit \in 1 .. Bits
      /\ bit = (IF flagbit = 0 THEN 1 ELSE flagbit)
      /\ pos = (IF flagbit = 0 THEN L + 1 ELSE flagpos)
      /\ old = (IF flagbit = 0 THEN 0 ELSE flags)
      /\ left' = len /\ flagpos' = pos /\ flags' = set
      /\ flagbit' = (IF bit = Bits THEN 0 ELSE bit + 1)
      /\ stream' = (IF bit = Bits THEN s1 ELSE grown)
  BY <1>2 DEF TurnOf
<1>6. L \in Nat /\ stream \in Seq(Bytes) /\ flagbit \in 0 .. Bits /\ left = 0 /\ i \in Nat
      /\ Len(data) \in Nat /\ (flagbit # 0 => flagpos \in 1 .. L) /\ flags \in Bytes
  <2>1. TypeOK /\ data \in Datas /\ left = 0 /\ (flagbit # 0 => flagpos \in 1 .. L)
    BY <1>3 DEF Types, Compressing
  <2>2. stream \in Seq(Bytes) /\ flagbit \in 0 .. Bits /\ i \in 0 .. Len(data) /\ flags \in Bytes
    BY <2>1 DEF TypeOK
  <2>3. data \in Seq(Bytes) BY <2>1, InputAssumption
  <2>4. Len(data) \in Nat /\ L \in Nat BY <2>2, <2>3
  <2> QED BY <2>1, <2>2, <2>4
<1>7. Bits \in Nat \ {0} /\ Byte \in Nat BY Sizes
<1>8. PICK c, T : Written(c, T) BY <1>3 DEF Writing
<1>9. /\ T \in Nat /\ c \in [0 .. T -> Cursor] /\ c[0] = Origin
      /\ \A t \in 0 .. T - 1 : Reads(Flagged, data, c[t], c[t + 1])
      /\ c[T].at = L /\ c[T].start = i /\ c[T].bit = bit - 1
      /\ flagbit # 1
      /\ flagbit # 0 => /\ c[T].flag = flagpos
                        /\ \A t \in 0 .. T - 1 : \/ c[t + 1].at < flagpos
                                                 \/ FlagOf(c[t]) = flagpos /\ c[t].bit < bit - 1
  <2>1. c[T].bit = bit - 1 BY <1>5, <1>8, <1>6, <1>7 DEF Written
  <2>2. i + left = i BY <1>6
  <2>3. flagbit # 0 => flagbit - 1 = bit - 1 BY <1>5
  <2>4. /\ Trace(c, T, Flagged, data) /\ c[T].at = L /\ c[T].start = i + left /\ flagbit # 1
        /\ flagbit # 0 => /\ c[T].flag = flagpos
                          /\ \A t \in 0 .. T - 1 : \/ c[t + 1].at < flagpos
                                                   \/ FlagOf(c[t]) = flagpos /\ c[t].bit < flagbit - 1
    BY <1>8 DEF Written
  <2> QED BY <2>1, <2>2, <2>3, <2>4 DEF Trace
<1> HIDE DEF set, token, grown, n, L
<1>10. /\ s1 \in Seq(Bytes) /\ Len(s1) = Len(grown) /\ s1[pos] = set
       /\ \A k \in 1 .. Len(grown) : k # pos => s1[k] = grown[k]
       /\ pos \in 1 .. Len(grown) /\ n \in Nat /\ Len(token) \in {1, 2}
  <2>1. n \in Nat /\ Len(token) \in {1, 2} BY <1>4, <1>6
  <2>2. Len(grown) = n + Len(token) /\ pos \in 1 .. n BY <1>4
  <2>3. pos \in 1 .. Len(grown) BY ONLY <2>1, <2>2
  <2>4. /\ s1 \in Seq(Bytes) /\ Len(s1) = Len(grown)
        /\ \A k \in 1 .. Len(grown) : s1[k] = IF k = pos THEN set ELSE grown[k]
    BY ONLY <2>3, <1>4, Replaced
  <2> QED BY <2>1, <2>3, <2>4
<1> HIDE DEF s1
<1>11. Flagged' = s1
  <2>1. CASE bit = Bits
    <3>1. flagbit' = 0 /\ stream' = s1 BY <2>1, <1>5
    <3> QED BY <3>1 DEF Flagged
  <2>2. CASE bit # Bits
    <3>1. flagbit' # 0 /\ stream' = grown /\ flagpos' = pos /\ flags' = set
      BY <2>2, <1>5, <1>7
    <3> QED BY <3>1 DEF Flagged, s1
  <2> QED BY <2>1, <2>2
<1>23. ASSUME flagbit # 0
       PROVE  /\ Flagged[flagpos] = flags /\ Len(Flagged) = L
              /\ \A k \in 1 .. L : k # flagpos => Flagged[k] = stream[k]
  <2>1. Flagged = [stream EXCEPT ![flagpos] = flags] BY <1>23 DEF Flagged
  <2>2. flagpos \in 1 .. Len(stream) BY <1>23, <1>6 DEF L
  <2>3. /\ Len([stream EXCEPT ![flagpos] = flags]) = Len(stream)
        /\ \A k \in 1 .. Len(stream) :
             [stream EXCEPT ![flagpos] = flags][k] = IF k = flagpos THEN flags ELSE stream[k]
    BY ONLY <2>2, <1>6, Replaced
  <2> QED BY <2>1, <2>2, <2>3 DEF L
<1>24. flagbit = 0 => Flagged = stream BY DEF Flagged
<1>12. /\ Len(Flagged) = L
       /\ \A k \in 1 .. L : (flagbit = 0 \/ k # flagpos) => Flagged[k] = stream[k]
       /\ flagbit # 0 => Flagged[flagpos] = flags
  BY <1>23, <1>24 DEF L
<1>13. FlagOf(c[T]) = pos /\ TokenAt(c[T]) = n /\ c[T] \in Cursor
  <2>1. c[T] \in Cursor BY <1>9
  <2>2. CASE flagbit = 0
    <3>1. c[T].bit = 0 /\ pos = L + 1 /\ n = L + 1 BY <2>2, <1>4, <1>5, <1>9
    <3> QED BY <2>1, <3>1, <1>9 DEF FlagOf, TokenAt
  <2>3. CASE flagbit # 0
    <3>1. c[T].bit # 0 /\ pos = flagpos BY <2>3, <1>5, <1>6, <1>7, <1>9
    <3>2. n = L BY <2>3, <1>4, <1>6
    <3> QED BY <2>1, <2>3, <3>1, <3>2, <1>9 DEF FlagOf, TokenAt
  <2> QED BY <2>2, <2>3
<1> DEFINE b == TurnTo(s1, len, bit, pos)
<1>22. b = [at |-> Len(s1), start |-> i + len, bit |-> IF bit = Bits THEN 0 ELSE bit, flag |-> pos]
  BY DEF TurnTo
<1> HIDE DEF b
<1>14. b \in Cursor /\ Reads(s1, data, c[T], b)
  <2>1. \A k \in 1 .. Len(token) : s1[n + k] = token[k]
    <3> SUFFICES ASSUME NEW k \in 1 .. Len(token) PROVE s1[n + k] = token[k] OBVIOUS
    <3>1. n + k \in 1 .. Len(grown) /\ n + k # pos
      <4>1. Len(grown) = n + Len(token) /\ pos \in 1 .. n BY <1>4
      <4>2. n \in Nat /\ Len(token) \in {1, 2} BY <1>10
      <4> QED BY ONLY <4>1, <4>2
    <3> QED BY <3>1, <1>4, <1>10
  <2>2. c[T].at = Len(stream) /\ TokenAt(c[T]) = Len(base) BY <1>9, <1>13 DEF L, n
  <2>3. Len(s1) = Len(base) + Len(token) BY <1>4, <1>10 DEF n
  <2>4. \A k \in 1 .. Len(token) : s1[Len(base) + k] = token[k] BY <2>1 DEF n
  <2>5. s1[pos] = old + (IF found THEN 0 ELSE Weight[bit - 1]) BY <1>10 DEF set
  <2>6. token = (IF found THEN Pair(off, len) ELSE <<data[i + 1]>>) BY DEF token
  <2>7. TurnFrom(c[T], bit, pos, base) BY <2>2, <1>9, <1>13 DEF TurnFrom
  <2>8. TurnLeaves(s1, token, found, off, len, bit, pos, old, base)
    BY <2>3, <2>4, <2>5, <2>6, <1>4, <1>10 DEF TurnLeaves
  <2> QED BY <2>7, <2>8, <1>2, <1>3, TurnReads DEF b
<1>15. ASSUME NEW t \in 0 .. T - 1 PROVE Reads(s1, data, c[t], c[t + 1])
  <2>1. Reads(Flagged, data, c[t], c[t + 1]) /\ c[t] \in Cursor /\ c[t + 1] \in Cursor
    <3>1. t \in 0 .. T /\ t + 1 \in 0 .. T BY <1>9
    <3> QED BY <3>1, <1>9
  <2> DEFINE f == FlagOf(c[t])
             j == TokenAt(c[t])
             e == c[t + 1].at
             m == c[t].bit
  <2>2. f \in 1 .. j /\ e <= L /\ (e = j + 1 \/ e = j + 2) /\ j \in Nat /\ e \in Nat
        /\ m \in 0 .. Bits - 1
    <3>1. f \in 1 .. j /\ e <= L /\ (e = j + 1 \/ e = j + 2) BY <2>1, <1>12 DEF Reads
    <3>2. j \in Nat /\ e \in Nat /\ m \in 0 .. Bits - 1 BY <2>1 DEF TokenAt, Cursor
    <3> QED BY <3>1, <3>2
  <2>3. flagbit # 0 => e < flagpos \/ (f = flagpos /\ m < bit - 1) BY <1>9
  <2> HIDE DEF f, j, e, m
  <2>4. ASSUME NEW k \in 1 .. L, flagbit = 0 \/ k # flagpos PROVE s1[k] = Flagged[k]
    <3>1. k \in 1 .. Len(grown) BY ONLY <1>4, <1>6, <1>10
    <3>2. k # pos BY <2>4, <1>5, <1>6
    <3>3. s1[k] = grown[k] /\ grown[k] = stream[k] /\ Flagged[k] = stream[k]
      BY <3>1, <3>2, <2>4, <1>4, <1>10, <1>12
    <3> QED BY <3>3
  <2>5. ASSUME NEW k \in j + 1 .. e PROVE s1[k] = Flagged[k]
    <3>1. k \in 1 .. L BY <2>2, <1>6
    <3>2. flagbit = 0 \/ k # flagpos BY <2>2, <2>3
    <3> QED BY <3>1, <3>2, <2>4
  <2>6. Bit(s1[f], m) = Bit(Flagged[f], m)
    <3>1. f \in 1 .. L BY <2>2, <1>6
    <3>2. CASE flagbit = 0 \/ f # flagpos BY <3>1, <3>2, <2>4
    <3>3. CASE flagbit # 0 /\ f = flagpos
      <4>1. m < bit - 1 /\ pos = f /\ old = flags BY <3>3, <2>2, <2>3, <1>5
      <4>2. Flagged[f] = old BY <3>3, <4>1, <1>12
      <4>3. s1[f] = set BY <4>1, <1>10
      <4>4. bit - 1 \in Nat /\ m \in 0 .. (bit - 1) - 1 BY <4>1, <2>2, <1>5, <1>7
      <4>5. Bit(old + Weight[bit - 1], m) = Bit(old, m) BY <4>4, <1>4, BitIsSet
      <4>6. set = old \/ set = old + Weight[bit - 1]
        <5>1. old + 0 = old BY <1>4
        <5> QED BY <5>1 DEF set
      <4> QED BY <4>2, <4>3, <4>5, <4>6
    <3> QED BY <3>2, <3>3
  <2>7. e <= Len(s1)
    <3>1. Len(s1) = n + Len(token) /\ L <= n BY <1>4, <1>6, <1>10
    <3> QED BY ONLY <3>1, <2>2, <1>6, <1>10
  <2> QED BY <2>1, <2>5, <2>6, <2>7, ReadsKept DEF f, j, e, m
<1> DEFINE d1 == Longer(c, T, b)
<1>16. Trace(d1, T + 1, s1, data) /\ d1[T + 1] = b /\ \A t \in 0 .. T : d1[t] = c[t]
  <2>1. Trace(c, T, s1, data) BY <1>9, <1>15 DEF Trace
  <2>2. b \in Cursor /\ Reads(s1, data, c[T], b) BY <1>14
  <2>3. PICK b1, s2, e : b1 = b /\ s2 = s1 /\ e = data OBVIOUS
  <2>4. T \in Nat /\ b1 \in Cursor /\ Reads(s2, e, c[T], b1) /\ Trace(c, T, s2, e)
    BY <2>1, <2>2, <2>3, <1>9
  <2>5. /\ Trace(Longer(c, T, b1), T + 1, s2, e) /\ Longer(c, T, b1)[T + 1] = b1
        /\ \A t \in 0 .. T : Longer(c, T, b1)[t] = c[t]
    BY ONLY <2>4, TraceLonger
  <2> QED BY <2>3, <2>5 DEF d1
<1> HIDE DEF d1
<1>17. flagbit' # 1 /\ b.bit = (IF flagbit' = 0 THEN 0 ELSE flagbit' - 1)
  BY <1>5, <1>7, <1>22
<1>18. ASSUME flagbit' # 0, NEW t \in 0 .. (T + 1) - 1
       PROVE  d1[t + 1].at < flagpos' \/ (FlagOf(d1[t]) = flagpos' /\ d1[t].bit < flagbit' - 1)
  <2>1. flagbit' - 1 = bit /\ flagpos' = pos /\ bit \in Int BY <1>5, <1>7, <1>18
  <2>2. CASE t = T
    <3>1. d1[t] = c[T] /\ FlagOf(c[T]) = pos /\ c[T].bit = bit - 1 BY <2>2, <1>9, <1>13, <1>16
    <3> QED BY <2>1, <3>1
  <2>3. CASE t # T
    <3>1. t \in 0 .. T - 1 /\ t \in 0 .. T /\ t + 1 \in 0 .. T BY <2>3, <1>9
    <3>2. d1[t] = c[t] /\ d1[t + 1] = c[t + 1] BY <3>1, <1>16
    <3>3. c[t + 1].at \in Nat /\ c[t].bit \in Nat BY <3>1, <1>9, <1>7 DEF Cursor
    <3>4. CASE flagbit = 0
      <4>1. Reads(Flagged, data, c[t], c[t + 1]) BY <3>1, <1>9
      <4>2. c[t + 1].at <= L BY <4>1, <1>12 DEF Reads
      <4>3. pos = L + 1 BY <3>4, <1>5
      <4> QED BY <4>2, <4>3, <3>2, <3>3, <2>1, <1>6
    <3>5. CASE flagbit # 0
      <4>1. pos = flagpos BY <3>5, <1>5
      <4>2. c[t + 1].at < flagpos \/ (FlagOf(c[t]) = flagpos /\ c[t].bit < bit - 1)
        BY <3>1, <3>5, <1>9
      <4> QED BY <4>1, <4>2, <3>2, <3>3, <2>1
    <3> QED BY <3>4, <3>5
  <2> QED BY <2>2, <2>3
<1>19. \E e, U : Written(e, U)'
  <2>1. d1[T + 1].at = Len(stream') BY <1>4, <1>10, <1>16, <1>22
  <2>2. d1[T + 1].start = i' + left' BY <1>3, <1>5, <1>16, <1>22
  <2>3. d1[T + 1].flag = flagpos' BY <1>5, <1>16, <1>22
  <2>4. d1[T + 1].bit = (IF flagbit' = 0 THEN 0 ELSE flagbit' - 1) BY <1>16, <1>17
  <2>5. PICK e, U : e = d1 /\ U = T + 1 OBVIOUS
  <2>6. Trace(e, U, Flagged', data') BY <2>5, <1>3, <1>11, <1>16
  <2>7. Written(e, U)'
    BY <2>1, <2>2, <2>3, <2>4, <2>5, <2>6, <1>17, <1>18 DEF Written, Trace
  <2> QED BY <2>7
<1> QED BY <1>3, <1>19 DEF Writing

\* What goes into the ring was counted when its token was written.
LEMMA SlideWriting == ASSUME Types, Writing, Slide PROVE Writing'
<1>1. /\ phase = "slide" /\ phase' \in {"compress", "slide"} /\ i' = i + 1 /\ left' = left - 1
      /\ UNCHANGED <<data, stream, flagpos, flagbit, flags>>
  BY DEF Slide
<1>2. PICK c, T : Written(c, T) BY <1>1 DEF Writing
<1>3. i + left = i' + left'
  <2>1. left \in 0 .. F /\ i \in 0 .. Len(data) BY DEF Types, TypeOK
  <2>2. i \in Int /\ left \in Int BY <2>1, Sizes
  <2> QED BY <2>2, <1>1
<1>4. Flagged' = Flagged BY <1>1 DEF Flagged
<1>5. Written(c, T)' BY <1>1, <1>2, <1>3, <1>4 DEF Written, Trace
<1> QED BY <1>1, <1>5 DEF Writing

\* The flags of a group that is short are stored, and the trace is of the stream as it is.
LEMMA FinishWriting == ASSUME Types, Writing, Finish PROVE Writing'
<1>1. /\ phase = "compress" /\ phase' = "written" /\ i = Len(data)
      /\ stream' = (IF flagbit # 0 THEN [stream EXCEPT ![flagpos] = flags] ELSE stream)
      /\ UNCHANGED data
  BY DEF Finish, compressor
<1>2. PICK c, T : Written(c, T) BY <1>1 DEF Writing
<1>3. stream' = Flagged BY <1>1 DEF Flagged
<1>4. /\ stream \in Seq(Bytes) /\ left = 0 /\ data \in Datas /\ flags \in Bytes
      /\ flagbit # 0 => flagpos \in 1 .. Len(stream)
  BY <1>1 DEF Types, TypeOK, Compressing
<1>5. Len(stream') = Len(stream)
  <2>1. CASE flagbit # 0 BY <2>1, <1>1, <1>4, Replaced
  <2>2. CASE flagbit = 0 BY <2>2, <1>1
  <2> QED BY <2>1, <2>2
<1>6. Len(data) + 0 = Len(data)
  <2>1. Len(data) \in Nat BY <1>4, InputAssumption
  <2> QED BY <2>1
<1>7. Trace(c, T, stream', data') /\ c[T].at = Len(stream') /\ c[T].start = Len(data')
  BY <1>1, <1>2, <1>3, <1>4, <1>5, <1>6 DEF Written
<1> QED BY <1>1, <1>7 DEF Writing

\* Nothing written is the trace of no token.
LEMMA InitWriting == ASSUME Init PROVE Writing
<1>1. /\ phase \in {"compress", "decompress"} /\ i = 0 /\ left = 0 /\ flagbit = 0
      /\ phase = "compress" => stream = <<>>
  BY DEF Init
<1> SUFFICES ASSUME phase = "compress" PROVE \E c, T : Written(c, T) BY <1>1 DEF Writing
<1> DEFINE c == [t \in 0 .. 0 |-> Origin]
<1>2. Origin \in Cursor /\ Origin.at = 0 /\ Origin.start = 0 /\ Origin.bit = 0
  <2>1. 0 \in 0 .. Bits - 1 BY Sizes
  <2> QED BY <2>1 DEF Origin, Cursor
<1>3. Trace(c, 0, Flagged, data)
  <2>1. c \in [0 .. 0 -> Cursor] /\ c[0] = Origin /\ 0 \in Nat BY <1>2
  <2>2. 0 .. 0 - 1 = {} OBVIOUS
  <2> QED BY <2>1, <2>2 DEF Trace
<1>4. c[0] = Origin OBVIOUS
<1> HIDE DEF c
<1>5. Written(c, 0) BY <1>1, <1>2, <1>3, <1>4 DEF Written
<1> QED BY <1>5

(***************************************************************************)
(* decompress reads it.                                                    *)
(***************************************************************************)

\* The flags decompress holds before the token at cursor a of stream s.
FlagsAt(f, s, a) ==
  IF a.bit = 0 THEN ((f \div 2) \div Byte) % 2 = 0
  ELSE s[a.flag] \in Bytes /\ f \div 2 = Left(s[a.flag], a.bit)

\* What has come out is a beginning of d.
OutBegins(d) == Len(out) <= Len(d) /\ \A k \in 1 .. Len(out) : out[k] = d[k]

\* The stream that is read is s, or the beginning of it, and c is the trace of s.  Between two
\* tokens decompress is at a cursor; in a match it is before one, and the bytes to come repeat.
Reading(s, c, T) ==
  /\ s \in Seq(Bytes) /\ Trace(c, T, s, data) /\ c[T].at = Len(s) /\ c[T].start = Len(data)
  /\ Len(stream) <= Len(s) /\ \A k \in 1 .. Len(stream) : stream[k] = s[k]
  /\ whole => Len(stream) = Len(s)
  /\ OutBegins(data)
  /\ phase = "decompress" =>
       \E t \in 0 .. T : /\ at = c[t].at /\ Len(out) = c[t].start /\ FlagsAt(dflags, s, c[t])
  /\ phase = "copy" =>
       \E t \in 0 .. T : /\ at = c[t].at /\ Len(out) + match.left = c[t].start
                         /\ FlagsAt(dflags, s, c[t])
                         /\ \E w \in 1 .. N : /\ match.off = (dr - w) % N
                                              /\ Repeats(data, Len(out), w, match.left)
  /\ phase = "done" => (whole => Len(out) = Len(data))

Decoding ==
  data # NoData /\ phase \in {"decompress", "copy", "done"} => \E s, c, T : Reading(s, c, T)

\* decompress begins where the trace does.
LEMMA ReadBackDecoding ==
  ASSUME Types, Writing, NEW length \in 0 .. Len(stream), ReadBack(length)
  PROVE  Decoding'
<1>1. /\ phase = "written" /\ phase' = "decompress"
      /\ stream' = SubSeq(stream, 1, length) /\ whole' = (length = Len(stream))
      /\ UNCHANGED <<data, at, dflags, out>>
  BY DEF ReadBack, compressor, decompressor
<1>2. PICK c, T : Trace(c, T, stream, data) /\ c[T].at = Len(stream) /\ c[T].start = Len(data)
  BY <1>1 DEF Writing
<1>3. stream \in Seq(Bytes) /\ at = 0 /\ dflags = 0 /\ out = <<>> /\ data \in Datas
  BY <1>1 DEF Types, TypeOK, Compressing
<1>4. Len(stream) \in Nat /\ Len(data) \in Nat /\ Len(out) = 0 BY <1>3, InputAssumption
<1>5. PICK s : s = stream OBVIOUS
<1>6. Len(stream') <= Len(s) /\ (\A k \in 1 .. Len(stream') : stream'[k] = s[k])
      /\ (whole' => Len(stream') = Len(s))
  <2>1. length \in 0 .. Len(stream) /\ stream \in Seq(Bytes) BY <1>3
  <2>2. /\ Len(SubSeq(stream, 1, length)) = length
        /\ \A k \in 1 .. length : SubSeq(stream, 1, length)[k] = stream[k]
    BY ONLY <2>1
  <2>3. Len(stream') = length /\ \A k \in 1 .. length : stream'[k] = s[k]
    BY <2>2, <1>1, <1>5
  <2>4. length <= Len(stream) BY ONLY <2>1, <1>4
  <2>5. whole' => length = Len(stream) BY <1>1
  <2> QED BY ONLY <2>3, <2>4, <2>5, <1>5
<1>7. OutBegins(data)' BY <1>1, <1>3, <1>4 DEF OutBegins
<1>8. /\ 0 \in 0 .. T /\ c[0].at = 0 /\ c[0].start = 0 /\ c[0].bit = 0
  BY <1>2 DEF Trace, Origin
<1>9. ((0 \div 2) \div Byte) % 2 = 0
  <2>1. Byte \in Nat \ {0} BY Sizes
  <2>2. 0 = 0 * Byte + 0 /\ 0 \in 0 .. Byte - 1 BY <2>1
  <2>3. 0 \div Byte = 0 BY <2>1, <2>2, DivModUnique
  <2> QED BY <2>3
<1>10. FlagsAt(dflags', s, c[0]) BY <1>1, <1>3, <1>8, <1>9 DEF FlagsAt
<1>11. Reading(s, c, T)'
  <2>1. at' = c[0].at /\ Len(out') = c[0].start BY <1>1, <1>3, <1>4, <1>8
  <2>2. s \in Seq(Bytes) /\ Trace(c, T, s, data') /\ c[T].at = Len(s) /\ c[T].start = Len(data')
    BY <1>1, <1>2, <1>3, <1>5
  <2> QED BY <2>1, <2>2, <1>1, <1>6, <1>7, <1>8, <1>10 DEF Reading, Trace
<1> QED BY <1>11 DEF Decoding

\* A turn that begins at a cursor uses the flag of the token there, and leaves the flags as they
\* are before the next.
LEMMA TurnFlags ==
  ASSUME TypeOK, at < Len(stream), NEW s \in Seq(Bytes), NEW d, NEW a \in Cursor, NEW b \in Cursor,
         Reads(s, d, a, b), at = a.at, FlagsAt(dflags, s, a),
         Len(stream) <= Len(s), \A k \in 1 .. Len(stream) : stream[k] = s[k]
  PROVE  /\ Begins = TokenAt(a) /\ NowFlags % 2 = Bit(s[FlagOf(a)], a.bit)
         /\ FlagsAt(NowFlags, s, b)
<1>1. /\ stream \in Seq(Bytes) /\ at \in 0 .. Len(stream) /\ Len(stream) \in Nat /\ Len(s) \in Nat
  BY DEF TypeOK
<1>2. /\ a.at \in Nat /\ a.bit \in 0 .. Bits - 1 /\ a.flag \in Nat BY DEF Cursor
<1>3. Bits \in Nat \ {0} /\ Byte \in Nat /\ Byte >= 2 BY Sizes
<1> DEFINE f == s[FlagOf(a)]
           m == a.bit
<1>4. f \in Bytes
  <2>1. CASE m = 0
    <3>1. FlagOf(a) = at + 1 /\ at + 1 \in 1 .. Len(s) BY <2>1, <1>1 DEF FlagOf
    <3> QED BY <3>1
  <2>2. CASE m # 0
    <3>1. FlagOf(a) = a.flag /\ s[a.flag] \in Bytes BY <2>2 DEF FlagOf, FlagsAt
    <3> QED BY <3>1
  <2> QED BY <2>1, <2>2
<1>5. Begins = TokenAt(a) /\ NowFlags = Left(f, m)
  <2>1. CASE m = 0
    <3>1. Reload BY <2>1 DEF Reload, FlagsAt
    <3>2. FlagOf(a) = at + 1 /\ at + 1 \in 1 .. Len(stream) BY <2>1, <1>1 DEF FlagOf
    <3>3. f = stream[at + 1] BY <3>2
    <3>4. Begins = at + 1 /\ TokenAt(a) = at + 1 BY <3>1, <2>1 DEF Begins, TokenAt
    <3>5. NowFlags = (Byte - 1) * Byte + f BY <3>1, <3>3 DEF NowFlags
    <3>6. Left(f, 0) = (Byte - 1) * Byte + f
      <4> HIDE DEF f
      <4>1. 0 \in 0 .. Bits - 1 BY <1>3
      <4> QED BY <4>1, <1>4, FlagsLeft
    <3> QED BY <3>4, <3>5, <3>6, <2>1
  <2>2. CASE m # 0
    <3>1. FlagOf(a) = a.flag /\ dflags \div 2 = Left(f, m) BY <2>2 DEF FlagOf, FlagsAt
    <3>2. (Left(f, m) \div Byte) % 2 = 1
      <4> HIDE DEF f, m
      <4>1. m \in 0 .. Bits - 1 BY <1>2 DEF m
      <4> QED BY <4>1, <1>4, FlagsLeft
    <3>3. ~Reload
      <4> HIDE DEF f, m
      <4> QED BY <3>1, <3>2 DEF Reload
    <3>4. Begins = at /\ TokenAt(a) = at BY <3>3, <2>2 DEF Begins, TokenAt
    <3>5. NowFlags = dflags \div 2 BY <3>3 DEF NowFlags
    <3> QED BY <3>1, <3>4, <3>5
  <2> QED BY <2>1, <2>2
<1>6. b.flag = FlagOf(a) /\ b.bit = (IF m + 1 = Bits THEN 0 ELSE m + 1) BY DEF Reads
<1>7. s[b.flag] = f BY <1>6
<1> HIDE DEF f
<1>8. m \in 0 .. Bits - 1 /\ m \in Int BY <1>2, <1>3
<1> HIDE DEF m
<1>9. /\ Left(f, m) % 2 = Bit(f, m) /\ Left(f, m) \div 2 = Left(f, m + 1)
      /\ (Left(f, Bits) \div Byte) % 2 = 0
  BY <1>4, <1>8, FlagsLeft
<1>10. FlagsAt(NowFlags, s, b)
  <2>1. NowFlags \div 2 = Left(f, m + 1) BY <1>5, <1>9
  <2>2. CASE m + 1 = Bits
    <3>1. b.bit = 0 BY <2>2, <1>6
    <3>2. ((NowFlags \div 2) \div Byte) % 2 = 0 BY <2>1, <2>2, <1>9
    <3> QED BY <3>1, <3>2 DEF FlagsAt
  <2>3. CASE m + 1 # Bits
    <3>1. b.bit = m + 1 /\ b.bit # 0 BY <2>3, <1>6, <1>8
    <3> QED BY <3>1, <2>1, <1>4, <1>7 DEF FlagsAt
  <2> QED BY <2>2, <2>3
<1> QED BY <1>5, <1>9, <1>10 DEF f, m

\* A byte that comes out is the next of the data.
LEMMA OutGrows ==
  ASSUME out \in Seq(Bytes), NEW d, OutBegins(d), NEW x, out' = Append(out, x),
         Len(d) \in Nat, Len(out) + 1 <= Len(d), x = d[Len(out) + 1]
  PROVE  Len(out') = Len(out) + 1 /\ Len(out') <= Len(d) /\ \A k \in 1 .. Len(out') : out'[k] = d[k]
<1>1. Len(out) \in Nat /\ Len(out') = Len(out) + 1 OBVIOUS
<1>2. ASSUME NEW k \in 1 .. Len(out') PROVE out'[k] = d[k]
  <2>1. CASE k = Len(out) + 1 BY <2>1
  <2>2. CASE k # Len(out) + 1
    <3>1. k \in 1 .. Len(out) BY <2>2, <1>1
    <3> QED BY <3>1 DEF OutBegins
  <2> QED BY <2>1, <2>2
<1> QED BY <1>1, <1>2

\* A turn reads the next token of the trace; that it cannot means that the stream was cut.
LEMMA TurnDecoding == ASSUME Types, Windows, Decoding, Turn PROVE Decoding'
<1>1. /\ phase = "decompress" /\ at < Len(stream) /\ dflags' = NowFlags
      /\ Literal \/ Matched \/ Stopped
      /\ UNCHANGED <<data, i, ring, r, head, prev, left, flagpos, flagbit, flags, stream, whole>>
  BY TurnParts
<1> SUFFICES ASSUME data # NoData PROVE \E s, c, T : Reading(s, c, T)' BY <1>1 DEF Decoding
<1>2. PICK s, c, T : Reading(s, c, T) BY <1>1 DEF Decoding
<1>3. /\ s \in Seq(Bytes) /\ Trace(c, T, s, data) /\ c[T].at = Len(s) /\ c[T].start = Len(data)
      /\ Len(stream) <= Len(s) /\ (\A k \in 1 .. Len(stream) : stream[k] = s[k])
      /\ (whole => Len(stream) = Len(s)) /\ OutBegins(data)
  BY <1>2 DEF Reading
<1>4. PICK t \in 0 .. T : at = c[t].at /\ Len(out) = c[t].start /\ FlagsAt(dflags, s, c[t])
  BY <1>1, <1>2 DEF Reading
<1>5. T \in Nat /\ c \in [0 .. T -> Cursor] BY <1>3 DEF Trace
<1>6. TypeOK /\ stream \in Seq(Bytes) /\ Len(stream) \in Nat /\ Len(s) \in Nat /\ out \in Seq(Bytes)
      /\ at \in Nat /\ Len(out) \in Nat /\ Len(data) \in Nat
  <2>1. TypeOK /\ stream \in Seq(Bytes) /\ at \in 0 .. Len(stream) /\ out \in Seq(Bytes)
        /\ data \in Datas \cup {NoData}
    BY DEF Types, TypeOK
  <2>2. Len(stream) \in Nat /\ Len(s) \in Nat /\ Len(out) \in Nat BY <2>1, <1>3
  <2>3. Len(data) \in Nat BY <2>1, DataAreBytes
  <2> QED BY <2>1, <2>2, <2>3
<1>7. t # T
  <2> SUFFICES ASSUME t = T PROVE FALSE OBVIOUS
  <2>1. at = Len(s) BY <1>3, <1>4
  <2> QED BY <2>1, <1>1, <1>3, <1>6
<1>8. t \in 0 .. T - 1 /\ t + 1 \in 0 .. T BY <1>5, <1>7
<1> DEFINE a == c[t]
           b == c[t + 1]
           j == TokenAt(a)
<1>9. Reads(s, data, a, b) /\ a \in Cursor /\ b \in Cursor BY <1>3, <1>5, <1>8 DEF Trace
<1>10. j \in Nat BY <1>9 DEF TokenAt, Cursor
<1>11. Begins = j /\ NowFlags % 2 = Bit(s[FlagOf(a)], a.bit) /\ FlagsAt(NowFlags, s, b)
  <2>1. at = a.at /\ FlagsAt(dflags, s, a) BY <1>4
  <2> HIDE DEF a, b
  <2> QED BY <2>1, <1>1, <1>3, <1>6, <1>9, TurnFlags
<1>12. b.at <= Len(s) /\ b.start <= Len(data) BY <1>9 DEF Reads
<1>13. Len(out) = a.start /\ a.start \in Nat BY <1>4, <1>9 DEF Cursor
<1>14. dr = Pos(Len(out)) BY DEF Windows
<1> HIDE DEF a, j
<1>15. CASE Literal
  <2>1. /\ NowFlags % 2 = 1 /\ j < Len(stream) /\ Emit(stream[j + 1]) /\ at' = j + 1
        /\ UNCHANGED <<phase, match>>
    BY <1>11, <1>15 DEF Literal
  <2>2. b.at = j + 1 /\ b.start = a.start + 1 /\ s[j + 1] = data[b.start]
    BY <2>1, <1>9, <1>11 DEF Reads, j
  <2>3. stream[j + 1] = s[j + 1]
    <3>1. j + 1 \in 1 .. Len(stream) BY <2>1, <1>6, <1>10
    <3> QED BY <3>1, <1>3
  <2>4. out' = Append(out, stream[j + 1]) BY <2>1 DEF Emit
  <2>5. stream[j + 1] = data[Len(out) + 1] BY <2>2, <2>3, <1>13
  <2>6. Len(out) + 1 <= Len(data) BY <2>2, <1>12, <1>13
  <2>7. Len(out') = Len(out) + 1 /\ Len(out') <= Len(data) /\ \A k \in 1 .. Len(out') : out'[k] = data[k]
    BY <2>4, <2>5, <2>6, <1>3, <1>6, OutGrows
  <2>8. OutBegins(data)' BY <2>7, <1>1 DEF OutBegins
  <2>9. at' = c[t + 1].at /\ Len(out') = c[t + 1].start BY <2>1, <2>2, <2>7, <1>13
  <2>10. FlagsAt(dflags', s, c[t + 1]) BY <1>1, <1>11
  <2>11. Reading(s, c, T)'
    BY <2>1, <2>8, <2>9, <2>10, <1>1, <1>3, <1>8 DEF Reading, Trace
  <2> QED BY <2>11
<1>16. CASE Matched
  <2>1. /\ NowFlags % 2 = 0 /\ j + 1 < Len(stream) /\ match' = MatchAt(stream, j) /\ at' = j + 2
        /\ phase' = "copy" /\ UNCHANGED <<out, dring, dr>>
    BY <1>11, <1>16 DEF Matched
  <2>2. PICK w \in 1 .. N : /\ MatchAt(s, j).off = (Pos(a.start) - w) % N
                            /\ Repeats(data, a.start, w, MatchAt(s, j).left)
    BY <2>1, <1>9, <1>11 DEF Reads, j
  <2>3. b.at = j + 2 /\ b.start = a.start + MatchAt(s, j).left
    BY <2>1, <1>9, <1>11 DEF Reads, j
  <2>4. MatchAt(stream, j) = MatchAt(s, j)
    <3>1. j + 1 \in 1 .. Len(stream) /\ j + 2 \in 1 .. Len(stream) BY <2>1, <1>6, <1>10
    <3>2. stream[j + 1] = s[j + 1] /\ stream[j + 2] = s[j + 2] BY <3>1, <1>3
    <3> QED BY <3>2 DEF MatchAt
  <2>5. at' = c[t + 1].at /\ Len(out') + match'.left = c[t + 1].start
    BY <2>1, <2>3, <2>4, <1>13
  <2>6. FlagsAt(dflags', s, c[t + 1]) BY <1>1, <1>11
  <2>7. match'.off = (dr' - w) % N /\ Repeats(data', Len(out'), w, match'.left)
    BY <2>1, <2>2, <2>4, <1>1, <1>13, <1>14
  <2>8. OutBegins(data)' BY <2>1, <1>1, <1>3 DEF OutBegins
  <2>9. \E u \in 0 .. T : /\ at' = c[u].at /\ Len(out') + match'.left = c[u].start
                          /\ FlagsAt(dflags', s, c[u])
                          /\ \E w1 \in 1 .. N : /\ match'.off = (dr' - w1) % N
                                                /\ Repeats(data', Len(out'), w1, match'.left)
    BY <2>5, <2>6, <2>7, <1>8
  <2>10. Reading(s, c, T)' BY <2>1, <2>8, <2>9, <1>1, <1>3 DEF Reading, Trace, Repeats
  <2> QED BY <2>10
<1>17. CASE Stopped
  <2>1. /\ IF NowFlags % 2 = 1 THEN j >= Len(stream) ELSE j + 1 >= Len(stream)
        /\ phase' = "done" /\ UNCHANGED <<match, out, dring, dr>>
    BY <1>11, <1>17 DEF Stopped
  <2>2. IF NowFlags % 2 = 1 THEN b.at = j + 1 ELSE b.at = j + 2
    BY <1>9, <1>11 DEF Reads, j
  <2>3. Len(stream) # Len(s)
    <3>1. CASE NowFlags % 2 = 1
      <4>1. j >= Len(stream) /\ b.at = j + 1 BY <3>1, <2>1, <2>2
      <4> QED BY <4>1, <1>6, <1>10, <1>12
    <3>2. CASE NowFlags % 2 # 1
      <4>1. j + 1 >= Len(stream) /\ b.at = j + 2 BY <3>2, <2>1, <2>2
      <4> QED BY <4>1, <1>6, <1>10, <1>12
    <3> QED BY <3>1, <3>2
  <2>4. ~whole BY <2>3, <1>3
  <2>5. OutBegins(data)' BY <2>1, <1>1, <1>3 DEF OutBegins
  <2>6. Reading(s, c, T)' BY <2>1, <2>4, <2>5, <1>1, <1>3 DEF Reading, Trace
  <2> QED BY <2>6
<1> QED BY <1>1, <1>15, <1>16, <1>17

\* A byte that is copied is the next of the data, and so is the place after it of the one after.
LEMMA CopyDecoding == ASSUME Types, Windows, Decoding, Copy PROVE Decoding'
<1>1. /\ phase = "copy" /\ phase' = (IF match.left = 1 THEN "decompress" ELSE "copy")
      /\ match' = [off |-> (match.off + 1) % N, left |-> match.left - 1]
      /\ Emit(dring[match.off])
      /\ UNCHANGED <<data, stream, at, dflags, whole>>
  BY DEF Copy, compressor
<1> SUFFICES ASSUME data # NoData PROVE \E s, c, T : Reading(s, c, T)' BY <1>1 DEF Decoding
<1>2. PICK s, c, T : Reading(s, c, T) BY <1>1 DEF Decoding
<1>3. /\ s \in Seq(Bytes) /\ Trace(c, T, s, data) /\ c[T].at = Len(s) /\ c[T].start = Len(data)
      /\ Len(stream) <= Len(s) /\ (\A k \in 1 .. Len(stream) : stream[k] = s[k])
      /\ (whole => Len(stream) = Len(s)) /\ OutBegins(data)
  BY <1>2 DEF Reading
<1>4. PICK t \in 0 .. T : /\ at = c[t].at /\ Len(out) + match.left = c[t].start
                          /\ FlagsAt(dflags, s, c[t])
                          /\ \E w \in 1 .. N : /\ match.off = (dr - w) % N
                                               /\ Repeats(data, Len(out), w, match.left)
  BY <1>1, <1>2 DEF Reading
<1>5. PICK w \in 1 .. N : match.off = (dr - w) % N /\ Repeats(data, Len(out), w, match.left)
  BY <1>4
<1>6. T \in Nat /\ c \in [0 .. T -> Cursor] BY <1>3 DEF Trace
<1>7. /\ out \in Seq(Bytes) /\ Len(out) \in Nat /\ Len(data) \in Nat /\ dr \in Ring
      /\ match.left \in 0 .. F /\ match.left >= 1 /\ match.off \in Ring /\ F \in Nat
  <2>1. TypeOK /\ match.left >= 1 BY <1>1 DEF Types
  <2>2. out \in Seq(Bytes) /\ dr \in Ring /\ match.left \in 0 .. F /\ match.off \in Ring
        /\ data \in Datas \cup {NoData}
    BY <2>1 DEF TypeOK
  <2>3. Len(out) \in Nat /\ Len(data) \in Nat BY <2>2, DataAreBytes
  <2> QED BY <2>1, <2>2, <2>3, Sizes
<1>8. N \in Nat \ {0} /\ N >= 3 BY Sizes
<1> DEFINE n == Len(out)
           l == match.left
           x == dring[match.off]
<1>9. c[t].start <= Len(data)
  <2>1. CASE t = 0 BY <2>1, <1>3, <1>7 DEF Trace, Origin
  <2>2. CASE t # 0
    <3>1. t - 1 \in 0 .. T - 1 /\ (t - 1) + 1 = t BY <2>2, <1>6
    <3>2. Reads(s, data, c[t - 1], c[(t - 1) + 1]) BY <3>1, <1>3 DEF Trace
    <3> QED BY <3>1, <3>2 DEF Reads
  <2> QED BY <2>1, <2>2
<1>10. n + 1 <= Len(data) /\ l \in Nat /\ l >= 1 /\ n \in Nat
  <2>1. n + l <= Len(data) BY <1>4, <1>9
  <2>2. l \in Nat /\ n \in Nat BY <1>7
  <2> QED BY ONLY <2>1, <2>2, <1>7
<1>11. x = Window(out, n, w)
  <2>1. IsWindow(dring, dr, out, Len(out)) BY DEF Windows
  <2> QED BY <2>1, <1>5 DEF IsWindow
<1>12. Window(out, n, w) = Window(data, n, w)
  <2>1. w <= n => n - w + 1 \in 1 .. Len(out) BY <1>8, <1>10
  <2>2. w <= n => out[n - w + 1] = data[n - w + 1] BY <2>1, <1>3 DEF OutBegins
  <2> QED BY <2>2 DEF Window
<1>13. \A k \in 0 .. l - 1 : data[n + k + 1] = Window(data, n + k, w)
  BY <1>5 DEF Repeats
<1>14. x = data[n + 1]
  <2>1. 0 \in 0 .. l - 1 /\ n + 0 = n BY <1>10
  <2>2. data[n + 0 + 1] = Window(data, n + 0, w) BY <2>1, <1>13
  <2> QED BY <2>1, <2>2, <1>11, <1>12
<1>15. out' = Append(out, x) /\ dr' = (dr + 1) % N BY <1>1 DEF Emit
<1>16. Len(out') = n + 1 /\ Len(out') <= Len(data) /\ \A k \in 1 .. Len(out') : out'[k] = data[k]
  <2> HIDE DEF x
  <2>1. x = data[Len(out) + 1] /\ Len(out) + 1 <= Len(data) BY <1>10, <1>14
  <2> QED BY <2>1, <1>3, <1>7, <1>15, OutGrows
<1>17. OutBegins(data)' BY <1>16, <1>1 DEF OutBegins
<1>18. match'.left = l - 1 /\ match'.off = (match.off + 1) % N BY <1>1
<1>19. Len(out') + match'.left = c[t].start
  <2>1. (n + 1) + (l - 1) = n + l BY <1>10
  <2> QED BY <2>1, <1>4, <1>16, <1>18
<1>20. match'.off = (dr' - w) % N
  <2> DEFINE o == match.off
             d == dr
             d1 == dr'
  <2>1. o \in 0 .. N - 1 /\ d \in 0 .. N - 1 BY <1>7 DEF Ring
  <2>2. 1 \in 0 .. N - 1 /\ w \in 0 .. N BY <1>8
  <2>3. (o + 1) % N = IF o + 1 < N THEN o + 1 ELSE o + 1 - N BY <2>2, <1>7, Ahead
  <2>4. d1 = (IF d + 1 < N THEN d + 1 ELSE d + 1 - N) /\ d1 \in Ring
    BY <2>2, <1>7, <1>15, Ahead
  <2>5. (d1 - w) % N = IF w <= d1 THEN d1 - w ELSE d1 - w + N BY <2>2, <2>4, Behind
  <2>6. o = IF w <= d THEN d - w ELSE d - w + N BY <2>2, <1>5, <1>7, Behind
  <2> HIDE DEF o, d, d1
  <2>7. (o + 1) % N = (d1 - w) % N
    BY ONLY <2>1, <2>2, <2>3, <2>4, <2>5, <2>6, <1>8
  <2> QED BY <2>7, <1>18 DEF o, d1
<1>21. Repeats(data', Len(out'), w, match'.left)
  <2> SUFFICES ASSUME NEW k \in 0 .. match'.left - 1
               PROVE  data'[Len(out') + k + 1] = Window(data', Len(out') + k, w)
    BY DEF Repeats
  <2>1. k + 1 \in 0 .. l - 1 /\ k \in Int BY <1>10, <1>18
  <2>2. Len(out') + k = n + (k + 1) BY <2>1, <1>10, <1>16
  <2>3. data[n + (k + 1) + 1] = Window(data, n + (k + 1), w) BY <2>1, <1>13
  <2> QED BY <2>2, <2>3, <1>1 DEF Window
<1>22. at' = c[t].at /\ FlagsAt(dflags', s, c[t]) BY <1>1, <1>4
<1> HIDE DEF n, l, x
<1>23. CASE match.left = 1
  <2>1. phase' = "decompress" BY <1>1, <1>23
  <2>2. Len(out') = c[t].start
    <3>1. match'.left = 0 BY <1>1, <1>23
    <3>2. Len(out') + 0 = Len(out') BY <1>10, <1>16
    <3> QED BY <3>1, <3>2, <1>19
  <2>3. Reading(s, c, T)'
    BY <2>1, <2>2, <1>1, <1>3, <1>17, <1>22 DEF Reading, Trace
  <2> QED BY <2>3
<1>24. CASE match.left # 1
  <2>1. phase' = "copy" BY <1>1, <1>24
  <2>2. \E u \in 0 .. T : /\ at' = c[u].at /\ Len(out') + match'.left = c[u].start
                          /\ FlagsAt(dflags', s, c[u])
                          /\ \E w1 \in 1 .. N : /\ match'.off = (dr' - w1) % N
                                                /\ Repeats(data', Len(out'), w1, match'.left)
    BY <1>19, <1>20, <1>21, <1>22
  <2>3. Reading(s, c, T)' BY <2>1, <2>2, <1>1, <1>3, <1>17 DEF Reading, Trace, Repeats
  <2> QED BY <2>3
<1> QED BY <1>23, <1>24

\* At the end of the whole stream every token has been read.
LEMMA EndDecoding == ASSUME Types, Decoding, EndOfStream PROVE Decoding'
<1>1. /\ phase = "decompress" /\ phase' = "done" /\ at = Len(stream)
      /\ UNCHANGED <<data, stream, at, dflags, dr, match, out, whole>>
  BY DEF EndOfStream, compressor, decompressor
<1> SUFFICES ASSUME data # NoData PROVE \E s, c, T : Reading(s, c, T)' BY <1>1 DEF Decoding
<1>2. PICK s, c, T : Reading(s, c, T) BY <1>1 DEF Decoding
<1>3. PICK t \in 0 .. T : at = c[t].at /\ Len(out) = c[t].start BY <1>1, <1>2 DEF Reading
<1>4. /\ s \in Seq(Bytes) /\ Trace(c, T, s, data) /\ c[T].at = Len(s) /\ c[T].start = Len(data)
      /\ (whole => Len(stream) = Len(s))
  BY <1>2 DEF Reading
<1>5. ASSUME whole PROVE Len(out) = Len(data)
  <2>1. c[t].at = c[T].at BY <1>1, <1>3, <1>4, <1>5
  <2>2. t = T
    <3> SUFFICES ASSUME t # T PROVE FALSE OBVIOUS
    <3>1. c[t].at < c[T].at BY <1>4, TraceGrows
    <3>2. c[T].at \in Nat BY <1>4
    <3> QED BY <2>1, <3>1, <3>2
  <2> QED BY <2>2, <1>3, <1>4
<1>6. Reading(s, c, T)' BY <1>1, <1>2, <1>5 DEF Reading, Trace, OutBegins
<1> QED BY <1>6

(***************************************************************************)
(* All of it.                                                              *)
(***************************************************************************)

LzsInv == Types /\ Windows /\ Writing /\ Decoding

\* The invariant holds at the beginning.
LEMMA InitInv == ASSUME Init PROVE LzsInv
<1>1. Types /\ Windows /\ Writing BY InitTypes, InitWindows, InitWriting
<1>2. Decoding
  <2>1. phase = "compress" \/ data = NoData BY DEF Init
  <2> QED BY <2>1 DEF Decoding
<1> QED BY <1>1, <1>2 DEF LzsInv

\* Every step keeps the invariant.
LEMMA InvStep == ASSUME LzsInv, [Next]_vars PROVE LzsInv'
<1>1. Types /\ Windows /\ Writing /\ Decoding BY DEF LzsInv
<1>2. Types' /\ Windows' BY <1>1, TypesStep, WindowsStep
<1> SUFFICES Writing' /\ Decoding' BY <1>2 DEF LzsInv
<1>3. CASE Token
  <2>1. phase' = "slide" BY <1>3 DEF Token
  <2> QED BY <2>1, <1>1, <1>3, TokenWriting DEF Decoding
<1>4. CASE Slide
  <2>1. phase' \in {"compress", "slide"} BY <1>4 DEF Slide
  <2> QED BY <2>1, <1>1, <1>4, SlideWriting DEF Decoding
<1>5. CASE Finish
  <2>1. phase' = "written" BY <1>5 DEF Finish
  <2> QED BY <2>1, <1>1, <1>5, FinishWriting DEF Decoding
<1>6. ASSUME NEW length \in 0 .. Len(stream), ReadBack(length) PROVE Writing' /\ Decoding'
  <2>1. phase' = "decompress" BY <1>6 DEF ReadBack
  <2>2. Writing' BY <2>1 DEF Writing
  <2> QED BY <2>2, <1>1, <1>6, ReadBackDecoding
<1>7. CASE Turn
  <2>1. phase' \in {"decompress", "copy", "done"}
    BY <1>7, TurnParts DEF Literal, Matched, Stopped
  <2>2. Writing' BY <2>1 DEF Writing
  <2> QED BY <2>2, <1>1, <1>7, TurnDecoding
<1>8. CASE Copy
  <2>1. phase' \in {"decompress", "copy"} BY <1>8 DEF Copy
  <2>2. Writing' BY <2>1 DEF Writing
  <2> QED BY <2>2, <1>1, <1>8, CopyDecoding
<1>9. CASE EndOfStream
  <2>1. phase' = "done" BY <1>9 DEF EndOfStream
  <2>2. Writing' BY <2>1 DEF Writing
  <2> QED BY <2>2, <1>1, <1>9, EndDecoding
<1>10. CASE UNCHANGED vars
  <2>1. UNCHANGED <<phase, data, i, ring, r, head, prev, left, flagpos, flagbit, flags>>
        /\ UNCHANGED <<stream, at, dflags, dring, dr, match, out, whole>>
    BY <1>10 DEF vars, compressor, decompressor
  <2>2. Writing'
    BY <1>1, <2>1 DEF Writing, Written, Flagged, Trace
  <2>3. ASSUME NEW s, NEW c, NEW T, Reading(s, c, T) PROVE Reading(s, c, T)'
    <3>1. Trace(c, T, s, data)' = Trace(c, T, s, data) BY <2>1 DEF Trace
    <3>2. OutBegins(data)' = OutBegins(data) BY <2>1 DEF OutBegins
    <3> QED BY <2>1, <2>3, <3>1, <3>2 DEF Reading
  <2>4. Decoding' BY <1>1, <2>1, <2>3 DEF Decoding
  <2> QED BY <2>2, <2>4
<1> QED BY <1>3, <1>4, <1>5, <1>6, <1>7, <1>8, <1>9, <1>10 DEF Next

\* What came out of a whole stream is the data; of one that was cut it is a beginning of it.
LEMMA ComesBack == ASSUME LzsInv PROVE RoundTrip
<1> SUFFICES ASSUME phase = "done", data # NoData
             PROVE  /\ whole => out = data /\ Overrun(Len(data)) = 0
                    /\ Len(out) <= Len(data) /\ Exact(Len(data)) = SubSeq(data, 1, Len(out))
  BY DEF RoundTrip
<1>1. PICK s, c, T : Reading(s, c, T) BY DEF LzsInv, Decoding
<1>2. OutBegins(data) /\ (whole => Len(out) = Len(data)) BY <1>1 DEF Reading
<1>3. out \in Seq(Bytes) /\ data \in Seq(Bytes)
  BY DataAreBytes DEF LzsInv, Types, TypeOK
<1>4. Len(out) \in Nat /\ Len(data) \in Nat BY <1>3
<1>5. Len(out) <= Len(data) /\ \A k \in 1 .. Len(out) : out[k] = data[k] BY <1>2 DEF OutBegins
<1>6. SubSeq(out, 1, Len(out)) = SubSeq(data, 1, Len(out))
  <2>1. /\ SubSeq(out, 1, Len(out)) = [k \in 1 .. Len(out) |-> out[k]]
        /\ SubSeq(data, 1, Len(out)) = [k \in 1 .. Len(out) |-> data[k]]
    BY <1>3, <1>4, <1>5
  <2> QED BY <2>1, <1>5
<1>7. Exact(Len(data)) = SubSeq(data, 1, Len(out))
  <2>1. (IF Len(data) < Len(out) THEN Len(data) ELSE Len(out)) = Len(out) BY <1>4, <1>5
  <2> QED BY <2>1, <1>6 DEF Exact
<1>8. ASSUME whole PROVE out = data /\ Overrun(Len(data)) = 0
  <2>1. Len(out) = Len(data) BY <1>2, <1>8
  <2>2. out = data
    <3>1. out = [k \in 1 .. Len(out) |-> out[k]] /\ data = [k \in 1 .. Len(data) |-> data[k]]
      BY <1>3
    <3> QED BY <2>1, <3>1, <1>5
  <2>3. Overrun(Len(data)) = 0 BY <2>1, <1>4 DEF Overrun
  <2> QED BY <2>2, <2>3
<1> QED BY <1>5, <1>7, <1>8

\* compress(data) returns a stream that decompress turns back into data, for any data, and of a
\* stream that is cut short a beginning of the data comes back.
THEOREM WhatIsWrittenComesBack == Spec => []RoundTrip
<1>1. Init => LzsInv BY InitInv
<1>2. LzsInv /\ [Next]_vars => LzsInv' BY InvStep
<1>3. LzsInv => RoundTrip BY ComesBack
<1> QED BY <1>1, <1>2, <1>3, PTL DEF Spec
=============================================================================
