---------------------------- MODULE NaturalLemmas ----------------------------
(***************************************************************************)
(* What the proofs share about numbers.  Quotients and remainders by a     *)
(* positive divisor, for words, sectors, sites and ring positions: the     *)
(* provers multiply and divide by numerals only.  Induction over sets of   *)
(* natural numbers, for what is defined by recursion, and sums.            *)
(***************************************************************************)
EXTENDS Integers, TLAPS, WellFoundedInduction

\* A product with a factor that is at least one is at least the other factor.
LEMMA AtLeastOnce == ASSUME NEW a \in Int, NEW n \in Nat \ {0}, a >= 1 PROVE a * n >= n
OBVIOUS

\* Multiplying by a natural number keeps the order.
LEMMA TimesMonotone ==
  ASSUME NEW a \in Int, NEW b \in Int, NEW n \in Nat, a <= b
  PROVE  a * n <= b * n
<1>1. b - a \in Nat /\ (b - a) * n \in Nat OBVIOUS
<1>2. (b - a) * n = b * n - a * n OBVIOUS
<1> QED BY <1>1, <1>2

\* Sums and differences under a product.
LEMMA Distribute ==
  ASSUME NEW a \in Int, NEW b \in Int, NEW n \in Int
  PROVE  /\ (a + b) * n = a * n + b * n /\ (a - b) * n = a * n - b * n
         /\ n * (a + b) = n * a + n * b /\ a * n \in Int /\ a * n = n * a
OBVIOUS

\* Products of three.
LEMMA TimesAssociates ==
  ASSUME NEW a \in Int, NEW b \in Int, NEW n \in Int PROVE (a * b) * n = a * (b * n)
OBVIOUS

\* What the division theorem says of the quotient and the remainder.
LEMMA DivMod ==
  ASSUME NEW x \in Int, NEW n \in Nat \ {0}
  PROVE  /\ x \div n \in Int /\ x % n \in 0 .. n - 1
         /\ x = (x \div n) * n + (x % n)
<1>1. x = n * (x \div n) + (x % n) OBVIOUS
<1>2. n * (x \div n) = (x \div n) * n OBVIOUS
<1> QED BY <1>1, <1>2

\* Quotient and remainder are what the division theorem says they are, and no other pair is.
LEMMA DivModUnique ==
  ASSUME NEW n \in Nat \ {0}, NEW q \in Int, NEW r \in 0 .. n - 1,
         NEW x \in Int, x = q * n + r
  PROVE  x \div n = q /\ x % n = r
<1> DEFINE d == x \div n
           m == x % n
<1>1. d \in Int /\ m \in 0 .. n - 1 /\ x = n * d + m OBVIOUS
<1>2. (q - d) * n = m - r BY <1>1
<1>3. ~(q - d >= 1)
  <2> SUFFICES ASSUME q - d >= 1 PROVE FALSE OBVIOUS
  <2>1. (q - d) * n >= n BY <1>1, AtLeastOnce
  <2> QED BY <2>1, <1>2, <1>1
<1>4. ~(d - q >= 1)
  <2> SUFFICES ASSUME d - q >= 1 PROVE FALSE OBVIOUS
  <2>1. (d - q) * n >= n BY <1>1, AtLeastOnce
  <2>2. (d - q) * n = r - m BY <1>1, <1>2
  <2> QED BY <2>1, <2>2, <1>1
<1>5. q = d BY <1>1, <1>3, <1>4
<1> QED BY <1>5, <1>2, <1>1

\* The quotient of a number between two bounds is between the quotients.
LEMMA DivBetween ==
  ASSUME NEW x \in Int, NEW n \in Nat \ {0}, NEW lo \in Int, NEW hi \in Int,
         lo * n <= x, x < hi * n
  PROVE  x \div n \in lo .. hi - 1
<1> DEFINE d == x \div n
           m == x % n
<1>1. d \in Int /\ m \in 0 .. n - 1 /\ x = d * n + m BY DivMod
<1> HIDE DEF d, m
<1>2. ~(d < lo)
  <2> SUFFICES ASSUME d + 1 <= lo PROVE FALSE BY <1>1
  <2>1. (d + 1) * n <= lo * n BY <1>1, TimesMonotone
  <2>2. (d + 1) * n = d * n + n BY <1>1
  <2> QED BY <2>1, <2>2, <1>1
<1>3. ~(d >= hi)
  <2> SUFFICES ASSUME hi <= d PROVE FALSE OBVIOUS
  <2>1. hi * n <= d * n BY <1>1, TimesMonotone
  <2> QED BY <2>1, <1>1
<1> QED BY <1>1, <1>2, <1>3 DEF d

(***************************************************************************)
(* Induction, for sets of natural numbers.                                 *)
(***************************************************************************)

\* A set of natural numbers that is not empty has a least one.
LEMMA LeastNatural ==
  ASSUME NEW T, T \subseteq Nat, T # {}
  PROVE  \E n \in T : \A m \in T : n <= m
<1> DEFINE R == {p \in Nat \X Nat : p[1] < p[2]}
<1>1. IsWellFoundedOn(R, Nat) BY NatLessThanWellFounded DEF OpToRel
<1>2. PICK n \in T : \A m \in T : <<m, n>> \notin R
  <2> HIDE DEF R
  <2> QED BY <1>1, WFMin
<1>3. ASSUME NEW m \in T PROVE n <= m
  <2>1. m \in Nat /\ n \in Nat /\ <<m, n>> \notin R BY <1>2
  <2>2. ~(m < n) BY <2>1
  <2> QED BY <2>1, <2>2
<1> QED BY <1>3

\* A set that has zero, and the next of every natural number it has, has them all.
LEMMA Inductive ==
  ASSUME NEW T, 0 \in T, \A n \in Nat : n \in T => n + 1 \in T
  PROVE  Nat \subseteq T
<1> SUFFICES ASSUME Nat \ T # {} PROVE FALSE OBVIOUS
<1>1. PICK n \in Nat \ T : \A m \in Nat \ T : n <= m BY LeastNatural
<1>2. n # 0 /\ n - 1 \in Nat BY <1>1
<1>3. n - 1 \in T BY <1>1, <1>2
<1>4. (n - 1) + 1 = n BY <1>1
<1> QED BY <1>1, <1>2, <1>3, <1>4

\* f begins with x and goes on by step.
Iterates(f, S, x, step) ==
  f \in [Nat -> S] /\ f[0] = x /\ \A n \in Nat : f[n + 1] = step[<<n, f[n]>>]

\* A first value and a step from each to the next are a sequence: a
\* recursive definition over natural numbers has the values it says.
LEMMA Iteration ==
  ASSUME NEW S, NEW x \in S, NEW step \in [Nat \X S -> S]
  PROVE  \E f : Iterates(f, S, x, step)
<1> DEFINE Upto(g, n) == /\ g \in [0 .. n -> S] /\ g[0] = x
                         /\ \A k \in 0 .. n - 1 : g[k + 1] = step[<<k, g[k]>>]
           T == {n \in Nat : \E g : Upto(g, n)}
           U == {n \in Nat : \A p, q \in Nat : \A g, h :
                   n <= p /\ n <= q /\ Upto(g, p) /\ Upto(h, q) => g[n] = h[n]}
<1>1. Nat \subseteq T
  <2>1. 0 \in T
    <3> DEFINE g == [k \in 0 .. 0 |-> x]
    <3>1. Upto(g, 0) OBVIOUS
    <3> QED BY <3>1
  <2>2. ASSUME NEW n \in Nat, n \in T PROVE n + 1 \in T
    <3>1. PICK g : Upto(g, n) BY <2>2
    <3> DEFINE h == [k \in 0 .. n + 1 |-> IF k = n + 1 THEN step[<<n, g[n]>>] ELSE g[k]]
    <3>2. step[<<n, g[n]>>] \in S BY <3>1
    <3>3. h \in [0 .. n + 1 -> S] BY <3>1, <3>2
    <3>4. h[0] = x /\ h[n + 1] = step[<<n, g[n]>>] /\ \A k \in 0 .. n : h[k] = g[k] BY <3>1
    <3> HIDE DEF h
    <3>5. ASSUME NEW k \in 0 .. n + 1 - 1 PROVE h[k + 1] = step[<<k, h[k]>>]
      <4>1. CASE k = n BY <4>1, <3>4
      <4>2. CASE k # n
        <5>1. k \in 0 .. n - 1 /\ k + 1 \in 0 .. n BY <4>2
        <5> QED BY <5>1, <3>1, <3>4
      <4> QED BY <4>1, <4>2
    <3>6. Upto(h, n + 1) BY <3>3, <3>4, <3>5
    <3> QED BY <3>6
  <2> HIDE DEF T
  <2> QED BY <2>1, <2>2, Inductive
<1>2. Nat \subseteq U
  <2>1. 0 \in U OBVIOUS
  <2>2. ASSUME NEW n \in Nat, n \in U PROVE n + 1 \in U
    <3>1. SUFFICES ASSUME NEW p \in Nat, NEW q \in Nat, NEW g, NEW h, n + 1 <= p, n + 1 <= q,
                          Upto(g, p), Upto(h, q)
                   PROVE  g[n + 1] = h[n + 1]
      OBVIOUS
    <3>2. g[n] = h[n]
      <4>1. n <= p /\ n <= q BY <3>1
      <4> HIDE DEF Upto
      <4> QED BY <4>1, <2>2, <3>1
    <3>3. n \in 0 .. p - 1 /\ n \in 0 .. q - 1 BY <3>1
    <3> QED BY <3>1, <3>2, <3>3
  <2> HIDE DEF U
  <2> QED BY <2>1, <2>2, Inductive
<1> DEFINE G(n) == CHOOSE g : Upto(g, n)
           f == [n \in Nat |-> G(n)[n]]
<1>3. ASSUME NEW n \in Nat PROVE Upto(G(n), n) /\ f[n] = G(n)[n]
  <2>1. \E g : Upto(g, n) BY <1>1
  <2> QED BY <2>1
<1> HIDE DEF f, G
<1>4. f \in [Nat -> S]
  <2>1. \A n \in Nat : f[n] \in S BY <1>3
  <2> QED BY <2>1 DEF f
<1>5. f[0] = x BY <1>3
<1>6. ASSUME NEW n \in Nat PROVE f[n + 1] = step[<<n, f[n]>>]
  <2>1. Upto(G(n), n) /\ Upto(G(n + 1), n + 1) BY <1>3
  <2>2. G(n + 1)[n] = G(n)[n]
    <3>1. n + 1 \in Nat /\ n <= n + 1 /\ n <= n /\ n \in U
      <4> HIDE DEF U
      <4> QED BY <1>2
    <3> HIDE DEF Upto
    <3> QED BY <2>1, <3>1
  <2>3. n \in 0 .. (n + 1) - 1 BY <1>6
  <2>4. G(n + 1)[n + 1] = step[<<n, G(n + 1)[n]>>] BY <2>1, <2>3
  <2> QED BY <2>2, <2>4, <1>3
<1> QED BY <1>4, <1>5, <1>6 DEF Iterates

\* f holds the sums of g from lo to hi, over a first value.
Summed(f, lo, hi, first, g) ==
  f = [i \in lo .. hi |-> IF i = lo THEN first ELSE f[i - 1] + g[i]]

\* There are such sums.
LEMMA SumsExist ==
  ASSUME NEW lo \in Nat, NEW hi \in Nat, NEW first \in Nat, NEW g, \A i \in lo + 1 .. hi : g[i] \in Nat
  PROVE  \E f : Summed(f, lo, hi, first, g)
<1> DEFINE more(k) == IF lo + k \in lo + 1 .. hi THEN g[lo + k] ELSE 0
           step == [p \in Nat \X Nat |-> p[2] + more(p[1] + 1)]
<1>1. \A k \in Nat : more(k) \in Nat OBVIOUS
<1>2. \A i \in lo + 1 .. hi : i - lo \in Nat /\ more(i - lo) = g[i]
  <2>1. ASSUME NEW i \in lo + 1 .. hi PROVE i - lo \in Nat /\ lo + (i - lo) = i OBVIOUS
  <2> QED BY <2>1
<1> HIDE DEF more
<1>3. step \in [Nat \X Nat -> Nat]
  <2>1. ASSUME NEW p \in Nat \X Nat PROVE p[2] + more(p[1] + 1) \in Nat
    <3>1. p[1] + 1 \in Nat /\ p[2] \in Nat OBVIOUS
    <3>2. more(p[1] + 1) \in Nat BY <3>1, <1>1
    <3> QED BY <3>1, <3>2
  <2> QED BY <2>1
<1>4. \A k, m \in Nat : step[<<k, m>>] = m + more(k + 1) OBVIOUS
<1> HIDE DEF step
<1>5. PICK h : Iterates(h, Nat, first, step) BY <1>3, Iteration
<1>6. h \in [Nat -> Nat] /\ h[0] = first /\ \A k \in Nat : h[k + 1] = h[k] + more(k + 1)
  BY <1>4, <1>5 DEF Iterates
<1> DEFINE f == [i \in lo .. hi |-> h[i - lo]]
<1>7. ASSUME NEW i \in lo .. hi PROVE f[i] = IF i = lo THEN first ELSE f[i - 1] + g[i]
  <2>1. CASE i = lo
    <3>1. i - lo = 0 BY <2>1
    <3> QED BY <2>1, <3>1, <1>6
  <2>2. CASE i # lo
    <3> DEFINE k == i - 1 - lo
    <3>1. k \in Nat /\ k + 1 = i - lo /\ i - 1 \in lo .. hi /\ i \in lo + 1 .. hi BY <2>2
    <3>2. h[i - lo] = h[k] + more(i - lo)
      <4> HIDE DEF k
      <4>1. h[k + 1] = h[k] + more(k + 1) BY <3>1, <1>6
      <4> QED BY <4>1, <3>1
    <3> QED BY <2>2, <3>1, <3>2, <1>2
  <2> QED BY <2>1, <2>2
<1>8. f = [i \in lo .. hi |-> IF i = lo THEN first ELSE f[i - 1] + g[i]] BY <1>7
<1> QED BY <1>8 DEF Summed

\* What they are.
LEMMA SumsAre ==
  ASSUME NEW lo \in Nat, NEW hi \in Nat, NEW first \in Nat, NEW g, \A i \in lo + 1 .. hi : g[i] \in Nat,
         lo <= hi, NEW f, Summed(f, lo, hi, first, g)
  PROVE  /\ f \in [lo .. hi -> Nat] /\ f[lo] = first
         /\ \A i \in lo + 1 .. hi : f[i] = f[i - 1] + g[i]
         /\ \A i \in lo .. hi : f[i] >= first
<1>1. f = [i \in lo .. hi |-> IF i = lo THEN first ELSE f[i - 1] + g[i]] BY DEF Summed
<1>2. f[lo] = first BY <1>1
<1>3. \A i \in lo + 1 .. hi : f[i] = f[i - 1] + g[i] BY <1>1
<1> DEFINE T == {k \in Nat : lo + k \in lo .. hi => f[lo + k] \in Nat /\ f[lo + k] >= first}
<1>4. 0 \in T BY <1>2
<1>5. ASSUME NEW k \in Nat, k \in T PROVE k + 1 \in T
  <2> SUFFICES ASSUME lo + (k + 1) \in lo .. hi
               PROVE  f[lo + (k + 1)] \in Nat /\ f[lo + (k + 1)] >= first
    OBVIOUS
  <2> DEFINE i == lo + (k + 1)
  <2>1. i \in lo + 1 .. hi /\ i - 1 = lo + k /\ lo + k \in lo .. hi OBVIOUS
  <2>2. f[lo + k] \in Nat /\ f[lo + k] >= first BY <1>5, <2>1
  <2> HIDE DEF i
  <2>3. f[i] = f[lo + k] + g[i] /\ g[i] \in Nat BY <2>1, <1>3
  <2>4. f[i] \in Nat /\ f[i] >= first BY <2>2, <2>3
  <2> QED BY <2>4 DEF i
<1>6. Nat \subseteq T
  <2> HIDE DEF T
  <2> QED BY <1>4, <1>5, Inductive
<1>7. ASSUME NEW i \in lo .. hi PROVE f[i] \in Nat /\ f[i] >= first
  <2>1. i - lo \in Nat /\ lo + (i - lo) = i OBVIOUS
  <2>2. i - lo \in T BY <2>1, <1>6
  <2> QED BY <2>1, <2>2
<1>8. f \in [lo .. hi -> Nat]
  <2>1. f = [i \in lo .. hi |-> f[i]] BY <1>1
  <2> QED BY <2>1, <1>7
<1> QED BY <1>2, <1>3, <1>7, <1>8

\* Sums of positive numbers rise.
LEMMA SumsRise ==
  ASSUME NEW lo \in Nat, NEW hi \in Nat, NEW f \in [lo .. hi -> Nat],
         \A i \in lo + 1 .. hi : f[i - 1] < f[i]
  PROVE  \A i, j \in lo .. hi : i < j => f[i] < f[j]
<1> SUFFICES ASSUME NEW i \in lo .. hi, NEW j \in lo .. hi, i < j PROVE f[i] < f[j] OBVIOUS
<1> DEFINE T == {k \in Nat : i + 1 + k \in lo .. hi => f[i] < f[i + 1 + k]}
<1>1. 0 \in T
  <2> SUFFICES ASSUME i + 1 \in lo .. hi PROVE f[i] < f[i + 1] OBVIOUS
  <2>1. i + 1 \in lo + 1 .. hi /\ (i + 1) - 1 = i OBVIOUS
  <2> QED BY <2>1
<1>2. ASSUME NEW k \in Nat, k \in T PROVE k + 1 \in T
  <2> SUFFICES ASSUME i + 1 + (k + 1) \in lo .. hi PROVE f[i] < f[i + 1 + (k + 1)] OBVIOUS
  <2> DEFINE m == i + 1 + (k + 1)
             l == i + 1 + k
  <2>1. m \in lo + 1 .. hi /\ m - 1 = l /\ l \in lo .. hi /\ m \in lo .. hi OBVIOUS
  <2>2. f[i] < f[l] BY <1>2, <2>1
  <2> HIDE DEF m, l
  <2>3. f[l] < f[m] BY <2>1
  <2>4. f[i] \in Nat /\ f[l] \in Nat /\ f[m] \in Nat BY <2>1
  <2>5. f[i] < f[m] BY <2>2, <2>3, <2>4
  <2> QED BY <2>5 DEF m
<1>3. Nat \subseteq T
  <2> HIDE DEF T
  <2> QED BY <1>1, <1>2, Inductive
<1>4. j - (i + 1) \in Nat /\ i + 1 + (j - (i + 1)) = j OBVIOUS
<1>5. j - (i + 1) \in T BY <1>3, <1>4
<1> QED BY <1>4, <1>5

\* As far as they are sums of the same numbers they are the same.
LEMMA SumsAgree ==
  ASSUME NEW lo \in Nat, NEW i \in Nat, lo <= i, NEW f, NEW h, f[lo] = h[lo],
         \A j \in lo .. i : j > lo /\ f[j - 1] = h[j - 1] => f[j] = h[j]
  PROVE  f[i] = h[i]
<1> DEFINE T == {k \in Nat : lo + k \in lo .. i => f[lo + k] = h[lo + k]}
<1>1. 0 \in T OBVIOUS
<1>2. ASSUME NEW k \in Nat, k \in T PROVE k + 1 \in T
  <2> SUFFICES ASSUME lo + (k + 1) \in lo .. i PROVE f[lo + (k + 1)] = h[lo + (k + 1)] OBVIOUS
  <2> DEFINE j == lo + (k + 1)
  <2>1. j \in lo .. i /\ j > lo /\ j - 1 = lo + k /\ lo + k \in lo .. i OBVIOUS
  <2>2. f[lo + k] = h[lo + k] BY <1>2, <2>1
  <2> HIDE DEF j
  <2>3. f[j] = h[j] BY <2>1, <2>2
  <2> QED BY <2>3 DEF j
<1>3. Nat \subseteq T
  <2> HIDE DEF T
  <2> QED BY <1>1, <1>2, Inductive
<1>4. i - lo \in Nat /\ lo + (i - lo) = i OBVIOUS
<1>5. i - lo \in T BY <1>3, <1>4
<1> QED BY <1>4, <1>5
=============================================================================
