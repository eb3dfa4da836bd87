--------------------------- MODULE SplitImmProofs ---------------------------
(***************************************************************************)
(* For every width of an immediate, every window, every set of registers   *)
(* and references, and images of any length.                               *)
(***************************************************************************)
EXTENDS SplitImm, NaturalLemmas

(* Arithmetic of values and halves. *)

\* Two halves make a value, and no other two make the same.
LEMMA Pack == 
  ASSUME NEW hi \in Imms, NEW lo \in Imms
  PROVE  /\ hi * Half + lo \in Values
         /\ (hi * Half + lo) \div Half = hi /\ (hi * Half + lo) % Half = lo
<1> USE HalfAssumption
<1>1. hi \in 0 .. Half - 1 /\ lo \in 0 .. Half - 1 /\ Half \in Nat \ {0} BY DEF Imms
<1>2. (hi * Half + lo) \div Half = hi /\ (hi * Half + lo) % Half = lo BY <1>1, DivModUnique
<1>3. hi * Half <= Half * Half - Half
  <2>1. (Half - 1 - hi) * Half >= 0 BY <1>1
  <2> QED BY <2>1, <1>1
<1>4. hi * Half >= 0 BY <1>1
<1> QED BY <1>1, <1>2, <1>3, <1>4 DEF Values

LEMMA Unpack ==
  ASSUME NEW value \in Values
  PROVE  /\ value \div Half \in Imms /\ value % Half \in Imms
         /\ value = (value \div Half) * Half + (value % Half)
<1> USE HalfAssumption
<1>1. value \in Int /\ 0 <= value /\ value < Half * Half /\ Half \in Nat \ {0} BY DEF Values
<1> DEFINE d == value \div Half
           m == value % Half
<1>2. d \in Int /\ m \in 0 .. Half - 1 /\ value = d * Half + m BY <1>1
<1>3. ~(d >= Half)
  <2> SUFFICES ASSUME d >= Half PROVE FALSE OBVIOUS
  <2>1. (d - Half) * Half >= 0 BY <1>1, <1>2
  <2> QED BY <2>1, <1>1, <1>2
<1>4. ~(d <= -1)
  <2> SUFFICES ASSUME -d >= 1 PROVE FALSE BY <1>2
  <2>1. (-d) * Half >= Half BY <1>1, <1>2, AtLeastOnce
  <2> QED BY <2>1, <1>1, <1>2
<1>5. d \in Imms /\ m \in Imms BY <1>1, <1>2, <1>3, <1>4 DEF Imms
<1> QED BY <1>2, <1>5

\* "compose(*halves(v, op), op) == v for every 32-bit v and both opcodes."
THEOREM HalvesCompose ==
  ASSUME NEW value \in Values, NEW op \in {"ori", "addiu"}
  PROVE  /\ Halves(value, op) \in Imms \X Imms
         /\ Compose(Halves(value, op)[1], Halves(value, op)[2], op) = value
<1> USE HalfAssumption
<1> DEFINE q == value \div Half
           r == value % Half
           h == Half \div 2
<1>1. q \in Imms /\ r \in Imms /\ value = q * Half + r BY Unpack
<1>2. q \in 0 .. Half - 1 /\ r \in 0 .. Half - 1 /\ Half \in Nat \ {0} BY <1>1 DEF Imms
<1>3. h \in Nat /\ 2 * h = Half BY <1>2
<1>4. value \in Int /\ 0 <= value /\ value < Half * Half BY <1>2 DEF Values
<1> HIDE DEF q, r, h
<1>5. CASE op = "ori"
  BY <1>5, <1>1, <1>2 DEF Halves, Compose, q, r
<1>6. CASE op = "addiu" /\ 2 * r < Half
  <2>1. value + h = q * Half + (r + h) /\ r + h \in 0 .. Half - 1 BY <1>1, <1>2, <1>3, <1>6
  <2>2. (value + h) \div Half = q
    <3> DEFINE x == value + h
               low == r + h
    <3>1. x \in Int /\ low \in 0 .. Half - 1 /\ x = q * Half + low /\ q \in Int
      BY <2>1, <1>2, <1>3, <1>4
    <3> HIDE DEF x, low
    <3>2. x \div Half = q BY <3>1, <1>2, DivModUnique
    <3> QED BY <3>2 DEF x
  <2>3. q % Half = q BY <1>2
  <2>4. Halves(value, op) = <<q, r>> BY <1>6, <2>2, <2>3 DEF Halves, r, h
  <2> QED BY <2>4, <1>1, <1>2, <1>6 DEF Compose
<1>7. CASE op = "addiu" /\ 2 * r >= Half
  <2>1. value + h = (q + 1) * Half + (r + h - Half) /\ r + h - Half \in 0 .. Half - 1
    BY <1>1, <1>2, <1>3, <1>7
  <2>2. (value + h) \div Half = q + 1
    <3> DEFINE x == value + h
               low == r + h - Half
               next == q + 1
    <3>1. x \in Int /\ low \in 0 .. Half - 1 /\ x = next * Half + low /\ next \in Int
      BY <2>1, <1>2, <1>3, <1>4
    <3> HIDE DEF x, low, next
    <3>2. x \div Half = next BY <3>1, <1>2, DivModUnique
    <3> QED BY <3>2 DEF x, next
  <2>3. Halves(value, op) = <<(q + 1) % Half, r>> BY <1>7, <2>2 DEF Halves, r, h
  <2>4. CASE q + 1 < Half
    <3>1. (q + 1) % Half = q + 1 BY <2>4, <1>2
    <3>2. (q + 1) * Half + r - Half = value BY <1>1, <1>2
    <3>3. value % (Half * Half) = value BY <1>4, <1>2
    <3> QED BY <2>3, <3>1, <3>2, <3>3, <1>2, <1>7, <2>4 DEF Compose, Imms
  <2>5. CASE q + 1 = Half
    <3>1. (q + 1) % Half = 0 BY <2>5, <1>2
    <3>2. 0 * Half + r - Half = (-1) * (Half * Half) + value
      BY <2>5, <1>1, <1>2
    <3>3. Half * Half \in Nat \ {0} /\ value \in 0 .. Half * Half - 1 BY <1>4, <1>2
    <3>4. (0 * Half + r - Half) % (Half * Half) = value
      <4> DEFINE x == 0 * Half + r - Half
                 n == Half * Half
      <4>1. x \in Int /\ n \in Nat \ {0} /\ x = (-1) * n + value /\ value \in 0 .. n - 1
        BY <3>2, <3>3, <1>2
      <4> HIDE DEF x, n
      <4>2. x % n = value BY <4>1, DivModUnique
      <4> QED BY <4>2 DEF x, n
    <3> QED BY <2>3, <3>1, <3>4, <1>2, <1>7 DEF Compose, Imms
  <2> QED BY <2>4, <2>5, <1>2
<1> QED BY <1>5, <1>6, <1>7, <1>2

-----------------------------------------------------------------------------
(* The types. *)

LEMMA ComposeType ==
  ASSUME NEW hi \in Imms, NEW lo \in Imms, NEW op PROVE Compose(hi, lo, op) \in Values
<1> USE HalfAssumption
<1>1. hi * Half + lo \in Values BY Pack
<1>2. hi \in Int /\ lo \in Int /\ Half \in Nat \ {0} BY DEF Imms
<1>3. Half * Half \in Nat \ {0} /\ hi * Half + lo - Half \in Int BY <1>2
<1> DEFINE n == Half * Half
           x == hi * Half + lo - Half
<1>4. x % n \in 0 .. n - 1
  <2> n \in Nat \ {0} /\ x \in Int BY <1>3
  <2> HIDE DEF n, x
  <2> QED OBVIOUS
<1> QED BY <1>1, <1>4 DEF Compose, Values

LEMMA ResultType ==
  ASSUME NEW w \in Word, NEW source \in Values \cup {Unknown}
  PROVE  Result(w, source) \in Values \cup {Unknown}
<1> USE HalfAssumption
<1>1. w.imm \in Imms /\ w.imm \in 0 .. Half - 1 /\ Half \in Nat \ {0} BY DEF Word, Imms
<1>2. CASE IsLui(w)
  <2>1. w.imm * Half \in Values
    <3>1. 0 \in Imms BY <1>1 DEF Imms
    <3>2. w.imm * Half + 0 \in Values BY <1>1, <3>1, Pack
    <3>3. w.imm * Half + 0 = w.imm * Half BY <1>1
    <3> QED BY <3>2, <3>3
  <2>2. Result(w, source) = w.imm * Half BY <1>2 DEF Result, IsLui
  <2> QED BY <2>1, <2>2
<1>3. CASE ~IsLui(w) /\ w.op = "addiu" /\ source # Unknown
  <2> DEFINE n == Half * Half
             x == source + IF 2 * w.imm >= Half THEN w.imm - Half ELSE w.imm
  <2>1. n \in Nat \ {0} /\ x \in Int BY <1>1, <1>3 DEF Values
  <2>2. Result(w, source) = x % n BY <1>3 DEF Result
  <2> HIDE DEF n, x
  <2>3. x % n \in 0 .. n - 1 BY <2>1
  <2> QED BY <2>2, <2>3 DEF n, Values
<1>4. CASE ~IsLui(w) /\ w.op = "ori" /\ source # Unknown /\ source % Half = 0
  <2>1. source \in Values BY <1>4
  <2> DEFINE q == source \div Half
  <2>2. q \in Imms /\ source = q * Half
    <3>1. q \in Imms /\ source = q * Half + (source % Half) BY <2>1, Unpack
    <3>2. q * Half \in Int BY <3>1, <1>1 DEF Imms
    <3> QED BY <3>1, <3>2, <1>4
  <2> HIDE DEF q
  <2>3. q * Half + w.imm \in Values BY <2>2, <1>1, Pack
  <2> QED BY <1>4, <2>2, <2>3 DEF Result, IsLui
<1> QED BY <1>2, <1>3, <1>4 DEF Result

\* What Scan and Rescan have in common: the pass and the machine take the next word of an
\* image whose words up to there do not change.
Read ==
  /\ at' = at + 1
  /\ code' \in Seq(Word) /\ at' <= Len(code')
  /\ \A k \in 1 .. at : code'[k] = code[k]
  /\ ScanWord(code', at')
  /\ Execute(code', at')

\* The state of the pass and of the machine.
ScanTypes ==
  /\ code \in Seq(Word) /\ at \in 0 .. Len(code)
  /\ pending \in [Regs -> 0 .. at] /\ lastOp \in [Regs -> 0 .. at]
  /\ sites \subseteq Site
  /\ regs \in [Regs -> Values \cup {Unknown}]
  /\ held \in Seq(Values \cup {Unknown}) /\ Len(held) = at

LEMMA ReadTypes == ScanTypes /\ Read => ScanTypes'
<1> SUFFICES ASSUME ScanTypes, Read PROVE ScanTypes' OBVIOUS
<1> USE HalfAssumption, SplitAssumption
<1> DEFINE w == code'[at']
<1>1. at \in Nat /\ at' = at + 1 /\ at' \in 1 .. Len(code') /\ code' \in Seq(Word)
  BY DEF ScanTypes, Read
<1>2. w \in Word /\ w.rt \in Regs /\ w.rd \in Regs /\ w.rs \in Regs /\ w.imm \in Imms
  <2>1. w \in Word BY <1>1
  <2> HIDE DEF w
  <2> QED BY <2>1 DEF Word
<1>3. pending' \in [Regs -> 0 .. at'] /\ lastOp' \in [Regs -> 0 .. at']
  <2>1. \A r \in Regs : pending[r] \in 0 .. at /\ lastOp[r] \in 0 .. at BY DEF ScanTypes
  <2> QED BY <1>1, <2>1 DEF Read, ScanWord, None
<1>4. sites' \subseteq Site
  <2>1. ASSUME Pairs(w, at') PROVE Split(code', at') \in Site
    <3>1. pending[w.rt] \in 1 .. at /\ w.op \in {"ori", "addiu"}
      BY <1>1, <1>2, <2>1 DEF Pairs, Live, IsLow, None, ScanTypes
    <3>2. code'[pending[w.rt]] \in Word BY <1>1, <3>1
    <3>3. code'[pending[w.rt]].imm \in Imms BY <3>2 DEF Word
    <3>4. Compose(code'[pending[w.rt]].imm, w.imm, w.op) \in Values
      BY <1>2, <3>3, ComposeType
    <3> HIDE DEF w
    <3>5. pending[w.rt] \in Nat /\ at' \in Nat BY <3>1, <1>1
    <3> QED BY <1>2, <3>1, <3>4, <3>5 DEF Split, Site, w
  <2>2. ASSUME IsOrphan(code', at') PROVE Orphan(w, at') \in Site
    <3>1. w.op \in {"ori", "addiu"} /\ w.imm \in Values
      <4>1. Half <= Half * Half OBVIOUS
      <4> QED BY <1>2, <2>2, <4>1 DEF IsOrphan, Imms, Values
    <3> QED BY <1>1, <1>2, <3>1 DEF Orphan, Site, None
  <2>3. Found(code', at') \subseteq Site BY <2>1, <2>2 DEF Found
  <2> QED BY <2>3 DEF ScanTypes, Read, ScanWord
<1>5. regs' \in [Regs -> Values \cup {Unknown}] /\ held' \in Seq(Values \cup {Unknown})
      /\ Len(held') = at'
  <2> DEFINE before == Before(code', at')
             result == Result(w, before[w.rs])
  <2>1. 0 \in Values
    <3>1. Half * Half >= 1 OBVIOUS
    <3> QED BY <3>1 DEF Values
  <2>2. before \in [Regs -> Values \cup {Unknown}] BY <2>1 DEF ScanTypes, Before, Nothing
  <2>3. result \in Values \cup {Unknown} BY <1>2, <2>2, ResultType
  <2>4. /\ regs' = [r \in Regs |-> IF r \in Dest(w) THEN result ELSE before[r]]
        /\ held' = Append(held, IF Dest(w) = {} THEN Unknown ELSE result)
    BY DEF Read, Execute
  <2> HIDE DEF before, result, w
  <2>5. regs' \in [Regs -> Values \cup {Unknown}] BY <2>2, <2>3, <2>4
  <2>6. held' \in Seq(Values \cup {Unknown}) /\ Len(held') = Len(held) + 1
    <3> DEFINE x == IF Dest(w) = {} THEN Unknown ELSE result
    <3>1. x \in Values \cup {Unknown} BY <2>3
    <3> HIDE DEF x
    <3>2. held' = Append(held, x) BY <2>4 DEF x
    <3> QED BY <3>1, <3>2 DEF ScanTypes
  <2> QED BY <2>5, <2>6, <1>1 DEF ScanTypes
<1> QED BY <1>1, <1>3, <1>4, <1>5 DEF ScanTypes

-----------------------------------------------------------------------------
(* The steps of the specification as steps of the pass. *)

\* Init and Rewrite leave the pass at the start of an image.
Start ==
  /\ code \in Seq(Word) /\ at = 0
  /\ pending = NoWord /\ lastOp = NoWord /\ sites = {}
  /\ regs = Nothing /\ held = <<>>

LEMMA StartTypes == Start => ScanTypes
<1> SUFFICES ASSUME Start PROVE ScanTypes OBVIOUS
<1> USE HalfAssumption, SplitAssumption
<1>1. 0 \in Values
  <2>1. Half * Half >= 1 OBVIOUS
  <2> QED BY <2>1 DEF Values
<1>2. regs \in [Regs -> Values \cup {Unknown}] BY <1>1 DEF Start, Nothing
<1>3. held \in Seq(Values \cup {Unknown}) /\ Len(held) = 0 BY DEF Start
<1>4. pending \in [Regs -> 0 .. at] /\ lastOp \in [Regs -> 0 .. at]
  BY DEF Start, NoWord, None
<1> QED BY <1>2, <1>3, <1>4 DEF Start, ScanTypes

\* What surrounds the pass.  A rewritten image has words left to read: it has the sites.
Control ==
  /\ phase \in {"scan", "rescan", "done"}
  /\ phase = "scan" => at = Len(code)
  /\ phase = "rescan" => at < Len(code)
  /\ \A s \in sites : s.lo \in 1 .. at
  /\ firstPass \subseteq Site /\ rewritten \subseteq Site
  /\ target \in Values

LEMMA ScanReads ==
  ASSUME ScanTypes, Control, NEW w \in Instructions, Scan(w) PROVE Read
<1> USE SplitAssumption
<1>1. w \in Word /\ code \in Seq(Word) /\ at = Len(code) /\ at \in Nat
  BY DEF ScanTypes, Control, Scan
<1>2. code' = Append(code, w) /\ at' = at + 1 BY DEF Scan
<1>3. code' \in Seq(Word) /\ Len(code') = at + 1 BY <1>1, <1>2
<1>4. \A k \in 1 .. at : code'[k] = code[k] BY <1>1, <1>2
<1> QED BY <1>1, <1>2, <1>3, <1>4 DEF Read, Scan

LEMMA RescanReads == ASSUME ScanTypes, Control, Rescan PROVE Read
BY DEF ScanTypes, Control, Rescan, Read

\* A patched image is an image of as many words.
LEMMA PatchType ==
  ASSUME NEW prog \in Seq(Word), NEW chosen \in SUBSET Site, NEW value \in Values
  PROVE  Patch(prog, chosen, value) \in Seq(Word)
         /\ Len(Patch(prog, chosen, value)) = Len(prog)
<1> DEFINE patched == Patch(prog, chosen, value)
<1>1. ASSUME NEW n \in 1 .. Len(prog) PROVE patched[n] \in Word
  <2>1. patched[n] = IF \E s \in chosen : s.hi = n
          THEN [prog[n] EXCEPT !.imm = Halves(value, (CHOOSE s \in chosen : s.hi = n).op)[1]]
        ELSE IF \E s \in chosen : s.lo = n
          THEN [prog[n] EXCEPT !.imm = Halves(value, (CHOOSE s \in chosen : s.lo = n).op)[2]]
        ELSE prog[n]
    BY DEF Patch
  <2>2. prog[n] \in Word OBVIOUS
  <2>3. ASSUME NEW imm \in Imms PROVE [prog[n] EXCEPT !.imm = imm] \in Word
    <3> DEFINE x == prog[n]
    <3>1. x \in Word BY <2>2
    <3> HIDE DEF x
    <3>2. [x EXCEPT !.imm = imm] \in Word BY <3>1 DEF Word
    <3> QED BY <3>2 DEF x
  <2>4. \A s \in chosen : s.op \in {"ori", "addiu"} BY DEF Site
  <2>5. CASE \E s \in chosen : s.hi = n
    <3> DEFINE s == CHOOSE x \in chosen : x.hi = n
    <3>1. s.op \in {"ori", "addiu"} BY <2>4, <2>5
    <3> HIDE DEF s
    <3>2. Halves(value, s.op)[1] \in Imms BY <3>1, HalvesCompose
    <3> QED BY <2>1, <2>3, <2>5, <3>2 DEF s
  <2>6. CASE ~(\E s \in chosen : s.hi = n) /\ \E s \in chosen : s.lo = n
    <3> DEFINE s == CHOOSE x \in chosen : x.lo = n
    <3>1. s.op \in {"ori", "addiu"} BY <2>4, <2>6
    <3> HIDE DEF s
    <3>2. Halves(value, s.op)[2] \in Imms BY <3>1, HalvesCompose
    <3> QED BY <2>1, <2>3, <2>6, <3>2 DEF s
  <2> QED BY <2>1, <2>2, <2>5, <2>6
<1>2. patched = [n \in 1 .. Len(prog) |-> patched[n]] BY DEF Patch
<1> QED BY <1>1, <1>2

LEMMA RewriteStarts ==
  ASSUME ScanTypes, Control, NEW form, NEW value \in Values, Rewrite(form, value)
  PROVE  Start' /\ Control'
<1>1. rewritten' \in SUBSET Site /\ firstPass' \subseteq Site BY DEF Rewrite, ScanTypes
<1>2. code' \in Seq(Word) /\ Len(code') = Len(code)
  BY <1>1, PatchType DEF Rewrite, ScanTypes
<1>3. at >= 1 /\ at \in 0 .. Len(code) BY DEF Rewrite, Control, ScanTypes
<1>4. Start' BY <1>2 DEF Rewrite, Start, NoWord, Nothing
<1> QED BY <1>1, <1>2, <1>3, <1>4 DEF Rewrite, Control, Start

LEMMA ReadLow == ScanTypes /\ Read /\ (\A s \in sites : s.lo \in 1 .. at)
                 => \A s \in sites' : s.lo \in 1 .. at'
BY DEF ScanTypes, Read, ScanWord, Found, Split, Orphan

LEMMA InitStarts == Init => Start /\ Control
BY HalfAssumption, SplitAssumption DEF Init, Start, Control, Values

LEMMA ReadControl == 
  ASSUME ScanTypes, Control, (\E w \in Instructions : Scan(w)) \/ Rescan
  PROVE  Read /\ ScanTypes' /\ Control'
<1>1. Read BY ScanReads, RescanReads
<1>2. ScanTypes' BY <1>1, ReadTypes
<1>3. \A s \in sites' : s.lo \in 1 .. at' BY <1>1, ReadLow DEF Control
<1>4. CASE \E w \in Instructions : Scan(w)
  <2>1. PICK w \in Instructions : Scan(w) BY <1>4
  <2>2. at' = Len(code') BY <2>1 DEF Scan, ScanTypes, Control
  <2> QED BY <1>1, <1>2, <1>3, <2>1, <2>2 DEF Scan, Control
<1>5. CASE Rescan
  BY <1>1, <1>2, <1>3, <1>5 DEF Rescan, Control, ScanTypes
<1> QED BY <1>1, <1>2, <1>4, <1>5

\* Every step reads a word, starts on an image, or changes nothing.
LEMMA Steps ==
  ASSUME ScanTypes, Control, [Next]_vars
  PROVE  ScanTypes' /\ Control' /\ (Read \/ Start' \/ UNCHANGED vars)
<1>1. CASE (\E w \in Instructions : Scan(w)) \/ Rescan BY <1>1, ReadControl
<1>2. CASE \E form \in {"SPLIT", "ORPHAN"}, value \in Values : Rewrite(form, value)
  <2>1. Start' /\ Control' BY <1>2, RewriteStarts
  <2>2. ScanTypes' BY <2>1, StartTypes, PTL
  <2> QED BY <2>1, <2>2
<1>3. CASE UNCHANGED vars BY <1>3 DEF vars, ScanTypes, Control
<1> QED BY <1>1, <1>2, <1>3 DEF Next

\* Every reachable state has its type: in particular no rewrite stores what is no immediate,
\* and no site reports what is no value.
THEOREM TypeCorrect == Spec => []TypeOK
<1> DEFINE Inv == ScanTypes /\ Control
<1>1. Init => Inv BY InitStarts, StartTypes
<1>2. Inv /\ [Next]_vars => Inv' BY Steps
<1>3. Inv => TypeOK BY DEF ScanTypes, Control, TypeOK
<1> QED BY <1>1, <1>2, <1>3, PTL DEF Spec

-----------------------------------------------------------------------------
(* What the pass knows of the words it has read. *)

LEMMA DestIsWrites == ASSUME NEW w \in Word PROVE Dest(w) = Writes(w) \ {Zero}
BY DEF Dest, Writes, WritesRd, WritesRt, WritesRa

\* A half and a load write their rt, and no other register.
LEMMA WritesOwn ==
  ASSUME NEW w \in Word, IsLow(w) \/ IsLui(w) \/ w.op = "load" PROVE Writes(w) = {w.rt}
<1>1. w.op \in {"ori", "addiu", "lui", "load"} BY DEF IsLow, IsLui
<1>2. w.op \in WritesRt /\ w.op \notin WritesRd /\ w.op \notin WritesRa
  BY <1>1 DEF WritesRd, WritesRt, WritesRa
<1> QED BY <1>2 DEF Writes

\* A pending lui is one, of that register.
PendingIsLui ==
  \A r \in Regs : pending[r] # None =>
    IsLui(code[pending[r]]) /\ code[pending[r]].rt = r

\* A lui that is still live is the last to have written its register.
PendingIsLast ==
  \A r \in Regs \ {Zero} : Live(at, pending[r]) =>
    \A k \in pending[r] + 1 .. at : r \notin Dest(code[k])

\* The last lui of a register that nothing wrote since is pending.
LastIsPending ==
  \A r \in Regs \ {Zero}, hi \in 1 .. at :
    /\ IsLui(code[hi]) /\ code[hi].rt = r
    /\ \A k \in hi + 1 .. at : r \notin Dest(code[k])
    => pending[r] = hi

\* The last word to write a register is.
LastOpIsLast ==
  \A r \in Regs : lastOp[r] # None =>
    /\ r \in Writes(code[lastOp[r]])
    /\ \A k \in lastOp[r] + 1 .. at : r \notin Writes(code[k])

\* A reported pair is a lui and a low half of one register, and the lui is used up.
SitesAreRead ==
  \A s \in sites :
    /\ s.lo \in 1 .. at /\ IsLow(code[s.lo]) /\ code[s.lo].rt = s.reg
    /\ s.form = "SPLIT" =>
         /\ s.hi \in 1 .. s.lo - 1
         /\ IsLui(code[s.hi]) /\ code[s.hi].rt = s.reg
         /\ pending[s.reg] # s.hi
    /\ s.form # "SPLIT" => s.hi = None

\* Is there the delay slot of a jump or a call between two words of an image?
Between(prog, hi, lo) ==
  \E k \in DOMAIN prog : prog[k].op \in Transfers /\ hi <= k + 1 /\ k + 1 < lo

\* A live lui that no jump or call has put in doubt is what its register holds.
PendingIsHeld ==
  \A r \in Regs \ {Zero} :
    Live(at, pending[r]) /\ ~Between(code, pending[r], at) =>
      regs[r] = code[pending[r]].imm * Half

\* The words read, and the one being read, before and after.
LEMMA ReadWord ==
  ASSUME ScanTypes, Read
  PROVE  /\ at \in Nat /\ at' = at + 1 /\ code'[at'] \in Word
         /\ \A k \in 1 .. at : code'[k] = code[k] /\ code[k] \in Word
         /\ \A r \in Regs : pending[r] \in 0 .. at /\ lastOp[r] \in 0 .. at
         /\ ScanWord(code', at') /\ Execute(code', at')
         /\ \A r \in Regs : pending'[r] = IF IsLui(code'[at']) /\ r = code'[at'].rt THEN at'
                                          ELSE IF r \in Cleared(code', at') THEN None
                                          ELSE pending[r]
BY DEF ScanTypes, Read, ScanWord

LEMMA PendingStep == ScanTypes /\ Read /\ PendingIsLui => PendingIsLui'
<1> SUFFICES ASSUME ScanTypes, Read, PendingIsLui, NEW r \in Regs, pending'[r] # None
             PROVE  IsLui(code'[pending'[r]]) /\ code'[pending'[r]].rt = r
  BY DEF PendingIsLui
<1>1. CASE IsLui(code'[at']) /\ r = code'[at'].rt BY <1>1, ReadWord
<1>2. CASE ~(IsLui(code'[at']) /\ r = code'[at'].rt)
  <2>1. pending'[r] = pending[r] /\ pending[r] # None BY <1>2, ReadWord
  <2>2. pending[r] \in 1 .. at BY <2>1, ReadWord DEF None
  <2> QED BY <2>1, <2>2, ReadWord DEF PendingIsLui
<1> QED BY <1>1, <1>2

LEMMA LastOpStep == ScanTypes /\ Read /\ LastOpIsLast => LastOpIsLast'
<1> SUFFICES ASSUME ScanTypes, Read, LastOpIsLast, NEW r \in Regs, lastOp'[r] # None
             PROVE  /\ r \in Writes(code'[lastOp'[r]])
                    /\ \A k \in lastOp'[r] + 1 .. at' : r \notin Writes(code'[k])
  BY DEF LastOpIsLast
<1>1. lastOp'[r] = IF r \in Writes(code'[at']) THEN at' ELSE lastOp[r]
  BY ReadWord DEF ScanWord
<1>2. CASE r \in Writes(code'[at']) BY <1>1, <1>2, ReadWord
<1>3. CASE r \notin Writes(code'[at'])
  <2>1. lastOp'[r] = lastOp[r] /\ lastOp[r] \in 1 .. at BY <1>1, <1>3, ReadWord DEF None
  <2>2. r \in Writes(code[lastOp[r]])
        /\ \A k \in lastOp[r] + 1 .. at : r \notin Writes(code[k])
    BY <2>1 DEF LastOpIsLast, None
  <2>3. ASSUME NEW k \in lastOp[r] + 1 .. at' PROVE r \notin Writes(code'[k])
    <3>1. CASE k = at' BY <3>1, <1>3
    <3>2. CASE k # at'
      <4>1. k \in lastOp[r] + 1 .. at /\ k \in 1 .. at BY <3>2, <2>1, ReadWord
      <4> QED BY <4>1, <2>2, ReadWord
    <3> QED BY <3>1, <3>2
  <2> QED BY <2>1, <2>2, <2>3, ReadWord
<1> QED BY <1>2, <1>3

\* What the pass drops it drops because the word writes it; what it keeps of a word that
\* writes it is too old to be used.
LEMMA Kept ==
  ASSUME ScanTypes, Read, NEW r \in Regs \ {Zero}
  PROVE  /\ r \notin Dest(code'[at']) => pending'[r] = pending[r]
         /\ r \in Dest(code'[at']) => pending'[r] \in {None, at'} \/ ~Live(at', pending[r])
<1> DEFINE w == code'[at']
<1>1. w \in Word /\ Dest(w) = Writes(w) \ {Zero} BY ReadWord, DestIsWrites
<1>2. IsLui(w) \/ IsLow(w) => Writes(w) = {w.rt} BY <1>1, WritesOwn
<1>3. pending'[r] = IF IsLui(w) /\ r = w.rt THEN at'
                    ELSE IF r \in Cleared(code', at') THEN None ELSE pending[r]
  BY ReadWord
<1>4. Pairs(w, at') => IsLow(w) BY DEF Pairs
<1>5. IsOrphan(code', at') => IsLow(w) /\ ~Live(at', pending[w.rt]) BY DEF IsOrphan
<1>6. Cleared(code', at') = IF Pairs(w, at') THEN {w.rt}
                            ELSE IF IsOrphan(code', at') THEN {} ELSE Writes(w)
  BY DEF Cleared
<1> HIDE DEF w
<1>7. r \in Dest(w) <=> r \in Writes(w) BY <1>1
<1>8. CASE r \notin Writes(w)
  <2>1. r \notin Cleared(code', at') BY <1>2, <1>4, <1>6, <1>8
  <2> QED BY <1>2, <1>3, <1>7, <1>8, <2>1 DEF w
<1>9. CASE r \in Writes(w)
  <2>1. r \in Cleared(code', at') \/ (IsOrphan(code', at') /\ r = w.rt)
    BY <1>2, <1>4, <1>5, <1>6, <1>9
  <2> QED BY <1>3, <1>5, <1>7, <1>9, <2>1 DEF w
<1> QED BY <1>8, <1>9

LEMMA LastStep == ScanTypes /\ Read /\ LastIsPending => LastIsPending'
<1> SUFFICES ASSUME ScanTypes, Read, LastIsPending,
                    NEW r \in Regs \ {Zero}, NEW hi \in 1 .. at',
                    IsLui(code'[hi]), code'[hi].rt = r,
                    \A k \in hi + 1 .. at' : r \notin Dest(code'[k])
             PROVE  pending'[r] = hi
  BY DEF LastIsPending
<1>1. CASE hi = at' BY <1>1, ReadWord
<1>2. CASE hi # at'
  <2>1. hi \in 1 .. at /\ code'[hi] = code[hi] BY <1>2, ReadWord
  <2>2. \A k \in hi + 1 .. at : r \notin Dest(code[k])
    <3> SUFFICES ASSUME NEW k \in hi + 1 .. at PROVE r \notin Dest(code[k]) OBVIOUS
    <3>1. k \in 1 .. at /\ k \in hi + 1 .. at' BY <2>1, ReadWord
    <3> QED BY <3>1, ReadWord
  <2>3. pending[r] = hi BY <2>1, <2>2 DEF LastIsPending
  <2>4. r \notin Dest(code'[at']) BY <1>2, <2>1, ReadWord
  <2> QED BY <2>3, <2>4, Kept
<1> QED BY <1>1, <1>2

LEMMA PendingLastStep == ScanTypes /\ Read /\ PendingIsLast => PendingIsLast'
<1> SUFFICES ASSUME ScanTypes, Read, PendingIsLast,
                    NEW r \in Regs \ {Zero}, Live(at', pending'[r]),
                    NEW k \in pending'[r] + 1 .. at'
             PROVE  r \notin Dest(code'[k])
  BY DEF PendingIsLast
<1> USE SplitAssumption
<1>1. pending'[r] # at' BY ReadWord
<1>2. r \notin Dest(code'[at']) /\ pending'[r] = pending[r]
  BY <1>1, Kept, ReadWord DEF Live
<1>3. CASE k = at' BY <1>2, <1>3
<1>4. CASE k # at'
  <2>1. pending[r] \in 0 .. at BY ReadWord
  <2>2. k \in pending[r] + 1 .. at /\ k \in 1 .. at BY <1>2, <1>4, <2>1, ReadWord
  <2>3. Live(at, pending[r]) BY <1>2, <2>1, ReadWord DEF Live
  <2> QED BY <2>2, <2>3, ReadWord DEF PendingIsLast
<1> QED BY <1>3, <1>4

\* A pair that is found is of a live lui of the same register.
LEMMA PairRead ==
  ASSUME ScanTypes, Read, PendingIsLui, Pairs(code'[at'], at')
  PROVE  LET w == code'[at']  hi == pending[w.rt] IN
           /\ w.rt \in Regs /\ IsLow(w) /\ w.op \in {"ori", "addiu"} /\ w.imm \in Imms
           /\ hi \in 1 .. at /\ at' - hi <= Window
           /\ IsLui(code'[hi]) /\ code'[hi].rt = w.rt /\ code'[hi].imm \in Imms
           /\ code'[hi] = code[hi]
<1> DEFINE w == code'[at']
           hi == pending[w.rt]
<1>1. w \in Word BY ReadWord
<1>2. w.rt \in Regs /\ w.imm \in Imms
  <2> HIDE DEF w
  <2> QED BY <1>1 DEF Word
<1>3. IsLow(w) /\ Live(at', hi) BY DEF Pairs
<1>4. hi \in 1 .. at /\ at' - hi <= Window /\ hi # None
  BY <1>2, <1>3, ReadWord DEF Live, None
<1>5. IsLui(code[hi]) /\ code[hi].rt = w.rt BY <1>2, <1>4 DEF PendingIsLui
<1>6. code[hi] \in Word /\ code'[hi] = code[hi] BY <1>4, ReadWord
<1>7. code[hi].imm \in Imms
  <2> DEFINE h == code[hi]
  <2>1. h \in Word BY <1>6
  <2> HIDE DEF h
  <2>2. h.imm \in Imms BY <2>1 DEF Word
  <2> QED BY <2>2 DEF h
<1> QED BY <1>2, <1>3, <1>4, <1>5, <1>6, <1>7 DEF IsLow

\* Every site is an old one or what was found of the word just read.
LEMMA NewSites ==
  ASSUME ScanTypes, Read, NEW s \in sites'
  PROVE  \/ s \in sites
         \/ Pairs(code'[at'], at') /\ s = Split(code', at') /\ Accept(s.value)
         \/ IsOrphan(code', at') /\ s = Orphan(code'[at'], at')
BY DEF Read, ScanWord, Found

LEMMA SitesStep ==
  ScanTypes /\ Read /\ PendingIsLui /\ SitesAreRead => SitesAreRead'
<1> SUFFICES ASSUME ScanTypes, Read, PendingIsLui, SitesAreRead, NEW s \in sites'
             PROVE  /\ s.lo \in 1 .. at' /\ IsLow(code'[s.lo]) /\ code'[s.lo].rt = s.reg
                    /\ s.form = "SPLIT" =>
                         /\ s.hi \in 1 .. s.lo - 1
                         /\ IsLui(code'[s.hi]) /\ code'[s.hi].rt = s.reg
                         /\ pending'[s.reg] # s.hi
                    /\ s.form # "SPLIT" => s.hi = None
  BY DEF SitesAreRead
<1> DEFINE w == code'[at']
<1>1. CASE s \in sites
  <2>1. /\ s.lo \in 1 .. at /\ IsLow(code[s.lo]) /\ code[s.lo].rt = s.reg
        /\ s.form = "SPLIT" =>
             /\ s.hi \in 1 .. s.lo - 1
             /\ IsLui(code[s.hi]) /\ code[s.hi].rt = s.reg
             /\ pending[s.reg] # s.hi
        /\ s.form # "SPLIT" => s.hi = None
    BY <1>1 DEF SitesAreRead
  <2>2. s.lo \in 1 .. at' /\ code'[s.lo] = code[s.lo] BY <2>1, ReadWord
  <2>3. ASSUME s.form = "SPLIT"
        PROVE  code'[s.hi] = code[s.hi] /\ pending'[s.reg] # s.hi
    <3>1. s.hi \in 1 .. at BY <2>1, <2>3, ReadWord
    <3>2. s.reg \in Regs BY <1>1 DEF ScanTypes, Site
    <3>3. pending'[s.reg] \in {at', None, pending[s.reg]} BY <3>2, ReadWord
    <3> QED BY <2>1, <2>3, <3>1, <3>3, ReadWord DEF None
  <2> QED BY <2>1, <2>2, <2>3
<1>2. CASE Pairs(w, at') /\ s = Split(code', at')
  <2>1. /\ s.form = "SPLIT" /\ s.lo = at' /\ s.hi = pending[w.rt] /\ s.reg = w.rt
    BY <1>2 DEF Split
  <2>2. /\ w.rt \in Regs /\ IsLow(w) /\ s.hi \in 1 .. at
        /\ IsLui(code'[s.hi]) /\ code'[s.hi].rt = w.rt
    BY <1>2, <2>1, PairRead
  <2>3. pending'[w.rt] = None
    <3>1. ~IsLui(w) BY <2>2 DEF IsLow, IsLui
    <3>2. w.rt \in Cleared(code', at') BY <1>2 DEF Cleared
    <3> QED BY <2>2, <3>1, <3>2, ReadWord
  <2> QED BY <2>1, <2>2, <2>3, ReadWord DEF None
<1>3. CASE IsOrphan(code', at') /\ s = Orphan(w, at')
  <2>1. s.form = "ORPHAN" /\ s.lo = at' /\ s.hi = None /\ s.reg = w.rt BY <1>3 DEF Orphan
  <2>2. IsLow(w) BY <1>3 DEF IsOrphan
  <2> QED BY <2>1, <2>2, ReadWord
<1> QED BY <1>1, <1>2, <1>3, NewSites

LEMMA OneSiteStep ==
  ScanTypes /\ Read /\ PendingIsLui /\ SitesAreRead /\ OneSitePerHalf => OneSitePerHalf'
<1> SUFFICES ASSUME ScanTypes, Read, PendingIsLui, SitesAreRead, OneSitePerHalf,
                    NEW s \in sites', NEW t \in sites', s # t
             PROVE  s.lo # t.lo /\ (s.form = "SPLIT" => s.hi # t.hi)
  BY DEF OneSitePerHalf
<1> DEFINE w == code'[at']
           new == sites' \ sites
<1>1. ASSUME NEW x \in sites' \ sites
      PROVE  /\ x.lo = at' /\ x.reg = w.rt
             /\ x.form = "SPLIT" => Pairs(w, at') /\ x = Split(code', at') /\ x.hi = pending[w.rt]
             /\ x.form # "SPLIT" => x.hi = None
  BY NewSites DEF Split, Orphan
<1>2. ASSUME NEW x \in sites' \ sites, NEW y \in sites' \ sites PROVE x = y
  BY NewSites DEF IsOrphan, Pairs
<1>3. ASSUME NEW x \in sites
      PROVE  /\ x.lo # at'
             /\ x.form = "SPLIT" => x.hi \in 1 .. at /\ x.hi # pending[x.reg]
                                    /\ code[x.hi].rt = x.reg
             /\ x.form # "SPLIT" => x.hi = None
  BY ReadWord DEF SitesAreRead
<1>4. ASSUME NEW x \in sites, NEW y \in sites' \ sites
      PROVE  (x.form = "SPLIT" \/ y.form = "SPLIT") => x.hi # y.hi
  <2>1. CASE x.form = "SPLIT" /\ y.form = "SPLIT"
    <3>1. Pairs(w, at') /\ y.hi = pending[w.rt] BY <1>1, <2>1
    <3>2. code[y.hi].rt = w.rt BY <3>1, PairRead
    <3> QED BY <1>3, <2>1, <3>1, <3>2
  <2>2. CASE x.form = "SPLIT" /\ y.form # "SPLIT" BY <1>1, <1>3, <2>2 DEF None
  <2>3. CASE x.form # "SPLIT" /\ y.form = "SPLIT"
    <3>1. Pairs(w, at') /\ y.hi = pending[w.rt] BY <1>1, <2>3
    <3>2. y.hi \in 1 .. at BY <3>1, PairRead
    <3> QED BY <1>3, <2>3, <3>2 DEF None
  <2> QED BY <2>1, <2>2, <2>3
<1>5. CASE s \in sites /\ t \in sites BY <1>5 DEF OneSitePerHalf
<1>6. CASE s \in sites /\ t \notin sites BY <1>1, <1>3, <1>4, <1>6
<1>7. CASE s \notin sites /\ t \in sites BY <1>1, <1>3, <1>4, <1>7
<1>8. CASE s \notin sites /\ t \notin sites BY <1>2, <1>8
<1> QED BY <1>5, <1>6, <1>7, <1>8

LEMMA OrphanStep ==
  ScanTypes /\ Read /\ LastOpIsLast /\ SitesAreRead /\ OrphanIsLoaded => OrphanIsLoaded'
<1> SUFFICES ASSUME ScanTypes, Read, LastOpIsLast, SitesAreRead, OrphanIsLoaded,
                    NEW s \in sites', s.form = "ORPHAN", s.reg # Zero
             PROVE  \E k \in 1 .. s.lo - 1 :
                      /\ code'[k].op = "load" /\ code'[k].rt = s.reg
                      /\ \A j \in k + 1 .. s.lo - 1 : s.reg \notin Dest(code'[j])
  BY DEF OrphanIsLoaded
<1> DEFINE w == code'[at']
<1>1. CASE s \in sites
  <2>1. PICK k \in 1 .. s.lo - 1 :
          /\ code[k].op = "load" /\ code[k].rt = s.reg
          /\ \A j \in k + 1 .. s.lo - 1 : s.reg \notin Dest(code[j])
    BY <1>1 DEF OrphanIsLoaded
  <2>2. s.lo \in 1 .. at BY <1>1 DEF SitesAreRead
  <2>3. \A j \in 1 .. s.lo - 1 : code'[j] = code[j] BY <2>2, ReadWord
  <2>4. \A j \in k + 1 .. s.lo - 1 : s.reg \notin Dest(code'[j])
    BY <2>1, <2>2, <2>3
  <2> QED BY <2>1, <2>3, <2>4
<1>2. CASE IsOrphan(code', at') /\ s = Orphan(w, at')
  <2> DEFINE k == lastOp[w.rt]
  <2>1. s.lo = at' /\ s.reg = w.rt BY <1>2 DEF Orphan
  <2>2. w.rt \in Regs
    <3>1. w \in Word BY ReadWord
    <3> HIDE DEF w
    <3> QED BY <3>1 DEF Word
  <2>3. k # None /\ code'[k].op = "load" BY <1>2 DEF IsOrphan, Live
  <2>4. k \in 1 .. at BY <2>2, <2>3, ReadWord DEF None
  <2>5. code'[k] = code[k] /\ code[k] \in Word BY <2>4, ReadWord
  <2>6. w.rt \in Writes(code[k]) /\ \A j \in k + 1 .. at : w.rt \notin Writes(code[j])
    BY <2>2, <2>3 DEF LastOpIsLast
  <2>7. code[k].rt = w.rt BY <2>3, <2>5, <2>6, WritesOwn
  <2>8. ASSUME NEW j \in k + 1 .. at PROVE w.rt \notin Dest(code'[j])
    <3>1. j \in 1 .. at BY <2>4, ReadWord
    <3> QED BY <2>6, <3>1, ReadWord, DestIsWrites
  <2> QED BY <2>1, <2>3, <2>4, <2>5, <2>7, <2>8, ReadWord
<1>3. CASE s = Split(code', at') BY <1>3 DEF Split
<1> QED BY <1>1, <1>2, <1>3, NewSites

LEMMA CompleteStep ==
  ScanTypes /\ Read /\ LastIsPending /\ Complete => Complete'
<1> SUFFICES ASSUME ScanTypes, Read, LastIsPending, Complete,
                    NEW lo \in 1 .. at', NEW hi \in 1 .. at',
                    hi < lo, lo - hi <= Window,
                    IsLow(code'[lo]), IsLui(code'[hi]), code'[hi].rt = code'[lo].rt,
                    code'[lo].rt # Zero,
                    \A k \in hi + 1 .. lo - 1 : code'[lo].rt \notin Dest(code'[k]),
                    Accept(Compose(code'[hi].imm, code'[lo].imm, code'[lo].op))
             PROVE  \E s \in sites' : s.form = "SPLIT" /\ s.hi = hi /\ s.lo = lo
  BY DEF Complete
<1>1. hi \in 1 .. at /\ code'[hi] = code[hi] BY ReadWord
<1>2. \A k \in hi + 1 .. lo - 1 : k \in 1 .. at /\ code'[k] = code[k] BY <1>1, ReadWord
<1>3. CASE lo # at'
  <2>1. lo \in 1 .. at /\ code'[lo] = code[lo] BY <1>3, ReadWord
  <2>2. \A k \in hi + 1 .. lo - 1 : code[lo].rt \notin Dest(code[k]) BY <1>2, <2>1
  <2>3. \E s \in sites : s.form = "SPLIT" /\ s.hi = hi /\ s.lo = lo
    BY <1>1, <2>1, <2>2 DEF Complete
  <2> QED BY <2>3 DEF Read, ScanWord
<1>4. CASE lo = at'
  <2> DEFINE w == code'[at']
  <2>1. w.rt \in Regs
    <3>1. w \in Word BY ReadWord
    <3> HIDE DEF w
    <3> QED BY <3>1 DEF Word
  <2>2. \A k \in hi + 1 .. at : w.rt \notin Dest(code[k]) BY <1>2, <1>4, ReadWord
  <2>3. pending[w.rt] = hi BY <1>1, <1>4, <2>1, <2>2 DEF LastIsPending
  <2>4. Pairs(w, at') BY <1>1, <1>4, <2>3, ReadWord DEF Pairs, Live, None
  <2>5. Split(code', at') \in Found(code', at')
    BY <1>4, <2>3, <2>4 DEF Found, Split
  <2> QED BY <1>4, <2>3, <2>5 DEF Read, ScanWord, Split
<1> QED BY <1>3, <1>4

\* A region that is not crossed in the new image was not crossed in the old one.
LEMMA NotCrossed ==
  ASSUME ScanTypes, Read, NEW hi \in Nat, NEW lo \in Nat, NEW last \in Nat,
         lo <= last, lo <= at, ~Between(code', hi, last)
  PROVE  ~Between(code, hi, lo)
<1> SUFFICES ASSUME NEW k \in DOMAIN code, code[k].op \in Transfers, hi <= k + 1, k + 1 < lo
             PROVE  FALSE
  BY DEF Between
<1>1. k \in Nat /\ k >= 1 BY DEF ScanTypes
<1>2. k \in 1 .. at BY <1>1, ReadWord
<1>3. k \in DOMAIN code' /\ code'[k] = code[k] BY <1>2, ReadWord DEF Read
<1>4. k + 1 < last BY <1>1
<1> QED BY <1>3, <1>4 DEF Between

\* The machine forgets nothing on the way from a lui that no jump or call separates.
LEMMA Remembers ==
  ASSUME ScanTypes, Read, NEW hi \in 1 .. at, ~Between(code', hi, at')
  PROVE  Before(code', at') = regs
<1>1. ASSUME at' > 2, code'[at' - 2].op \in Transfers PROVE FALSE
  <2> DEFINE k == at' - 2
  <2>1. k \in DOMAIN code' /\ hi <= k + 1 /\ k + 1 < at' BY <1>1, ReadWord DEF Read
  <2> QED BY <1>1, <2>1 DEF Between
<1> QED BY <1>1 DEF Before

LEMMA LuiResult ==
  ASSUME NEW w \in Word, NEW source, IsLui(w) PROVE Result(w, source) = w.imm * Half
BY DEF Result, IsLui

LEMMA HeldStep ==
  ScanTypes /\ Read /\ PendingIsLui /\ PendingIsLast /\ PendingIsHeld => PendingIsHeld'
<1> SUFFICES ASSUME ScanTypes, Read, PendingIsLui, PendingIsHeld,
                    NEW r \in Regs \ {Zero}, Live(at', pending'[r]),
                    ~Between(code', pending'[r], at')
             PROVE  regs'[r] = code'[pending'[r]].imm * Half
  BY DEF PendingIsHeld
<1> USE SplitAssumption
<1> DEFINE w == code'[at']
           before == Before(code', at')
           result == Result(w, before[w.rs])
<1>1. regs' = [x \in Regs |-> IF x \in Dest(w) THEN result ELSE before[x]]
  BY ReadWord DEF Execute
<1>2. w \in Word BY ReadWord
<1>3. CASE IsLui(w) /\ r = w.rt
  <2>1. pending'[r] = at' BY <1>3, ReadWord
  <2>2. r \in Dest(w) BY <1>2, <1>3, WritesOwn, DestIsWrites
  <2>3. result = w.imm * Half BY <1>2, <1>3, LuiResult
  <2> QED BY <1>1, <2>1, <2>2, <2>3
<1>4. CASE ~(IsLui(w) /\ r = w.rt)
  <2>1. pending'[r] = pending[r] /\ pending[r] \in 1 .. at
    BY <1>4, ReadWord DEF Live, None
  <2>2. r \notin Dest(w) BY <2>1, Kept, ReadWord DEF Live, None
  <2>3. regs'[r] = before[r] BY <1>1, <2>2
  <2>4. before = regs BY <2>1, Remembers
  <2>5. Live(at, pending[r]) BY <2>1, ReadWord DEF Live
  <2>6. ~Between(code, pending[r], at) BY <2>1, NotCrossed, ReadWord
  <2>7. regs[r] = code[pending[r]].imm * Half BY <2>5, <2>6 DEF PendingIsHeld
  <2> QED BY <2>1, <2>3, <2>4, <2>7, ReadWord
<1> QED BY <1>3, <1>4

\* A low half adds to a high half what composing them gives.
LEMMA LowResult ==
  ASSUME NEW w \in Word, IsLow(w), NEW hi \in Imms
  PROVE  Result(w, hi * Half) = Compose(hi, w.imm, w.op)
<1> USE HalfAssumption, SplitAssumption
<1> DEFINE source == hi * Half
<1>1. w.imm \in Imms /\ w.op \in {"ori", "addiu"} BY DEF Word, IsLow
<1>2. hi \in 0 .. Half - 1 /\ w.imm \in 0 .. Half - 1 /\ Half \in Nat \ {0}
  BY <1>1 DEF Imms
<1>3. source \in Values /\ source % Half = 0 /\ source \in Int
  <2>1. 0 \in Imms BY <1>2 DEF Imms
  <2>2. hi * Half + 0 \in Values /\ (hi * Half + 0) % Half = 0 BY <2>1, Pack
  <2>3. hi * Half + 0 = hi * Half /\ hi * Half \in Int BY <1>2
  <2> QED BY <2>2, <2>3
<1>4. source # Unknown BY <1>3
<1>5. source + w.imm \in Values BY <1>1, Pack
<1>6. CASE w.op = "ori"
  <2>1. Result(w, source) = source + w.imm BY <1>3, <1>4, <1>6 DEF Result, IsLui
  <2> QED BY <1>6, <2>1 DEF Compose
<1>7. CASE w.op = "addiu"
  <2> DEFINE n == Half * Half
             x == source + IF 2 * w.imm >= Half THEN w.imm - Half ELSE w.imm
  <2>1. Result(w, source) = x % n BY <1>4, <1>7 DEF Result, IsLui
  <2>2. CASE 2 * w.imm >= Half
    <3>1. x = hi * Half + w.imm - Half BY <1>2, <2>2
    <3> QED BY <1>7, <2>1, <2>2, <3>1 DEF Compose
  <2>3. CASE ~(2 * w.imm >= Half)
    <3>1. x = source + w.imm BY <2>3
    <3>2. x \in 0 .. n - 1 /\ n \in Nat \ {0} BY <1>2, <1>5, <3>1 DEF Values
    <3>3. x % n = x
      <4> HIDE DEF x, n
      <4> QED BY <3>2
    <3> QED BY <1>7, <2>1, <2>3, <3>1, <3>3 DEF Compose
  <2> QED BY <2>2, <2>3
<1> QED BY <1>1, <1>6, <1>7

LEMMA RealStep ==
  ScanTypes /\ Read /\ PendingIsLui /\ SitesAreRead /\ PendingIsHeld /\ SplitIsReal
  => SplitIsReal'
<1> SUFFICES ASSUME ScanTypes, Read, PendingIsLui, SitesAreRead, PendingIsHeld, SplitIsReal,
                    NEW s \in sites', s.form = "SPLIT", s.reg # Zero,
                    ~Between(code', s.hi, s.lo)
             PROVE  held'[s.lo] = s.value
  BY DEF SplitIsReal, Crosses, Between
<1> DEFINE w == code'[at']
           before == Before(code', at')
           result == Result(w, before[w.rs])
           x == IF Dest(w) = {} THEN Unknown ELSE result
<1>1. held' = Append(held, x) /\ Len(held) = at /\ held \in Seq(Values \cup {Unknown})
  BY ReadWord DEF Execute, ScanTypes
<1>2. CASE s \in sites
  <2>1. s.lo \in 1 .. at /\ s.hi \in Nat BY <1>2 DEF SitesAreRead
  <2>2. ~Between(code, s.hi, s.lo) BY <2>1, NotCrossed, ReadWord
  <2>3. held[s.lo] = s.value BY <1>2, <2>2 DEF SplitIsReal, Crosses, Between
  <2> HIDE DEF x
  <2> QED BY <1>1, <2>1, <2>3
<1>3. CASE Pairs(w, at') /\ s = Split(code', at')
  <2> DEFINE hi == pending[w.rt]
  <2>1. s.lo = at' /\ s.hi = hi /\ s.reg = w.rt
        /\ s.value = Compose(code'[hi].imm, w.imm, w.op)
    BY <1>3 DEF Split
  <2>2. /\ w.rt \in Regs /\ IsLow(w) /\ hi \in 1 .. at /\ at' - hi <= Window
        /\ code'[hi] = code[hi] /\ code[hi].imm \in Imms
    BY <1>3, PairRead
  <2>3. before = regs BY <2>1, <2>2, Remembers
  <2>4. Live(at, hi) BY <2>2, ReadWord, SplitAssumption DEF Live, None
  <2>5. ~Between(code, hi, at) BY <2>1, <2>2, NotCrossed, ReadWord
  <2>6. regs[w.rt] = code[hi].imm * Half BY <2>1, <2>2, <2>4, <2>5 DEF PendingIsHeld
  <2>7. w.rs = w.rt /\ w \in Word BY <2>2, ReadWord DEF IsLow
  <2>8. result = s.value BY <2>1, <2>2, <2>3, <2>6, <2>7, LowResult
  <2>9. Dest(w) # {} BY <2>1, <2>2, <2>7, WritesOwn, DestIsWrites
  <2>10. x = s.value BY <2>8, <2>9
  <2> HIDE DEF x
  <2> QED BY <1>1, <2>1, <2>10, ReadWord
<1>4. CASE s = Orphan(w, at') BY <1>4 DEF Orphan
<1> QED BY <1>2, <1>3, <1>4, NewSites

-----------------------------------------------------------------------------
(* The invariant of the pass, and what follows from it. *)

PassInv ==
  /\ PendingIsLui /\ PendingIsLast /\ LastIsPending /\ LastOpIsLast
  /\ SitesAreRead /\ PendingIsHeld
  /\ OneSitePerHalf /\ OrphanIsLoaded /\ Complete /\ SplitIsReal

LEMMA StartInv == Start => PassInv
<1> SUFFICES ASSUME Start PROVE PassInv OBVIOUS
<1>1. \A r \in Regs : pending[r] = None /\ lastOp[r] = None BY DEF Start, NoWord
<1>2. \A r \in Regs : ~Live(at, pending[r]) BY <1>1 DEF Live
<1>3. 1 .. at = {} /\ sites = {} BY DEF Start
<1>4. PendingIsLui /\ PendingIsLast /\ LastIsPending /\ LastOpIsLast /\ PendingIsHeld
  BY <1>1, <1>2, <1>3
  DEF PendingIsLui, PendingIsLast, LastIsPending, LastOpIsLast, PendingIsHeld
<1>5. SitesAreRead /\ OneSitePerHalf /\ OrphanIsLoaded /\ Complete /\ SplitIsReal
  BY <1>3 DEF SitesAreRead, OneSitePerHalf, OrphanIsLoaded, Complete, SplitIsReal
<1> QED BY <1>4, <1>5 DEF PassInv

LEMMA ReadInv == ASSUME ScanTypes, Read, PassInv PROVE PassInv'
<1>1. PendingIsLui' /\ PendingIsLast' /\ LastIsPending' /\ LastOpIsLast'
  BY PendingStep, PendingLastStep, LastStep, LastOpStep DEF PassInv
<1>2. SitesAreRead' /\ PendingIsHeld' BY SitesStep, HeldStep DEF PassInv
<1>3. OneSitePerHalf' /\ OrphanIsLoaded' BY OneSiteStep, OrphanStep DEF PassInv
<1>4. Complete' /\ SplitIsReal' BY CompleteStep, RealStep DEF PassInv
<1> QED BY <1>1, <1>2, <1>3, <1>4 DEF PassInv

LEMMA IdleInv == ASSUME PassInv, UNCHANGED vars PROVE PassInv'
BY DEF PassInv, vars, PendingIsLui, PendingIsLast, LastIsPending, LastOpIsLast, SitesAreRead,
       PendingIsHeld, OneSitePerHalf, OrphanIsLoaded, Complete, SplitIsReal, Crosses, Between

\* Gate 45 runs the pass twice, over the image and over what rewrite made of it; all of this
\* holds of both.
THEOREM PassCorrect == Spec => []PassInv
<1> DEFINE Inv == ScanTypes /\ Control /\ PassInv
<1>1. Init => Inv BY InitStarts, StartTypes, StartInv
<1>2. Inv /\ [Next]_vars => Inv'
  <2> SUFFICES ASSUME ScanTypes, Control, PassInv, [Next]_vars PROVE Inv' OBVIOUS
  <2>1. ScanTypes' /\ Control' /\ (Read \/ Start' \/ UNCHANGED vars) BY Steps
  <2>2. CASE Read BY <2>1, <2>2, ReadInv
  <2>3. CASE Start'
    <3>1. PassInv' BY <2>3, StartInv, PTL
    <3> QED BY <2>1, <3>1
  <2>4. CASE UNCHANGED vars BY <2>1, <2>4, IdleInv
  <2> QED BY <2>1, <2>2, <2>3, <2>4
<1> QED BY <1>1, <1>2, PTL DEF Spec

\* "The composed value exists only in a register at runtime": what a SPLIT site reports is
\* what the machine computes, wherever no jump or call lies between the halves.
THEOREM SplitsAreReal == Spec => []SplitIsReal
<1>1. PassInv => SplitIsReal BY DEF PassInv
<1> QED BY <1>1, PassCorrect, PTL

\* No reference that is made of a lui and a low half within the window is missed.
THEOREM NoneIsMissed == Spec => []Complete
<1>1. PassInv => Complete BY DEF PassInv
<1> QED BY <1>1, PassCorrect, PTL

\* A low half is reported alone only where its register was loaded.
THEOREM OrphansAreLoaded == Spec => []OrphanIsLoaded
<1>1. PassInv => OrphanIsLoaded BY DEF PassInv
<1> QED BY <1>1, PassCorrect, PTL

\* Rewriting one site never changes a half of another.
THEOREM HalvesAreOwned == Spec => []OneSitePerHalf
<1>1. PassInv => OneSitePerHalf BY DEF PassInv
<1> QED BY <1>1, PassCorrect, PTL

-----------------------------------------------------------------------------
(* What the pass reports of an image, said of the image alone: the word    *)
(* that last wrote the register of a low half decides, and it is the same  *)
(* word whatever the immediates are.                                       *)

LastWrite(prog, n, r, k) ==
  /\ k \in 1 .. n - 1 /\ r \in Writes(prog[k])
  /\ \A j \in k + 1 .. n - 1 : r \notin Writes(prog[j])

IsPair(prog, k, n) ==
  /\ IsLow(prog[n]) /\ LastWrite(prog, n, prog[n].rt, k)
  /\ IsLui(prog[k]) /\ n - k <= Window

IsLone(prog, k, n) ==
  /\ IsLow(prog[n]) /\ LastWrite(prog, n, prog[n].rt, k)
  /\ prog[n].op = "ori" /\ prog[k].op = "load" /\ n - k <= Window

PairSite(prog, k, n) ==
  [form |-> "SPLIT", hi |-> k, lo |-> n, op |-> prog[n].op, reg |-> prog[n].rt,
   value |-> Compose(prog[k].imm, prog[n].imm, prog[n].op)]

SiteOf(prog, k, n, s) ==
  \/ IsPair(prog, k, n) /\ s = PairSite(prog, k, n) /\ Accept(s.value)
  \/ IsLone(prog, k, n) /\ s = Orphan(prog[n], n) /\ AcceptLow(s.value)

\* The sites whose low halves are among the first m words.
IsSite(prog, m, s) == \E n \in 1 .. m, k \in 1 .. m : SiteOf(prog, k, n, s)

\* No word that writes a register comes after the last one that does.
WritersAreBefore ==
  \A r \in Regs, k \in 1 .. at : r \in Writes(code[k]) => k <= lastOp[r]

\* A lui can still be paired while it is what wrote its register last, and no longer.
PendingIsLastOp ==
  \A r \in Regs :
    /\ Live(at + 1, pending[r]) => pending[r] = lastOp[r]
    /\ Live(at + 1, lastOp[r]) /\ IsLui(code[lastOp[r]]) => pending[r] = lastOp[r]

SitesAreDeclared == \A s : s \in sites <=> IsSite(code, at, s)

LEMMA WritersStep == ScanTypes /\ Read /\ WritersAreBefore => WritersAreBefore'
<1> SUFFICES ASSUME ScanTypes, Read, WritersAreBefore,
                    NEW r \in Regs, NEW k \in 1 .. at', r \in Writes(code'[k])
             PROVE  k <= lastOp'[r]
  BY DEF WritersAreBefore
<1>1. lastOp'[r] = IF r \in Writes(code'[at']) THEN at' ELSE lastOp[r]
  BY ReadWord DEF ScanWord
<1>2. CASE r \in Writes(code'[at']) BY <1>1, <1>2, ReadWord
<1>3. CASE r \notin Writes(code'[at'])
  <2>1. k \in 1 .. at BY <1>3, ReadWord
  <2> QED BY <1>1, <1>3, <2>1, ReadWord DEF WritersAreBefore
<1> QED BY <1>2, <1>3

\* What a word does to the lui pending for a register, by what it writes.
LEMMA PendingByWrites ==
  ASSUME ScanTypes, Read, NEW r \in Regs
  PROVE  LET w == code'[at'] IN
         /\ r \notin Writes(w) => pending'[r] = pending[r] /\ lastOp'[r] = lastOp[r]
         /\ r \in Writes(w) =>
              /\ lastOp'[r] = at'
              /\ IsLui(w) => pending'[r] = at'
              /\ ~IsLui(w) => pending'[r] = None
                              \/ (pending'[r] = pending[r] /\ ~Live(at', pending[r]))
<1> DEFINE w == code'[at']
<1>1. w \in Word BY ReadWord
<1>2. IsLui(w) \/ IsLow(w) => Writes(w) = {w.rt} BY <1>1, WritesOwn
<1>3. pending'[r] = IF IsLui(w) /\ r = w.rt THEN at'
                    ELSE IF r \in Cleared(code', at') THEN None ELSE pending[r]
  BY ReadWord
<1>4. lastOp'[r] = IF r \in Writes(w) THEN at' ELSE lastOp[r] BY ReadWord DEF ScanWord
<1>5. Pairs(w, at') => IsLow(w) BY DEF Pairs
<1>6. IsOrphan(code', at') => IsLow(w) /\ ~Live(at', pending[w.rt]) BY DEF IsOrphan
<1>7. Cleared(code', at') = IF Pairs(w, at') THEN {w.rt}
                            ELSE IF IsOrphan(code', at') THEN {} ELSE Writes(w)
  BY DEF Cleared
<1> HIDE DEF w
<1>8. CASE r \notin Writes(w)
  <2>1. r \notin Cleared(code', at') BY <1>2, <1>5, <1>7, <1>8
  <2> QED BY <1>2, <1>3, <1>4, <1>8, <2>1 DEF w
<1>9. CASE r \in Writes(w)
  <2>1. r \in Cleared(code', at') \/ (IsOrphan(code', at') /\ r = w.rt)
    BY <1>2, <1>5, <1>6, <1>7, <1>9
  <2> QED BY <1>2, <1>3, <1>4, <1>6, <1>9, <2>1 DEF w
<1> QED BY <1>8, <1>9

LEMMA PendingLastOpStep == ScanTypes /\ Read /\ PendingIsLastOp => PendingIsLastOp'
<1> SUFFICES ASSUME ScanTypes, Read, PendingIsLastOp, NEW r \in Regs
             PROVE  /\ Live(at' + 1, pending'[r]) => pending'[r] = lastOp'[r]
                    /\ Live(at' + 1, lastOp'[r]) /\ IsLui(code'[lastOp'[r]])
                         => pending'[r] = lastOp'[r]
  BY DEF PendingIsLastOp
<1> USE SplitAssumption
<1>1. at \in Nat /\ at' = at + 1 /\ pending[r] \in 0 .. at /\ lastOp[r] \in 0 .. at
  BY ReadWord
<1>2. CASE r \notin Writes(code'[at'])
  <2>1. pending'[r] = pending[r] /\ lastOp'[r] = lastOp[r] BY <1>2, PendingByWrites
  <2>2. Live(at' + 1, pending[r]) => Live(at + 1, pending[r]) BY <1>1 DEF Live
  <2>3. Live(at' + 1, lastOp[r]) => Live(at + 1, lastOp[r]) /\ code'[lastOp[r]] = code[lastOp[r]]
    <3> SUFFICES ASSUME Live(at' + 1, lastOp[r]) PROVE Live(at + 1, lastOp[r]) /\ lastOp[r] \in 1 .. at
      BY ReadWord
    <3> QED BY <1>1 DEF Live, None
  <2> QED BY <2>1, <2>2, <2>3 DEF PendingIsLastOp
<1>3. CASE r \in Writes(code'[at'])
  <2>1. lastOp'[r] = at' BY <1>3, PendingByWrites
  <2>2. CASE IsLui(code'[at']) BY <1>3, <2>1, <2>2, PendingByWrites
  <2>3. CASE ~IsLui(code'[at'])
    <3>1. ~Live(at' + 1, pending'[r])
      <4>1. CASE pending'[r] = None BY <4>1 DEF Live
      <4>2. CASE pending'[r] = pending[r] /\ ~Live(at', pending[r]) BY <4>2, <1>1 DEF Live
      <4> QED BY <1>3, <2>3, <4>1, <4>2, PendingByWrites
    <3> QED BY <2>1, <2>3, <3>1
  <2> QED BY <2>2, <2>3
<1> QED BY <1>2, <1>3

\* The word that last wrote a register, while the pass stands before the next one.
LEMMA LastOpIsLastWrite ==
  ASSUME ScanTypes, Read, LastOpIsLast, WritersAreBefore, NEW r \in Regs, NEW k
  PROVE  LastWrite(code', at', r, k) <=> k = lastOp[r] /\ k # None
<1>1. at \in Nat /\ at' = at + 1 /\ \A j \in 1 .. at : code'[j] = code[j] BY ReadWord
<1>2. lastOp[r] \in 0 .. at BY ReadWord
<1>3. ASSUME LastWrite(code', at', r, k) PROVE k = lastOp[r] /\ k # None
  <2>1. k \in 1 .. at /\ r \in Writes(code[k]) BY <1>1, <1>3 DEF LastWrite
  <2>2. k <= lastOp[r] BY <2>1 DEF WritersAreBefore
  <2>3. lastOp[r] \in 1 .. at BY <1>2, <2>1, <2>2
  <2>4. r \in Writes(code'[lastOp[r]]) BY <1>1, <2>3 DEF LastOpIsLast, None
  <2>5. ~(k < lastOp[r])
    <3> SUFFICES ASSUME k < lastOp[r] PROVE FALSE OBVIOUS
    <3>1. lastOp[r] \in k + 1 .. at' - 1 BY <1>1, <2>1, <2>3
    <3> QED BY <1>3, <2>4, <3>1 DEF LastWrite
  <2> QED BY <2>1, <2>2, <2>3, <2>5 DEF None
<1>4. ASSUME k = lastOp[r], k # None PROVE LastWrite(code', at', r, k)
  <2>1. k \in 1 .. at BY <1>2, <1>4 DEF None
  <2>2. r \in Writes(code'[k]) BY <1>1, <1>4, <2>1 DEF LastOpIsLast
  <2>3. ASSUME NEW j \in k + 1 .. at' - 1 PROVE r \notin Writes(code'[j])
    <3>1. j \in k + 1 .. at /\ j \in 1 .. at BY <1>1, <2>1
    <3> QED BY <1>1, <1>4, <3>1 DEF LastOpIsLast
  <2> QED BY <1>1, <2>1, <2>2, <2>3 DEF LastWrite
<1> QED BY <1>3, <1>4

\* What find makes of a word is what the image says of it.
LEMMA FoundIsDeclared ==
  ASSUME ScanTypes, Read, PendingIsLui, LastOpIsLast, WritersAreBefore, PendingIsLastOp, NEW s
  PROVE  s \in Found(code', at') <=> \E k \in 1 .. at' : SiteOf(code', k, at', s)
<1> DEFINE w == code'[at']
           r == w.rt
<1>1. w \in Word /\ at \in Nat /\ at' = at + 1 BY ReadWord
<1>2. r \in Regs
  <2> HIDE DEF w
  <2> QED BY <1>1 DEF Word
<1>3. pending[r] \in 0 .. at /\ lastOp[r] \in 0 .. at BY <1>2, ReadWord
<1>4. \A k : LastWrite(code', at', r, k) <=> k = lastOp[r] /\ k # None
  BY <1>2, LastOpIsLastWrite
<1>5. \A k \in 1 .. at : code'[k] = code[k] BY ReadWord
<1>6. /\ Live(at', pending[r]) => pending[r] = lastOp[r]
      /\ Live(at', lastOp[r]) /\ IsLui(code[lastOp[r]]) => pending[r] = lastOp[r]
  BY <1>1, <1>2 DEF PendingIsLastOp
<1>7. pending[r] # None => IsLui(code[pending[r]]) BY <1>2 DEF PendingIsLui
<1>8. \A k : LastWrite(code', at', r, k) => k \in 1 .. at /\ code'[k] = code[k]
  BY <1>3, <1>4, <1>5 DEF None
<1>9. ASSUME NEW k PROVE IsPair(code', k, at') <=> Pairs(w, at') /\ k = pending[r]
  <2>1. ASSUME IsPair(code', k, at') PROVE Pairs(w, at') /\ k = pending[r]
    <3>1. IsLow(w) /\ LastWrite(code', at', r, k) /\ IsLui(code'[k]) /\ at' - k <= Window
      BY <2>1 DEF IsPair
    <3>2. k = lastOp[r] /\ k # None /\ IsLui(code[k]) BY <1>4, <1>8, <3>1
    <3>3. Live(at', lastOp[r]) BY <3>1, <3>2 DEF Live
    <3> QED BY <1>6, <3>1, <3>2, <3>3 DEF Pairs
  <2>2. ASSUME Pairs(w, at'), k = pending[r] PROVE IsPair(code', k, at')
    <3>1. IsLow(w) /\ Live(at', k) BY <2>2 DEF Pairs
    <3>2. k # None /\ at' - k <= Window BY <3>1 DEF Live
    <3>3. LastWrite(code', at', r, k) BY <1>4, <1>6, <2>2, <3>1, <3>2
    <3>4. IsLui(code'[k]) BY <1>7, <1>8, <2>2, <3>2, <3>3
    <3> QED BY <3>1, <3>2, <3>3, <3>4 DEF IsPair
  <2> QED BY <2>1, <2>2
<1>10. ASSUME NEW k
       PROVE  IsLone(code', k, at') /\ AcceptLow(w.imm) <=> IsOrphan(code', at') /\ k = lastOp[r]
  <2>1. ASSUME IsLone(code', k, at'), AcceptLow(w.imm)
        PROVE  IsOrphan(code', at') /\ k = lastOp[r]
    <3>1. /\ IsLow(w) /\ LastWrite(code', at', r, k) /\ w.op = "ori"
          /\ code'[k].op = "load" /\ at' - k <= Window
      BY <2>1 DEF IsLone
    <3>2. k = lastOp[r] /\ k # None /\ code'[k] = code[k] BY <1>4, <1>8, <3>1
    <3>3. Live(at', lastOp[r]) BY <3>1, <3>2 DEF Live
    <3>4. ~Live(at', pending[r]) BY <1>6, <1>7, <3>1, <3>2 DEF Live, IsLui
    <3> QED BY <2>1, <3>1, <3>2, <3>3, <3>4 DEF IsOrphan
  <2>2. ASSUME IsOrphan(code', at'), k = lastOp[r]
        PROVE  IsLone(code', k, at') /\ AcceptLow(w.imm)
    <3>1. /\ IsLow(w) /\ w.op = "ori" /\ AcceptLow(w.imm)
          /\ Live(at', k) /\ code'[k].op = "load"
      BY <2>2 DEF IsOrphan
    <3>2. k # None /\ at' - k <= Window BY <3>1 DEF Live
    <3>3. LastWrite(code', at', r, k) BY <1>4, <2>2, <3>2
    <3> QED BY <3>1, <3>2, <3>3 DEF IsLone
  <2> QED BY <2>1, <2>2
<1>11. Pairs(w, at') => ~IsOrphan(code', at') BY DEF Pairs, IsOrphan
<1>12. Split(code', at') = PairSite(code', pending[r], at') BY DEF Split, PairSite
<1>13. Orphan(w, at').value = w.imm BY DEF Orphan
<1>14. ASSUME s \in Found(code', at') PROVE \E k \in 1 .. at' : SiteOf(code', k, at', s)
  <2>1. CASE Pairs(w, at')
    <3>1. s = PairSite(code', pending[r], at') /\ Accept(s.value)
      BY <1>12, <1>14, <2>1 DEF Found
    <3>2. IsPair(code', pending[r], at') BY <1>9, <2>1
    <3>3. pending[r] \in 1 .. at' BY <1>1, <1>3, <2>1 DEF Pairs, Live, None
    <3> QED BY <3>1, <3>2, <3>3 DEF SiteOf
  <2>2. CASE ~Pairs(w, at')
    <3>1. s = Orphan(w, at') /\ IsOrphan(code', at') BY <1>14, <2>2 DEF Found
    <3>2. IsLone(code', lastOp[r], at') /\ AcceptLow(w.imm) BY <1>10, <3>1
    <3>3. lastOp[r] \in 1 .. at' BY <1>1, <1>3, <3>1 DEF IsOrphan, Live, None
    <3> QED BY <1>13, <3>1, <3>2, <3>3 DEF SiteOf
  <2> QED BY <2>1, <2>2
<1>15. ASSUME NEW k \in 1 .. at', SiteOf(code', k, at', s) PROVE s \in Found(code', at')
  <2>1. CASE IsPair(code', k, at') /\ s = PairSite(code', k, at') /\ Accept(s.value)
    BY <1>9, <1>12, <2>1 DEF Found
  <2>2. CASE IsLone(code', k, at') /\ s = Orphan(w, at') /\ AcceptLow(s.value)
    BY <1>10, <1>11, <1>13, <2>2 DEF Found
  <2> QED BY <1>15, <2>1, <2>2 DEF SiteOf
<1> QED BY <1>14, <1>15

\* Images that agree up to a word agree on what is reported of it.
LEMMA SameSite ==
  ASSUME NEW p, NEW q, NEW n \in Nat, NEW k, NEW s, \A j \in 1 .. n : p[j] = q[j],
         n # 0, SiteOf(p, k, n, s)
  PROVE  SiteOf(q, k, n, s)
<1>1. p[n] = q[n] OBVIOUS
<1>2. ASSUME NEW r, LastWrite(p, n, r, k) PROVE LastWrite(q, n, r, k) /\ p[k] = q[k]
  <2>1. k \in 1 .. n - 1 /\ r \in Writes(p[k]) BY <1>2 DEF LastWrite
  <2>2. p[k] = q[k] BY <2>1
  <2>3. ASSUME NEW j \in k + 1 .. n - 1 PROVE r \notin Writes(q[j])
    <3>1. p[j] = q[j] BY <2>1
    <3> QED BY <1>2, <3>1 DEF LastWrite
  <2> QED BY <2>1, <2>2, <2>3 DEF LastWrite
<1>3. CASE IsPair(p, k, n) /\ s = PairSite(p, k, n) /\ Accept(s.value)
  <2>1. IsPair(q, k, n) /\ p[k] = q[k] BY <1>1, <1>2, <1>3 DEF IsPair
  <2>2. PairSite(q, k, n) = PairSite(p, k, n) BY <1>1, <2>1 DEF PairSite
  <2> QED BY <1>3, <2>1, <2>2 DEF SiteOf
<1>4. CASE IsLone(p, k, n) /\ s = Orphan(p[n], n) /\ AcceptLow(s.value)
  <2>1. IsLone(q, k, n) BY <1>1, <1>2, <1>4 DEF IsLone
  <2> QED BY <1>1, <1>4, <2>1 DEF SiteOf
<1> QED BY <1>3, <1>4 DEF SiteOf

LEMMA DeclaredStep ==
  /\ ScanTypes /\ Read /\ PendingIsLui /\ LastOpIsLast
  /\ WritersAreBefore /\ PendingIsLastOp /\ SitesAreDeclared
  => SitesAreDeclared'
<1> SUFFICES ASSUME ScanTypes, Read, PendingIsLui, LastOpIsLast,
                    WritersAreBefore, PendingIsLastOp, SitesAreDeclared, NEW s
             PROVE  s \in sites' <=> IsSite(code', at', s)
  BY DEF SitesAreDeclared
<1>1. at \in Nat /\ at' = at + 1 /\ \A j \in 1 .. at : code'[j] = code[j] BY ReadWord
<1>2. s \in sites' <=> s \in sites \/ s \in Found(code', at') BY DEF Read, ScanWord
<1>3. s \in sites <=> IsSite(code, at, s) BY DEF SitesAreDeclared
<1>4. s \in Found(code', at') <=> \E k \in 1 .. at' : SiteOf(code', k, at', s)
  BY FoundIsDeclared
<1>5. ASSUME NEW n \in 1 .. at, NEW k
      PROVE  SiteOf(code, k, n, s) <=> SiteOf(code', k, n, s)
  <2>1. \A j \in 1 .. n : code'[j] = code[j] BY <1>1
  <2> QED BY <2>1, SameSite
<1>6. ASSUME NEW n \in 1 .. at, NEW k, SiteOf(code', k, n, s) PROVE k \in 1 .. at
  BY <1>1, <1>6 DEF SiteOf, IsPair, IsLone, LastWrite
<1>7. IsSite(code, at, s) => IsSite(code', at', s) BY <1>1, <1>5 DEF IsSite
<1>8. ASSUME NEW n \in 1 .. at', NEW k \in 1 .. at', SiteOf(code', k, n, s)
      PROVE  s \in sites \/ s \in Found(code', at')
  <2>1. CASE n = at' BY <1>4, <1>8, <2>1
  <2>2. CASE n # at'
    <3>1. n \in 1 .. at BY <1>1, <2>2
    <3>2. k \in 1 .. at /\ SiteOf(code, k, n, s) BY <1>5, <1>6, <1>8, <3>1
    <3> QED BY <1>3, <3>1, <3>2 DEF IsSite
  <2> QED BY <2>1, <2>2
<1>9. (\E k \in 1 .. at' : SiteOf(code', k, at', s)) => IsSite(code', at', s)
  BY <1>1 DEF IsSite
<1>10. IsSite(code', at', s) => s \in sites \/ s \in Found(code', at') BY <1>8 DEF IsSite
<1> QED BY <1>2, <1>3, <1>4, <1>7, <1>9, <1>10

-----------------------------------------------------------------------------
(* rewrite keeps everything of a word but its immediate, so the image it   *)
(* leaves declares the same sites with the new value.                      *)

SameShape(p, q) ==
  \A n \in 1 .. Len(p) :
    q[n].op = p[n].op /\ q[n].rs = p[n].rs /\ q[n].rt = p[n].rt /\ q[n].rd = p[n].rd

LEMMA PatchKeepsShape ==
  ASSUME NEW prog \in Seq(Word), NEW chosen, NEW value
  PROVE  SameShape(prog, Patch(prog, chosen, value))
<1> DEFINE patched == Patch(prog, chosen, value)
<1> SUFFICES ASSUME NEW n \in 1 .. Len(prog)
             PROVE  /\ patched[n].op = prog[n].op /\ patched[n].rs = prog[n].rs
                    /\ patched[n].rt = prog[n].rt /\ patched[n].rd = prog[n].rd
  BY DEF SameShape
<1> DEFINE w == prog[n]
<1>1. w \in Word OBVIOUS
<1>2. \E x : patched[n] = [w EXCEPT !.imm = x] \/ patched[n] = w
  <2>1. patched[n] = IF \E s \in chosen : s.hi = n
          THEN [w EXCEPT !.imm = Halves(value, (CHOOSE s \in chosen : s.hi = n).op)[1]]
        ELSE IF \E s \in chosen : s.lo = n
          THEN [w EXCEPT !.imm = Halves(value, (CHOOSE s \in chosen : s.lo = n).op)[2]]
        ELSE w
    BY DEF Patch
  <2> QED BY <2>1
<1> HIDE DEF w, patched
<1>3. PICK x : patched[n] = [w EXCEPT !.imm = x] \/ patched[n] = w BY <1>2
<1>4. /\ patched[n].op = w.op /\ patched[n].rs = w.rs /\ patched[n].rt = w.rt
      /\ patched[n].rd = w.rd
  BY <1>1, <1>3 DEF Word
<1> QED BY <1>4 DEF w, patched

\* Which words are the halves of a pair, or stand alone, does not depend on their immediates.
LEMMA ShapeDecides ==
  ASSUME NEW p, NEW q, Len(p) \in Nat, SameShape(p, q),
         NEW n \in 1 .. Len(p), NEW k
  PROVE  /\ IsPair(q, k, n) <=> IsPair(p, k, n)
         /\ IsLone(q, k, n) <=> IsLone(p, k, n)
<1>1. \A j \in 1 .. Len(p) :
        /\ q[j].op = p[j].op /\ q[j].rs = p[j].rs /\ q[j].rt = p[j].rt /\ q[j].rd = p[j].rd
  BY DEF SameShape
<1>2. \A j \in 1 .. Len(p) : /\ Writes(q[j]) = Writes(p[j])
                             /\ IsLow(q[j]) <=> IsLow(p[j])
                             /\ IsLui(q[j]) <=> IsLui(p[j])
  BY <1>1 DEF Writes, IsLow, IsLui
<1>3. ASSUME NEW r PROVE LastWrite(q, n, r, k) <=> LastWrite(p, n, r, k)
  <2>1. \A j \in 1 .. n - 1 : Writes(q[j]) = Writes(p[j]) BY <1>2
  <2>2. CASE k \in 1 .. n - 1
    <3>1. \A j \in k + 1 .. n - 1 : Writes(q[j]) = Writes(p[j]) BY <2>1, <2>2
    <3> QED BY <2>1, <2>2, <3>1 DEF LastWrite
  <2>3. CASE k \notin 1 .. n - 1 BY <2>3 DEF LastWrite
  <2> QED BY <2>2, <2>3
<1>4. ASSUME NEW r, LastWrite(p, n, r, k) PROVE k \in 1 .. Len(p) BY <1>4 DEF LastWrite
<1>5. IsPair(q, k, n) <=> IsPair(p, k, n)
  BY <1>1, <1>2, <1>3, <1>4 DEF IsPair
<1>6. IsLone(q, k, n) <=> IsLone(p, k, n)
  BY <1>1, <1>2, <1>3, <1>4 DEF IsLone
<1> QED BY <1>5, <1>6

\* A low half has one high half or load; a lui is the high half of one pair.
LEMMA OwnHalves ==
  ASSUME NEW prog \in Seq(Word), NEW n \in 1 .. Len(prog), NEW k,
         IsPair(prog, k, n) \/ IsLone(prog, k, n)
  PROVE  /\ k \in 1 .. n - 1 /\ IsLow(prog[n]) /\ ~IsLui(prog[n]) /\ ~IsLow(prog[k])
         /\ IsPair(prog, k, n) => IsLui(prog[k]) /\ ~IsLone(prog, k, n)
         /\ \A j : IsPair(prog, j, n) \/ IsLone(prog, j, n) => j = k
         /\ \A m \in 1 .. Len(prog) : IsPair(prog, k, n) /\ IsPair(prog, k, m) => m = n
<1> DEFINE r == prog[n].rt
<1>1. LastWrite(prog, n, r, k) /\ IsLow(prog[n]) BY DEF IsPair, IsLone
<1>2. k \in 1 .. n - 1 BY <1>1 DEF LastWrite
<1>3. IsLui(prog[k]) \/ prog[k].op = "load" BY DEF IsPair, IsLone
<1>4. ~IsLui(prog[n]) /\ ~IsLow(prog[k]) BY <1>1, <1>3 DEF IsLow, IsLui
<1>5. IsPair(prog, k, n) => IsLui(prog[k]) /\ ~IsLone(prog, k, n)
  BY DEF IsPair, IsLone, IsLui
<1>6. ASSUME NEW j, IsPair(prog, j, n) \/ IsLone(prog, j, n) PROVE j = k
  <2>1. LastWrite(prog, n, r, j) BY <1>6 DEF IsPair, IsLone
  <2>2. j \in 1 .. n - 1 BY <2>1 DEF LastWrite
  <2>3. ~(j < k)
    <3> SUFFICES ASSUME j < k PROVE FALSE OBVIOUS
    <3>1. k \in j + 1 .. n - 1 BY <1>2, <2>2
    <3> QED BY <1>1, <2>1, <3>1 DEF LastWrite
  <2>4. ~(k < j)
    <3> SUFFICES ASSUME k < j PROVE FALSE OBVIOUS
    <3>1. j \in k + 1 .. n - 1 BY <1>2, <2>2
    <3> QED BY <1>1, <2>1, <3>1 DEF LastWrite
  <2> QED BY <1>2, <2>2, <2>3, <2>4
<1>7. ASSUME NEW a \in 1 .. Len(prog), NEW b \in 1 .. Len(prog), a < b,
             IsPair(prog, k, a), IsPair(prog, k, b)
      PROVE  FALSE
  <2>1. /\ IsLow(prog[a]) /\ LastWrite(prog, a, prog[a].rt, k)
        /\ IsLow(prog[b]) /\ LastWrite(prog, b, prog[b].rt, k) /\ IsLui(prog[k])
    BY <1>7 DEF IsPair
  <2>2. k \in 1 .. a - 1 BY <2>1 DEF LastWrite
  <2>3. prog[k] \in Word /\ prog[a] \in Word BY <2>2
  <2>4. Writes(prog[k]) = {prog[k].rt} /\ Writes(prog[a]) = {prog[a].rt}
    BY <2>1, <2>3, WritesOwn
  <2>5. prog[a].rt \in Writes(prog[k]) /\ prog[b].rt \in Writes(prog[k])
    BY <2>1 DEF LastWrite
  <2>6. prog[b].rt \in Writes(prog[a]) BY <2>4, <2>5
  <2>7. a \in k + 1 .. b - 1 BY <1>7, <2>2
  <2> QED BY <2>1, <2>6, <2>7 DEF LastWrite
<1>8. \A m \in 1 .. Len(prog) : IsPair(prog, k, n) /\ IsPair(prog, k, m) => m = n
  <2> SUFFICES ASSUME NEW m \in 1 .. Len(prog), IsPair(prog, k, n), IsPair(prog, k, m)
               PROVE  m = n
    OBVIOUS
  <2>1. m < n \/ n < m \/ m = n OBVIOUS
  <2> QED BY <2>1, <1>7
<1> QED BY <1>1, <1>2, <1>4, <1>5, <1>6, <1>8

\* What gate 45 hands to rewrite: all sites of one form, and a value fit for them.
Chosen(prog, first, chosen, form, value) ==
  /\ prog \in Seq(Word) /\ first \subseteq Site /\ value \in Values
  /\ \A s : s \in first <=> IsSite(prog, Len(prog), s)
  /\ chosen = {s \in first : s.form = form}
  /\ IF form = "SPLIT" THEN Accept(value)
                       ELSE form = "ORPHAN" /\ value \in Imms /\ AcceptLow(value)

\* Each chosen site is of a pair, or alone, by the form that was asked for.
LEMMA ChosenSites ==
  ASSUME NEW prog, NEW first, NEW chosen, NEW form, NEW value,
         Chosen(prog, first, chosen, form, value), NEW s \in chosen
  PROVE  \E n \in 1 .. Len(prog), k \in 1 .. Len(prog) :
           \/ /\ form = "SPLIT" /\ IsPair(prog, k, n)
              /\ s = PairSite(prog, k, n) /\ s.hi = k /\ s.lo = n /\ s.op = prog[n].op
           \/ /\ form = "ORPHAN" /\ IsLone(prog, k, n)
              /\ s = Orphan(prog[n], n) /\ s.hi = None /\ s.lo = n /\ s.op = prog[n].op
<1>1. IsSite(prog, Len(prog), s) /\ s.form = form BY DEF Chosen
<1>2. PICK n \in 1 .. Len(prog), k \in 1 .. Len(prog) : SiteOf(prog, k, n, s)
  BY <1>1 DEF IsSite
<1> QED BY <1>1, <1>2 DEF SiteOf, PairSite, Orphan

\* A word no chosen site has a half in stays as it is.
LEMMA Unpatched ==
  ASSUME NEW prog \in Seq(Word), NEW chosen, NEW value, NEW n \in 1 .. Len(prog),
         \A s \in chosen : s.hi # n /\ s.lo # n
  PROVE  Patch(prog, chosen, value)[n] = prog[n]
BY DEF Patch

LEMMA PatchedPair ==
  ASSUME NEW prog, NEW first, NEW chosen, NEW value,
         Chosen(prog, first, chosen, "SPLIT", value),
         NEW n \in 1 .. Len(prog), NEW k \in 1 .. Len(prog), IsPair(prog, k, n),
         Accept(PairSite(prog, k, n).value)
  PROVE  LET patched == Patch(prog, chosen, value) IN
         /\ PairSite(prog, k, n) \in chosen
         /\ PairSite(patched, k, n) = [PairSite(prog, k, n) EXCEPT !.value = value]
<1> DEFINE patched == Patch(prog, chosen, value)
           s == PairSite(prog, k, n)
           halves == Halves(value, prog[n].op)
<1>1. prog \in Seq(Word) /\ value \in Values BY DEF Chosen
<1>2. s.form = "SPLIT" /\ s.hi = k /\ s.lo = n /\ s.op = prog[n].op BY DEF PairSite
<1>3. s \in chosen
  <2>1. SiteOf(prog, k, n, s) BY DEF SiteOf
  <2>2. IsSite(prog, Len(prog), s) BY <2>1 DEF IsSite
  <2> QED BY <1>2, <2>2 DEF Chosen
<1>4. \A t \in chosen : /\ t.hi = k => t.op = prog[n].op
                        /\ t.lo = n => t.op = prog[n].op
                        /\ t.hi # n /\ t.lo # k
  <2> SUFFICES ASSUME NEW t \in chosen
               PROVE  /\ t.hi = k => t.op = prog[n].op
                      /\ t.lo = n => t.op = prog[n].op
                      /\ t.hi # n /\ t.lo # k
    OBVIOUS
  <2>1. PICK m \in 1 .. Len(prog), j \in 1 .. Len(prog) :
          /\ IsPair(prog, j, m) /\ t.hi = j /\ t.lo = m /\ t.op = prog[m].op
    BY ChosenSites
  <2>2. IsLow(prog[m]) /\ IsLui(prog[j]) /\ IsLow(prog[n]) /\ IsLui(prog[k])
    BY <2>1 DEF IsPair
  <2>3. j = k => m = n BY <1>1, <2>1, OwnHalves
  <2> QED BY <2>1, <2>2, <2>3 DEF IsLow, IsLui
<1>5. patched[k].imm = halves[1] /\ patched[n].imm = halves[2]
  <2>1. k # n BY <1>1, OwnHalves
  <2>2. \E t \in chosen : t.hi = k BY <1>2, <1>3
  <2>3. (CHOOSE t \in chosen : t.hi = k).op = prog[n].op BY <1>4, <2>2
  <2>4. \E t \in chosen : t.lo = n BY <1>2, <1>3
  <2>5. (CHOOSE t \in chosen : t.lo = n).op = prog[n].op BY <1>4, <2>4
  <2>6. patched[k] = [prog[k] EXCEPT !.imm = halves[1]]
    BY <1>1, <2>2, <2>3 DEF Patch
  <2>7. patched[n] = [prog[n] EXCEPT !.imm = halves[2]]
    <3>1. ~(\E t \in chosen : t.hi = n) BY <1>4
    <3> QED BY <1>1, <2>4, <2>5, <3>1 DEF Patch
  <2>8. prog[k] \in Word /\ prog[n] \in Word BY <1>1
  <2> HIDE DEF patched, halves
  <2> QED BY <2>6, <2>7, <2>8 DEF Word
<1>6. prog[n].op \in {"ori", "addiu"} BY DEF IsPair, IsLow
<1>7. Compose(halves[1], halves[2], prog[n].op) = value BY <1>1, <1>6, HalvesCompose
<1>8. patched[n].op = prog[n].op /\ patched[n].rt = prog[n].rt
  BY <1>1, PatchKeepsShape DEF SameShape
<1>9. PairSite(patched, k, n) = [form |-> "SPLIT", hi |-> k, lo |-> n, op |-> prog[n].op,
                                 reg |-> prog[n].rt, value |-> value]
  <2> HIDE DEF patched, halves
  <2> QED BY <1>5, <1>7, <1>8 DEF PairSite
<1>10. [s EXCEPT !.value = value] = [form |-> "SPLIT", hi |-> k, lo |-> n, op |-> prog[n].op,
                                     reg |-> prog[n].rt, value |-> value]
  BY DEF PairSite
<1> QED BY <1>3, <1>9, <1>10

LEMMA PatchedLone ==
  ASSUME NEW prog, NEW first, NEW chosen, NEW value,
         Chosen(prog, first, chosen, "ORPHAN", value),
         NEW n \in 1 .. Len(prog), NEW k \in 1 .. Len(prog), IsLone(prog, k, n),
         AcceptLow(prog[n].imm)
  PROVE  LET patched == Patch(prog, chosen, value) IN
         /\ Orphan(prog[n], n) \in chosen
         /\ Orphan(patched[n], n) = [Orphan(prog[n], n) EXCEPT !.value = value]
<1> DEFINE patched == Patch(prog, chosen, value)
           s == Orphan(prog[n], n)
<1>1. prog \in Seq(Word) /\ value \in Imms BY DEF Chosen
<1>2. s.form = "ORPHAN" /\ s.hi = None /\ s.lo = n /\ s.value = prog[n].imm /\ prog[n].op = "ori"
  BY DEF Orphan, IsLone
<1>3. s \in chosen
  <2>1. SiteOf(prog, k, n, s) BY <1>2 DEF SiteOf
  <2>2. IsSite(prog, Len(prog), s) BY <2>1 DEF IsSite
  <2> QED BY <1>2, <2>2 DEF Chosen
<1>4. \A t \in chosen : t.hi # n /\ (t.lo = n => t.op = "ori")
  <2> SUFFICES ASSUME NEW t \in chosen PROVE t.hi # n /\ (t.lo = n => t.op = "ori") OBVIOUS
  <2>1. t.hi = None /\ t.op = prog[t.lo].op BY ChosenSites
  <2> QED BY <1>2, <2>1 DEF None
<1>5. patched[n].imm = value
  <2>1. \E t \in chosen : t.lo = n BY <1>2, <1>3
  <2>2. (CHOOSE t \in chosen : t.lo = n).op = "ori" BY <1>4, <2>1
  <2>3. patched[n] = [prog[n] EXCEPT !.imm = Halves(value, "ori")[2]]
    BY <1>1, <1>4, <2>1, <2>2 DEF Patch
  <2>4. Halves(value, "ori")[2] = value
    <3>1. value \in 0 .. Half - 1 /\ Half \in Nat \ {0} BY <1>1, HalfAssumption DEF Imms
    <3> QED BY <3>1 DEF Halves
  <2>5. prog[n] \in Word BY <1>1
  <2> HIDE DEF patched
  <2> QED BY <2>3, <2>4, <2>5 DEF Word
<1>6. patched[n].op = prog[n].op /\ patched[n].rt = prog[n].rt
  BY <1>1, PatchKeepsShape DEF SameShape
<1>7. Orphan(patched[n], n) = [s EXCEPT !.value = value]
  <2> HIDE DEF patched
  <2> QED BY <1>5, <1>6 DEF Orphan
<1> QED BY <1>3, <1>7

\* The sites that rewrite was not given stay as they are.
LEMMA PatchedOther ==
  ASSUME NEW prog, NEW first, NEW chosen, NEW form, NEW value,
         Chosen(prog, first, chosen, form, value),
         NEW n \in 1 .. Len(prog), NEW k \in 1 .. Len(prog)
  PROVE  LET patched == Patch(prog, chosen, value) IN
         /\ IsPair(prog, k, n) /\ PairSite(prog, k, n) \notin chosen =>
              PairSite(patched, k, n) = PairSite(prog, k, n)
         /\ IsLone(prog, k, n) /\ Orphan(prog[n], n) \notin chosen =>
              Orphan(patched[n], n) = Orphan(prog[n], n)
<1> DEFINE patched == Patch(prog, chosen, value)
<1>1. prog \in Seq(Word) BY DEF Chosen
<1>2. ASSUME IsPair(prog, k, n), PairSite(prog, k, n) \notin chosen
      PROVE  PairSite(patched, k, n) = PairSite(prog, k, n)
  <2>1. IsLow(prog[n]) /\ IsLui(prog[k]) BY <1>2 DEF IsPair
  <2>2. \A t \in chosen : t.hi \notin {k, n} /\ t.lo \notin {k, n}
    <3> SUFFICES ASSUME NEW t \in chosen PROVE t.hi \notin {k, n} /\ t.lo \notin {k, n}
      OBVIOUS
    <3>1. PICK m \in 1 .. Len(prog), j \in 1 .. Len(prog) :
            \/ IsPair(prog, j, m) /\ t = PairSite(prog, j, m) /\ t.hi = j /\ t.lo = m
            \/ IsLone(prog, j, m) /\ t.hi = None /\ t.lo = m
      BY ChosenSites
    <3>2. IsLow(prog[m]) BY <3>1 DEF IsPair, IsLone
    <3>3. t.lo # k BY <2>1, <3>1, <3>2 DEF IsLow, IsLui
    <3>4. CASE IsPair(prog, j, m) /\ t = PairSite(prog, j, m) /\ t.hi = j /\ t.lo = m
      <4>1. IsLui(prog[j]) BY <3>4 DEF IsPair
      <4>2. j # n BY <2>1, <4>1 DEF IsLow, IsLui
      <4>3. j = k => m = n BY <1>1, <1>2, <3>4, OwnHalves
      <4>4. m = n => j = k BY <1>1, <1>2, <3>4, OwnHalves
      <4>5. ~(j = k /\ m = n) BY <1>2, <3>4
      <4> QED BY <3>3, <3>4, <4>2, <4>3, <4>4, <4>5
    <3>5. CASE IsLone(prog, j, m) /\ t.hi = None /\ t.lo = m
      <4>1. m = n => j = k BY <1>1, <1>2, <3>5, OwnHalves
      <4>2. m # n BY <1>1, <1>2, <3>5, <4>1, OwnHalves
      <4> QED BY <3>3, <3>5, <4>2 DEF None
    <3> QED BY <3>1, <3>4, <3>5
  <2>3. patched[n] = prog[n] /\ patched[k] = prog[k] BY <1>1, <2>2, Unpatched
  <2> QED BY <2>3 DEF PairSite
<1>3. ASSUME IsLone(prog, k, n), Orphan(prog[n], n) \notin chosen
      PROVE  Orphan(patched[n], n) = Orphan(prog[n], n)
  <2>1. IsLow(prog[n]) BY <1>3 DEF IsLone
  <2>2. \A t \in chosen : t.hi # n /\ t.lo # n
    <3> SUFFICES ASSUME NEW t \in chosen PROVE t.hi # n /\ t.lo # n OBVIOUS
    <3>1. PICK m \in 1 .. Len(prog), j \in 1 .. Len(prog) :
            \/ IsPair(prog, j, m) /\ t.hi = j /\ t.lo = m
            \/ IsLone(prog, j, m) /\ t = Orphan(prog[m], m) /\ t.hi = None /\ t.lo = m
      BY ChosenSites
    <3>2. CASE IsPair(prog, j, m) /\ t.hi = j /\ t.lo = m
      <4>1. IsLui(prog[j]) BY <3>2 DEF IsPair
      <4>2. j # n BY <2>1, <4>1 DEF IsLow, IsLui
      <4>3. m = n => j = k BY <1>1, <1>3, <3>2, OwnHalves
      <4>4. m # n BY <1>1, <1>3, <3>2, <4>3, OwnHalves
      <4> QED BY <3>2, <4>2, <4>4
    <3>3. CASE IsLone(prog, j, m) /\ t = Orphan(prog[m], m) /\ t.hi = None /\ t.lo = m
      BY <1>3, <3>3 DEF None
    <3> QED BY <3>1, <3>2, <3>3
  <2>3. patched[n] = prog[n] BY <1>1, <2>2, Unpatched
  <2> QED BY <2>3
<1> QED BY <1>2, <1>3

\* "reader AND writer agree": the image rewrite leaves declares the sites it was given with
\* the new value, and all the others as they were.
THEOREM PatchDeclares ==
  ASSUME NEW prog, NEW first, NEW chosen, NEW form, NEW value,
         Chosen(prog, first, chosen, form, value), NEW s
  PROVE  IsSite(Patch(prog, chosen, value), Len(prog), s) <=>
           s \in (first \ chosen) \cup {[t EXCEPT !.value = value] : t \in chosen}
<1> DEFINE patched == Patch(prog, chosen, value)
           after == (first \ chosen) \cup {[t EXCEPT !.value = value] : t \in chosen}
<1>1. prog \in Seq(Word) /\ Len(prog) \in Nat BY DEF Chosen
<1>2. SameShape(prog, patched) BY <1>1, PatchKeepsShape
<1>3. ASSUME NEW n \in 1 .. Len(prog), NEW k \in 1 .. Len(prog)
      PROVE  /\ IsPair(patched, k, n) <=> IsPair(prog, k, n)
             /\ IsLone(patched, k, n) <=> IsLone(prog, k, n)
  <2> HIDE DEF patched
  <2> QED BY <1>1, <1>2, ShapeDecides
<1>4. \A n : Orphan(prog[n], n).value = prog[n].imm BY DEF Orphan
<1>5. \A n, k : PairSite(prog, k, n).form = "SPLIT" /\ Orphan(prog[n], n).form = "ORPHAN"
  BY DEF PairSite, Orphan
<1>6. /\ \A t : t \in first <=> IsSite(prog, Len(prog), t)
      /\ chosen = {t \in first : t.form = form}
      /\ form = "SPLIT" => Accept(value)
      /\ form # "SPLIT" => form = "ORPHAN" /\ AcceptLow(value)
  BY DEF Chosen
<1>7. ASSUME NEW n \in 1 .. Len(prog), NEW k \in 1 .. Len(prog), IsPair(prog, k, n)
      PROVE  /\ PairSite(prog, k, n) \in first <=> Accept(PairSite(prog, k, n).value)
             /\ PairSite(prog, k, n) \in chosen =>
                  /\ form = "SPLIT"
                  /\ PairSite(patched, k, n) = [PairSite(prog, k, n) EXCEPT !.value = value]
             /\ PairSite(prog, k, n) \notin chosen => PairSite(patched, k, n) = PairSite(prog, k, n)
  <2> DEFINE p == PairSite(prog, k, n)
  <2>1. ASSUME Accept(p.value) PROVE p \in first
    <3>1. SiteOf(prog, k, n, p) BY <1>7, <2>1 DEF SiteOf
    <3> QED BY <1>6, <3>1 DEF IsSite
  <2>2. ASSUME p \in first PROVE Accept(p.value)
    <3>1. PICK m \in 1 .. Len(prog), j \in 1 .. Len(prog) : SiteOf(prog, j, m, p)
      BY <1>6, <2>2 DEF IsSite
    <3> QED BY <1>5, <3>1 DEF SiteOf
  <2>3. ASSUME p \in chosen
        PROVE  form = "SPLIT" /\ PairSite(patched, k, n) = [p EXCEPT !.value = value]
    <3>1. form = "SPLIT" /\ p \in first BY <1>5, <1>6, <2>3
    <3> QED BY <1>7, <2>2, <3>1, PatchedPair
  <2>4. p \notin chosen => PairSite(patched, k, n) = p BY <1>7, PatchedOther
  <2> QED BY <2>1, <2>2, <2>3, <2>4
<1>8. ASSUME NEW n \in 1 .. Len(prog), NEW k \in 1 .. Len(prog), IsLone(prog, k, n)
      PROVE  /\ Orphan(prog[n], n) \in first <=> AcceptLow(prog[n].imm)
             /\ Orphan(prog[n], n) \in chosen =>
                  /\ form = "ORPHAN"
                  /\ Orphan(patched[n], n) = [Orphan(prog[n], n) EXCEPT !.value = value]
             /\ Orphan(prog[n], n) \notin chosen => Orphan(patched[n], n) = Orphan(prog[n], n)
  <2> DEFINE o == Orphan(prog[n], n)
  <2>1. ASSUME AcceptLow(prog[n].imm) PROVE o \in first
    <3>1. SiteOf(prog, k, n, o) BY <1>4, <1>8, <2>1 DEF SiteOf
    <3> QED BY <1>6, <3>1 DEF IsSite
  <2>2. ASSUME o \in first PROVE AcceptLow(prog[n].imm)
    <3>1. PICK m \in 1 .. Len(prog), j \in 1 .. Len(prog) : SiteOf(prog, j, m, o)
      BY <1>6, <2>2 DEF IsSite
    <3> QED BY <1>4, <1>5, <3>1 DEF SiteOf
  <2>3. ASSUME o \in chosen
        PROVE  form = "ORPHAN" /\ Orphan(patched[n], n) = [o EXCEPT !.value = value]
    <3>1. form = "ORPHAN" /\ o \in first BY <1>5, <1>6, <2>3
    <3> QED BY <1>8, <2>2, <3>1, PatchedLone
  <2>4. o \notin chosen => Orphan(patched[n], n) = o BY <1>8, PatchedOther
  <2> QED BY <2>1, <2>2, <2>3, <2>4
<1> HIDE DEF patched
<1>9. \A n, k : [PairSite(prog, k, n) EXCEPT !.value = value].value = value
      /\ [Orphan(prog[n], n) EXCEPT !.value = value].value = value
  BY DEF PairSite, Orphan
<1>10. \A n : Orphan(patched[n], n).value = patched[n].imm BY DEF Orphan
\* What is reported of one pair, or of one word alone, before and after.
<1>11. ASSUME NEW n \in 1 .. Len(prog), NEW k \in 1 .. Len(prog), SiteOf(patched, k, n, s)
       PROVE  s \in after
  <2>1. CASE IsPair(prog, k, n) /\ s = PairSite(patched, k, n) /\ Accept(s.value)
    <3>1. CASE PairSite(prog, k, n) \in chosen BY <1>7, <2>1, <3>1
    <3>2. CASE PairSite(prog, k, n) \notin chosen BY <1>7, <2>1, <3>2
    <3> QED BY <3>1, <3>2
  <2>2. CASE IsLone(prog, k, n) /\ s = Orphan(patched[n], n) /\ AcceptLow(s.value)
    <3>1. CASE Orphan(prog[n], n) \in chosen BY <1>8, <2>2, <3>1
    <3>2. CASE Orphan(prog[n], n) \notin chosen BY <1>4, <1>8, <2>2, <3>2
    <3> QED BY <3>1, <3>2
  <2> QED BY <1>3, <1>11, <2>1, <2>2 DEF SiteOf
<1>12. ASSUME NEW t \in first
       PROVE  IF t \in chosen THEN IsSite(patched, Len(prog), [t EXCEPT !.value = value])
                              ELSE IsSite(patched, Len(prog), t)
  <2>1. PICK n \in 1 .. Len(prog), k \in 1 .. Len(prog) : SiteOf(prog, k, n, t)
    BY <1>6 DEF IsSite
  <2>2. CASE IsPair(prog, k, n) /\ t = PairSite(prog, k, n) /\ Accept(t.value)
    <3>1. IsPair(patched, k, n) BY <1>3, <2>2
    <3>2. CASE t \in chosen
      <4>1. PairSite(patched, k, n) = [t EXCEPT !.value = value] /\ Accept(value)
        BY <1>6, <1>7, <2>2, <3>2
      <4>2. Accept(PairSite(patched, k, n).value) BY <1>9, <2>2, <4>1
      <4>3. SiteOf(patched, k, n, PairSite(patched, k, n)) BY <3>1, <4>2 DEF SiteOf
      <4> QED BY <3>2, <4>1, <4>3 DEF IsSite
    <3>3. CASE t \notin chosen
      <4>1. PairSite(patched, k, n) = t BY <1>7, <2>2, <3>3
      <4>2. SiteOf(patched, k, n, t) BY <2>2, <3>1, <4>1 DEF SiteOf
      <4> QED BY <3>3, <4>2 DEF IsSite
    <3> QED BY <3>2, <3>3
  <2>3. CASE IsLone(prog, k, n) /\ t = Orphan(prog[n], n) /\ AcceptLow(t.value)
    <3>1. IsLone(patched, k, n) BY <1>3, <2>3
    <3>2. CASE t \in chosen
      <4>1. Orphan(patched[n], n) = [t EXCEPT !.value = value] /\ AcceptLow(value)
        BY <1>6, <1>8, <2>3, <3>2
      <4>2. AcceptLow(Orphan(patched[n], n).value) BY <1>9, <2>3, <4>1
      <4>3. SiteOf(patched, k, n, Orphan(patched[n], n)) BY <3>1, <4>2 DEF SiteOf
      <4> QED BY <3>2, <4>1, <4>3 DEF IsSite
    <3>3. CASE t \notin chosen
      <4>1. Orphan(patched[n], n) = t BY <1>8, <2>3, <3>3
      <4>2. SiteOf(patched, k, n, t) BY <2>3, <3>1, <4>1 DEF SiteOf
      <4> QED BY <3>3, <4>2 DEF IsSite
    <3> QED BY <3>2, <3>3
  <2> QED BY <2>1, <2>2, <2>3 DEF SiteOf
<1>13. ASSUME IsSite(patched, Len(prog), s) PROVE s \in after
  BY <1>11, <1>13 DEF IsSite
<1>14. ASSUME s \in after PROVE IsSite(patched, Len(prog), s)
  <2>1. CASE s \in first \ chosen BY <1>12, <2>1
  <2>2. CASE s \in {[t EXCEPT !.value = value] : t \in chosen}
    <3>1. PICK t \in chosen : s = [t EXCEPT !.value = value] BY <2>2
    <3>2. t \in first BY <1>6
    <3> QED BY <1>12, <3>1, <3>2
  <2> QED BY <1>14, <2>1, <2>2
<1> QED BY <1>13, <1>14 DEF patched

-----------------------------------------------------------------------------
(* Both passes. *)

\* What the second pass reads is what rewrite made of an image the first had read to its end.
Rewrote ==
  phase # "scan" =>
    \E prog \in Seq(Word), form \in {"SPLIT", "ORPHAN"} :
      /\ Chosen(prog, firstPass, rewritten, form, target)
      /\ code = Patch(prog, rewritten, target)

DeclaredInv ==
  /\ WritersAreBefore /\ PendingIsLastOp /\ SitesAreDeclared /\ Rewrote
  /\ phase = "done" => at = Len(code)

LEMMA StartDeclared ==
  Start => WritersAreBefore /\ PendingIsLastOp /\ SitesAreDeclared
<1> SUFFICES ASSUME Start PROVE WritersAreBefore /\ PendingIsLastOp /\ SitesAreDeclared
  OBVIOUS
<1>1. \A r \in Regs : pending[r] = None /\ lastOp[r] = None BY DEF Start, NoWord
<1>2. 1 .. at = {} /\ sites = {} BY DEF Start
<1> QED BY <1>1, <1>2
        DEF WritersAreBefore, PendingIsLastOp, SitesAreDeclared, IsSite, Live

LEMMA ReadDeclared ==
  ASSUME ScanTypes, Read, PassInv, WritersAreBefore, PendingIsLastOp, SitesAreDeclared
  PROVE  WritersAreBefore' /\ PendingIsLastOp' /\ SitesAreDeclared'
BY WritersStep, PendingLastOpStep, DeclaredStep DEF PassInv

LEMMA RewriteDeclared ==
  ASSUME ScanTypes, Control, SitesAreDeclared, NEW form \in {"SPLIT", "ORPHAN"},
         NEW value \in Values, Rewrite(form, value)
  PROVE  Rewrote'
<1>1. at = Len(code) /\ code \in Seq(Word) /\ sites \subseteq Site
  BY DEF ScanTypes, Control, Rewrite
<1>2. /\ firstPass' = sites /\ rewritten' = {s \in sites : s.form = form} /\ target' = value
      /\ code' = Patch(code, rewritten', value)
      /\ IF form = "SPLIT" THEN Accept(value) ELSE value \in Imms /\ AcceptLow(value)
  BY DEF Rewrite
<1>3. Chosen(code, firstPass', rewritten', form, target')
  BY <1>1, <1>2 DEF Chosen, SitesAreDeclared
<1>4. PICK prog \in Seq(Word) : prog = code BY <1>1
<1>5. Chosen(prog, firstPass', rewritten', form, target') /\ code' = Patch(prog, rewritten', target')
  BY <1>2, <1>3, <1>4
<1> QED BY <1>5 DEF Rewrote

LEMMA DeclaredHolds == Spec => []DeclaredInv
<1> DEFINE Inv == ScanTypes /\ Control /\ PassInv /\ DeclaredInv
<1>1. Init => Inv
  <2>1. Init => phase = "scan" BY DEF Init
  <2> QED BY <2>1, InitStarts, StartTypes, StartInv, StartDeclared DEF DeclaredInv, Rewrote
<1>2. Inv /\ [Next]_vars => Inv'
  <2> SUFFICES ASSUME ScanTypes, Control, PassInv, DeclaredInv, [Next]_vars PROVE Inv' OBVIOUS
  <2>1. ScanTypes' /\ Control' BY Steps
  <2>2. CASE \E w \in Instructions : Scan(w)
    <3>1. Read /\ phase' = "scan" BY <2>2, ScanReads DEF Scan
    <3>2. PassInv' BY <3>1, ReadInv
    <3>3. WritersAreBefore' /\ PendingIsLastOp' /\ SitesAreDeclared'
      BY <3>1, ReadDeclared DEF DeclaredInv
    <3> QED BY <2>1, <3>1, <3>2, <3>3 DEF DeclaredInv, Rewrote
  <2>3. CASE Rescan
    <3>1. Read BY <2>3, RescanReads
    <3>2. PassInv' BY <3>1, ReadInv
    <3>3. WritersAreBefore' /\ PendingIsLastOp' /\ SitesAreDeclared'
      BY <3>1, ReadDeclared DEF DeclaredInv
    <3>4. UNCHANGED <<code, firstPass, rewritten, target>> /\ phase = "rescan" BY <2>3 DEF Rescan
    <3>5. Rewrote' BY <3>4 DEF DeclaredInv, Rewrote
    <3>6. phase' = "done" => at' = Len(code') BY <2>3 DEF Rescan
    <3> QED BY <2>1, <3>2, <3>3, <3>5, <3>6 DEF DeclaredInv
  <2>4. CASE \E form \in {"SPLIT", "ORPHAN"}, value \in Values : Rewrite(form, value)
    <3>1. PICK form \in {"SPLIT", "ORPHAN"}, value \in Values : Rewrite(form, value) BY <2>4
    <3>2. Start' /\ phase' = "rescan" BY <3>1, RewriteStarts DEF Rewrite
    <3>3. PassInv' BY <3>2, StartInv, PTL
    <3>4. WritersAreBefore' /\ PendingIsLastOp' /\ SitesAreDeclared' BY <3>2, StartDeclared, PTL
    <3>5. Rewrote' BY <3>1, RewriteDeclared DEF DeclaredInv
    <3> QED BY <2>1, <3>2, <3>3, <3>4, <3>5 DEF DeclaredInv
  <2>5. CASE UNCHANGED vars
    <3>1. PassInv' BY <2>5, IdleInv
    <3>2. DeclaredInv' BY <2>5 DEF DeclaredInv, vars, WritersAreBefore, PendingIsLastOp,
                                   SitesAreDeclared, Rewrote
    <3> QED BY <2>1, <3>1, <3>2
  <2> QED BY <2>2, <2>3, <2>4, <2>5 DEF Next
<1> QED BY <1>1, <1>2, PTL DEF Spec

\* Gate 45, for an image of any length and any window: after a rewrite the reader recovers
\* the same offsets with the new value, and what was not rewritten as it was.
THEOREM ReaderAndWriterAgree == Spec => []ReadWriteAgreement
<1>1. DeclaredInv => ReadWriteAgreement
  <2> SUFFICES ASSUME DeclaredInv, phase = "done"
               PROVE  sites = (firstPass \ rewritten)
                                \cup {[s EXCEPT !.value = target] : s \in rewritten}
    BY DEF ReadWriteAgreement
  <2>1. PICK prog \in Seq(Word), form \in {"SPLIT", "ORPHAN"} :
          /\ Chosen(prog, firstPass, rewritten, form, target)
          /\ code = Patch(prog, rewritten, target)
    BY DEF DeclaredInv, Rewrote
  <2>2. at = Len(prog)
    <3>1. rewritten \in SUBSET Site /\ target \in Values BY <2>1 DEF Chosen
    <3> QED BY <2>1, <3>1, PatchType DEF DeclaredInv
  <2>3. \A s : s \in sites <=> IsSite(Patch(prog, rewritten, target), Len(prog), s)
    BY <2>1, <2>2 DEF DeclaredInv, SitesAreDeclared
  <2>4. \A s : s \in sites <=> s \in (firstPass \ rewritten)
                                       \cup {[t EXCEPT !.value = target] : t \in rewritten}
    BY <2>1, <2>3, PatchDeclares
  <2> QED BY <2>4
<1> QED BY <1>1, DeclaredHolds, PTL
=============================================================================
