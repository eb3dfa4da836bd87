------------------------------- MODULE SplitImm -------------------------------
(***************************************************************************)
(* dq4/splitimm.py: the references the code CONSTRUCTS with a lui and a    *)
(* low half.  find() as the one linear pass it is, beside the machine that *)
(* executes the same words; rewrite() of what it found, and the second     *)
(* pass by which gate 45 of verify.py judges reader and writer together.   *)
(*                                                                         *)
(* A word is what splitimm decodes of it: a class of opcodes, three        *)
(* registers and an immediate.  Words are numbered from 1, so a number     *)
(* stands for a byte offset (base + 4 * (n - 1)), and 0 for None.          *)
(***************************************************************************)
EXTENDS Integers, Sequences

CONSTANTS
  Half,          \* 2^16: an immediate is in 0 .. Half - 1
  Window,        \* instructions a pending lui stays live
  Regs, Zero, Ra,
  Instructions,  \* the words an image is made of
  Span,          \* 2^20: a reference is Tid * Span + a bit offset
  Tid, Starts,   \* a text block, and the bit offsets at which its strings start
  Unknown,       \* what a register holds when the words before do not tell
  MaxWords       \* bound: words of an image

Values == 0 .. Half * Half - 1
Imms   == 0 .. Half - 1
None   == 0

\* The opcodes writes() tells apart: those that write rd, rt or ra, and those that write
\* no register or are not recognised.
WritesRd == {"alu", "jalr"}
WritesRt == {"lui", "ori", "addiu", "imm", "load", "mfc"}
WritesRa == {"jal", "branch_link"}
WritesNo == {"j", "jr", "branch", "store", "muldiv", "other"}

Word == [op : WritesRd \cup WritesRt \cup WritesRa \cup WritesNo,
         rs : Regs, rt : Regs, rd : Regs, imm : Imms]

ASSUME HalfAssumption == Half \in Nat /\ Half > 1 /\ Half % 2 = 0

ASSUME SplitAssumption ==
  /\ Window \in Nat /\ MaxWords \in Nat
  /\ Zero \in Regs /\ Ra \in Regs
  /\ Instructions \subseteq Word
  /\ Span \in Nat \ {0} /\ Tid \in Nat /\ Starts \subseteq Nat
  /\ Unknown \notin Values

----------------------------------------------------------------------------
(* Values and halves. *)

Compose(hi, lo, op) ==
  IF op = "addiu" /\ 2 * lo >= Half THEN (hi * Half + lo - Half) % (Half * Half)
                                    ELSE hi * Half + lo

\* Mutants of Halves: no carry into the high half; a carry out of it.
HalvesNoCarry(value, op) == <<value \div Half, value % Half>>
HalvesNoWrap(value, op) ==
  <<IF op = "addiu" THEN (value + Half \div 2) \div Half ELSE value \div Half, value % Half>>

Halves(value, op) ==
  <<IF op = "addiu" THEN ((value + Half \div 2) \div Half) % Half ELSE value \div Half,
    value % Half>>

\* find_word_refs: what a composed value, and what a low half alone, has to be.
Accept(value) == value \div Span = Tid /\ value % Span \in Starts
AcceptLow(imm) == imm \in Starts

----------------------------------------------------------------------------
VARIABLES
  code,      \* the image
  phase,     \* "scan", then "rescan" and "done"
  at,        \* the words the pass has read
  pending,   \* register -> the lui it is pending for, or None
  lastOp,    \* register -> the word that last wrote it, or None
  sites,     \* what the pass has reported
  firstPass, \* what the first pass had, when rewrite was called
  rewritten, \* the sites handed to rewrite
  target,    \* the value it stored in them
  regs,      \* the machine: what each register holds, as far as it can be known
  held       \* the machine: what each word left in the register it writes

vars == <<code, phase, at, pending, lastOp, sites, firstPass, rewritten, target, regs, held>>

----------------------------------------------------------------------------
(* The pass: one word of find(), with its tests in their order. *)

\* Mutant of Writes: loads do not clobber.
WritesNoLoads(w) ==
  CASE w.op \in WritesRd -> {w.rd}
    [] w.op \in WritesRt \ {"load"} -> {w.rt}
    [] w.op \in WritesRa -> {Ra}
    [] OTHER -> {}

Writes(w) ==
  CASE w.op \in WritesRd -> {w.rd}
    [] w.op \in WritesRt -> {w.rt}
    [] w.op \in WritesRa -> {Ra}
    [] OTHER -> {}

\* Mutant of Live: one instruction short.
LiveStrictly(n, since) == since # None /\ n - since < Window

Live(n, since) == since # None /\ n - since <= Window

\* A lui has no source register; a word that names one is some other encoding.
IsLui(w) == w.op = "lui" /\ w.rs = Zero
IsLow(w) == w.op \in {"ori", "addiu"} /\ w.rs = w.rt

Pairs(w, n) == IsLow(w) /\ Live(n, pending[w.rt])

\* Mutant of IsOrphan: any write will do for a high half.
IsOrphanOfAny(prog, n) ==
  LET w == prog[n] IN
    /\ IsLow(w) /\ ~Live(n, pending[w.rt])
    /\ w.op = "ori" /\ AcceptLow(w.imm)
    /\ Live(n, lastOp[w.rt])

\* A low half alone is credited when its register was loaded, and not too long ago.
IsOrphan(prog, n) ==
  LET w == prog[n] IN
    /\ IsLow(w) /\ ~Live(n, pending[w.rt])
    /\ w.op = "ori" /\ AcceptLow(w.imm)
    /\ Live(n, lastOp[w.rt]) /\ prog[lastOp[w.rt]].op = "load"

Split(prog, n) ==
  LET w == prog[n] IN
    [form |-> "SPLIT", hi |-> pending[w.rt], lo |-> n, op |-> w.op, reg |-> w.rt,
     value |-> Compose(prog[pending[w.rt]].imm, w.imm, w.op)]

Orphan(w, n) ==
  [form |-> "ORPHAN", hi |-> None, lo |-> n, op |-> w.op, reg |-> w.rt, value |-> w.imm]

Found(prog, n) ==
  IF Pairs(prog[n], n)
    THEN {s \in {Split(prog, n)} : Accept(s.value)}
    ELSE {s \in {Orphan(prog[n], n)} : IsOrphan(prog, n)}

\* Mutant of Cleared: a lui that has been used stays pending.
ClearedUnlessPaired(prog, n) ==
  IF Pairs(prog[n], n) \/ IsOrphan(prog, n) THEN {} ELSE Writes(prog[n])

\* The registers no lui is pending for any more: a pair is consumed, accepted or not.
Cleared(prog, n) ==
  IF Pairs(prog[n], n) THEN {prog[n].rt}
  ELSE IF IsOrphan(prog, n) THEN {} ELSE Writes(prog[n])

ScanWord(prog, n) ==
  /\ sites' = sites \cup Found(prog, n)
  /\ pending' = [r \in Regs |-> IF IsLui(prog[n]) /\ r = prog[n].rt THEN n
                                ELSE IF r \in Cleared(prog, n) THEN None ELSE pending[r]]
  /\ lastOp' = [r \in Regs |-> IF r \in Writes(prog[n]) THEN n ELSE lastOp[r]]

----------------------------------------------------------------------------
(* The machine, on the path that takes no branch.  Behind the delay slot of a jump or a    *)
(* call nothing is known of the registers but the hardwired zero.                          *)

Jumps     == {"j", "jr"}
Transfers == Jumps \cup WritesRa \cup {"jalr"}

Dest(w) ==
  CASE w.op \in {"alu", "jalr"} -> {w.rd} \ {Zero}
    [] w.op \in {"jal", "branch_link"} -> {Ra} \ {Zero}
    [] w.op \in {"lui", "ori", "addiu", "imm", "load", "mfc"} -> {w.rt} \ {Zero}
    [] OTHER -> {}

\* What is known of the registers when nothing is.
Nothing == [r \in Regs |-> IF r = Zero THEN 0 ELSE Unknown]

Before(prog, n) ==
  IF n > 2 /\ prog[n - 2].op \in Transfers THEN Nothing ELSE regs

\* An OR is computed where its operands share no bit, which is all a pair needs.
Result(w, source) ==
  CASE IsLui(w) -> w.imm * Half
    [] w.op = "addiu" /\ source # Unknown ->
         (source + IF 2 * w.imm >= Half THEN w.imm - Half ELSE w.imm) % (Half * Half)
    [] w.op = "ori" /\ source # Unknown /\ source % Half = 0 -> source + w.imm
    [] OTHER -> Unknown

Execute(prog, n) ==
  LET w == prog[n]
      before == Before(prog, n)
      result == Result(w, before[w.rs])
  IN /\ regs' = [r \in Regs |-> IF r \in Dest(w) THEN result ELSE before[r]]
     /\ held' = Append(held, IF Dest(w) = {} THEN Unknown ELSE result)

----------------------------------------------------------------------------
NoWord == [r \in Regs |-> None]

Init ==
  /\ code = <<>> /\ at = 0
  /\ phase = "scan"
  /\ pending = NoWord /\ lastOp = NoWord /\ sites = {}
  /\ regs = Nothing /\ held = <<>>
  /\ firstPass = {} /\ rewritten = {} /\ target = 0

\* The next word of the image, whatever it is.
Scan(w) ==
  /\ phase = "scan" /\ at < MaxWords
  /\ at' = at + 1
  /\ code' = Append(code, w)
  /\ ScanWord(code', at')
  /\ Execute(code', at')
  /\ UNCHANGED <<phase, firstPass, rewritten, target>>

\* rewrite: each site by the rule of its own low half, both halves or the one there is.
Patch(prog, chosen, value) ==
  [n \in DOMAIN prog |->
     IF \E s \in chosen : s.hi = n
       THEN [prog[n] EXCEPT !.imm = Halves(value, (CHOOSE s \in chosen : s.hi = n).op)[1]]
     ELSE IF \E s \in chosen : s.lo = n
       THEN [prog[n] EXCEPT !.imm = Halves(value, (CHOOSE s \in chosen : s.lo = n).op)[2]]
     ELSE prog[n]]

\* Gate 45: the paired sites to another reference, or the lone ones to another start.
Rewrite(form, value) ==
  /\ phase = "scan"
  /\ \E s \in sites : s.form = form
  /\ IF form = "SPLIT" THEN Accept(value) ELSE value \in Imms /\ AcceptLow(value)
  /\ phase' = "rescan"
  /\ firstPass' = sites
  /\ rewritten' = {s \in sites : s.form = form}
  /\ target' = value
  /\ code' = Patch(code, rewritten', value)
  /\ at' = 0
  /\ pending' = NoWord /\ lastOp' = NoWord /\ sites' = {}
  /\ regs' = Nothing /\ held' = <<>>

Rescan ==
  /\ phase = "rescan"
  /\ at' = at + 1
  /\ ScanWord(code, at')
  /\ Execute(code, at')
  /\ phase' = IF at' = Len(code) THEN "done" ELSE "rescan"
  /\ UNCHANGED <<code, firstPass, rewritten, target>>

Next ==
  \/ \E w \in Instructions : Scan(w)
  \/ \E form \in {"SPLIT", "ORPHAN"}, value \in Values : Rewrite(form, value)
  \/ Rescan

Spec == Init /\ [][Next]_vars

----------------------------------------------------------------------------
(* Properties. *)

Site == [form : {"SPLIT", "ORPHAN"}, hi : Nat, lo : Nat, op : {"ori", "addiu"}, reg : Regs,
         value : Values]

TypeOK ==
  /\ code \in Seq(Word)
  /\ phase \in {"scan", "rescan", "done"}
  /\ at \in 0 .. Len(code) /\ (phase = "scan" => at = Len(code))
  /\ pending \in [Regs -> 0 .. at] /\ lastOp \in [Regs -> 0 .. at]
  /\ sites \subseteq Site /\ firstPass \subseteq Site /\ rewritten \subseteq Site
  /\ target \in Values
  /\ regs \in [Regs -> Values \cup {Unknown}]
  /\ held \in Seq(Values \cup {Unknown}) /\ Len(held) = at

\* Is there the delay slot of a jump or a call between two words?
Crosses(ops, hi, lo) == \E k \in DOMAIN code : code[k].op \in ops /\ hi <= k + 1 /\ k + 1 < lo

\* "The composed value exists only in a register at runtime": at every SPLIT site in a
\* register that can hold one, the machine that runs straight from the lui to the low half
\* holds exactly the reported value, on the image as found and as rewritten.
SplitIsReal ==
  \A s \in sites : s.form = "SPLIT" /\ s.reg # Zero /\ ~Crosses(Transfers, s.hi, s.lo) =>
    held[s.lo] = s.value

\* No blind spot inside the window: a lui and a low half of its register with no write to
\* the register between them, which make up a reference, are always reported, and as a pair.
Complete ==
  \A lo \in 1 .. at, hi \in 1 .. at :
    LET l == code[lo]  h == code[hi] IN
      /\ hi < lo /\ lo - hi <= Window
      /\ IsLow(l) /\ IsLui(h) /\ h.rt = l.rt /\ l.rt # Zero
      /\ \A k \in hi + 1 .. lo - 1 : l.rt \notin Dest(code[k])
      /\ Accept(Compose(h.imm, l.imm, l.op))
      => \E s \in sites : s.form = "SPLIT" /\ s.hi = hi /\ s.lo = lo

\* "A missed lui is not laundered into an orphan": the last word to write the register of an
\* ORPHAN is a load.
OrphanIsLoaded ==
  \A s \in sites : s.form = "ORPHAN" /\ s.reg # Zero =>
    \E k \in 1 .. s.lo - 1 :
      /\ code[k].op = "load" /\ code[k].rt = s.reg
      /\ \A j \in k + 1 .. s.lo - 1 : s.reg \notin Dest(code[j])

\* No half belongs to two sites: rewriting one site never undoes another.
OneSitePerHalf ==
  \A s, t \in sites : s # t => s.lo # t.lo /\ (s.form = "SPLIT" => s.hi # t.hi)

\* Gate 45: after a rewrite the reader recovers the same offsets with the new value, and the
\* sites that were not rewritten as they were.
ReadWriteAgreement ==
  phase = "done" =>
    sites = (firstPass \ rewritten) \cup {[s EXCEPT !.value = target] : s \in rewritten}

\* The recognizer "will cross a jump" is what an earlier scanner is blamed for: a pair is
\* never taken from the two sides of an unconditional jump.
NoPairAcrossJump ==
  \A s \in sites : s.form = "SPLIT" /\ s.reg # Zero => ~Crosses(Jumps, s.hi + 1, s.lo)
=============================================================================
