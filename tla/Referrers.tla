------------------------------ MODULE Referrers ------------------------------
(***************************************************************************)
(* dq4/referrers.py, the suffix rule of dq4/corpus.py and gate 44 of       *)
(* verify.py: the words that point into the text blocks of an archive are  *)
(* surveyed, strings the survey calls editable are edited, the archive is  *)
(* written again with every known word rewritten, and gate 44 looks at all *)
(* copies of what was edited.                                              *)
(*                                                                         *)
(* An archive is the sequence of its sub-blocks.  The body of a sub-block  *)
(* is a sequence of cells: a word, the dialogue command of a script, or a  *)
(* text block; the raw body of a compressed one is a single cell.  Strings *)
(* are numbered from 1, and their codes have fixed lengths.                *)
(***************************************************************************)
EXTENDS Integers, Sequences

CONSTANTS
  Span,         \* 2^20: a word is text id * Span + bit offset from the block base
  RecordWords,  \* T26_RECORD_WORDS
  RefWords,     \* T26_REF_WORDS
  CodeBits,     \* bits of a code, for each kind of symbol
  Discs,        \* the archives a build may start from
  NewStrings,   \* what a string may be edited to
  MaxBuilds     \* bound: builds, each upon the one before

ASSUME SizeAssumption ==
  /\ Span \in Nat \ {0} /\ RecordWords \in Nat \ {0} /\ RefWords \in 0 .. RecordWords
  /\ MaxBuilds \in Nat

TextTypes == {40, 42}

\* Symbols, text blocks, and the cells of a body.
Kinds   == {"SJIS", "CTRL", "DICT"}
Symbols == [kind : {"SJIS", "CTRL"}] \cup [kind : {"DICT"}, phrase : Nat]
Blocks  == [id : Nat, c : Nat, strings : Seq(Seq(Symbols)), entries : Seq(SUBSET Kinds), tail : Seq(Nat),
            tree : BOOLEAN]
Cells   == [kind : {"word"}, word : Nat] \cup [kind : {"block"}, block : Blocks] \cup [kind : {"command"}]

ASSUME CodeAssumption == CodeBits \in [Kinds \cup {"END"} -> Nat \ {0}]

VARIABLES
  phase,    \* "survey", "edit", "write", "gate" or "done"
  builds,   \* builds written so far
  base,     \* observation: the archive before the first build
  disc,     \* the archive
  index,    \* text id -> the first block that has it
  refs,     \* what the survey has found: [slot, system, string]
  edited,   \* text id -> its strings with the edits of this build
  damage,   \* what the build got wrong, and at which sub-block
  verdict   \* of gate 44

vars == <<phase, builds, base, disc, index, refs, edited, damage, verdict>>

NoDamage == [kind |-> "none", sub |-> 0]

----------------------------------------------------------------------------
(* Blocks and their strings. *)

\* The codes of a string, and that of its end.
Bits(string) ==
  LET sum[k \in 0 .. Len(string)] ==
        IF k = 0 THEN CodeBits["END"] ELSE sum[k - 1] + CodeBits[string[k].kind]
  IN sum[Len(string)]

\* Where each string of a block begins, and last where the residue begins.
Starts(block) ==
  LET from[i \in 1 .. Len(block.strings) + 1] ==
        IF i = 1 THEN 0 ELSE from[i - 1] + Bits(block.strings[i - 1])
  IN from

\* The kinds of symbol a string has once its phrases are expanded.
Expanded(block, i) ==
  UNION {IF block.strings[i][k].kind # "DICT" THEN {block.strings[i][k].kind}
         ELSE IF block.strings[i][k].phrase \in DOMAIN block.entries
              THEN block.entries[block.strings[i][k].phrase]
              ELSE {"BAD"} : k \in DOMAIN block.strings[i]}

\* nchar or nctrl: a string that has neither encodes nothing and is no barrier.
HasSymbols(block, i) == Expanded(block, i) \cap {"SJIS", "CTRL"} # {}

\* The words that name its strings can hold every offset into it.
Addressable(block) == block.c + Starts(block)[Len(block.strings) + 1] < Span

Unpacked(sub) == IF sub.lzs THEN sub.raw[1].of ELSE sub.raw

Block(d, s) == d[s].raw[1].block

Least(set) == CHOOSE s \in set : \A t \in set : s <= t

TextSubs(d) == {s \in DOMAIN d : d[s].type \in TextTypes}
Carrier(d, tid) == Least({s \in TextSubs(d) : Block(d, s).id = tid})
BlockIndex(d) ==
  [tid \in {Block(d, s).id : s \in TextSubs(d)} |-> Block(d, Carrier(d, tid))]

\* The executable, which is beside the archive, has the place of a sub-block of type 0.
Executable(d) == {s \in DOMAIN d : d[s].type = 0}

\* A sub-block that is what its header says.
Readable(sub) ==
  /\ DOMAIN sub = {"type", "lzs", "raw"} /\ sub.type \in Nat /\ sub.lzs \in BOOLEAN
  /\ sub.lzs => Len(sub.raw) = 1 /\ sub.raw[1].kind = "lzs"
  /\ Unpacked(sub) \in Seq(Cells)
  /\ sub.type \in TextTypes => ~sub.lzs /\ Len(sub.raw) = 1 /\ sub.raw[1].kind = "block"

\* "Blocks sharing an id are byte-identical on this disc, 0 ids have differing copies."
CopiesAgree(d) == \A s, t \in TextSubs(d) : Block(d, s).id = Block(d, t).id => Block(d, s) = Block(d, t)

\* A disc as it is found, and the edits that are made: of text that shows.
ASSUME DiscAssumption ==
  \A d \in Discs :
    /\ DOMAIN d \subseteq Nat \ {0}
    /\ \A s \in DOMAIN d : Readable(d[s])
    /\ \A s \in TextSubs(d) : Addressable(Block(d, s))
    /\ CopiesAgree(d)
    /\ \A s \in Executable(d) : ~d[s].lzs
    /\ \A s \in DOMAIN d : \A p \in DOMAIN Unpacked(d[s]) :
         Unpacked(d[s])[p].kind = "block" => Unpacked(d[s])[p].block.tree
ASSUME EditAssumption ==
  /\ NewStrings \subseteq Seq(Symbols)
  /\ \A string \in NewStrings : \E k \in DOMAIN string : string[k].kind # "DICT"

----------------------------------------------------------------------------
(* build: which words name which strings. *)

\* The one string a word names, as a set; empty where _resolve returns None.
Resolve(x, w) ==
  UNION {{<<tid, i>> : i \in {j \in DOMAIN x[tid].strings : x[tid].c + Starts(x[tid])[j] = w % Span}}
         : tid \in {w \div Span} \cap DOMAIN x}

\* One sub-block of each content.
Distinct(d, type) ==
  {s \in DOMAIN d : /\ d[s].type = type
                    /\ \A t \in DOMAIN d : t < s /\ d[t].type = type => Unpacked(d[t]) # Unpacked(d[s])}

IsWord(d, s, p) == Unpacked(d[s])[p].kind = "word"

LookupSlots(d) ==
  UNION {{<<Carrier(d, tid), 1, j>> : j \in DOMAIN BlockIndex(d)[tid].tail} : tid \in DOMAIN BlockIndex(d)}

TableSlots(d) ==
  UNION {{<<s, p, 0>> : p \in {q \in DOMAIN Unpacked(d[s]) : (q - 1) % RecordWords < RefWords /\ IsWord(d, s, q)}}
         : s \in Distinct(d, 26)}

RosterSlots(d) ==
  UNION {{<<s, p, 0>> : p \in {q \in DOMAIN Unpacked(d[s]) : IsWord(d, s, q)}} : s \in Distinct(d, 44)}

\* Mutant of ScriptSlots: commands at even places only, a quarter of the stream or less.
ScriptSlotsAligned(d) ==
  UNION {{<<s, p, 0>> : p \in {q \in DOMAIN Unpacked(d[s]) :
            q > 1 /\ q % 2 = 0 /\ Unpacked(d[s])[q - 1].kind = "command" /\ IsWord(d, s, q)}}
         : s \in Distinct(d, 39)}

\* A word behind the command, wherever in the stream that is.
ScriptSlots(d) ==
  UNION {{<<s, p, 0>> : p \in {q \in DOMAIN Unpacked(d[s]) :
            q > 1 /\ Unpacked(d[s])[q - 1].kind = "command" /\ IsWord(d, s, q)}}
         : s \in Distinct(d, 39)}

WordAt(d, slot) ==
  LET cell == Unpacked(d[slot[1]])[slot[2]]
  IN IF cell.kind = "block" THEN cell.block.tail[slot[3]] ELSE cell.word

SlotsOf(d) ==
  [LOOKUP |-> LookupSlots(d), TABLE |-> TableSlots(d), ROSTER |-> RosterSlots(d), SCRIPT |-> ScriptSlots(d)]

Build(d, x) ==
  UNION {UNION {{[slot |-> slot, system |-> system, string |-> string] : string \in Resolve(x, WordAt(d, slot))}
                : slot \in SlotsOf(d)[system]} : system \in DOMAIN SlotsOf(d)}

\* The strings of a block that some word is known to name.
Referred(found, tid) == {r.string[2] : r \in {q \in found : q.string[1] = tid}}

----------------------------------------------------------------------------
(* The suffix rule. *)

Unresolved(tid) ==
  {i \in DOMAIN index[tid].strings : i \notin Referred(refs, tid) /\ HasSymbols(index[tid], i)}

\* Mutant of Editable: the strings from the first unresolved one on.
EditableFromFirst(tid, i) == Unresolved(tid) # {} => \E u \in Unresolved(tid) : u <= i

\* uk is None or i >= uk.
Editable(tid, i) == \A u \in Unresolved(tid) : u <= i

Survey ==
  /\ phase = "survey" /\ builds < MaxBuilds
  /\ index' = BlockIndex(disc)
  /\ refs' = Build(disc, BlockIndex(disc))
  /\ edited' = [tid \in {} |-> <<>>]
  /\ phase' = "edit"
  /\ UNCHANGED <<builds, base, disc, damage, verdict>>

----------------------------------------------------------------------------
(* A build, which is not in the repository: the strings the survey allows, *)
(* every copy of their blocks, and every word of the survey.               *)

Edit(tid, i, string) ==
  /\ phase = "edit"
  /\ Editable(tid, i) /\ string # index[tid].strings[i]
  /\ Addressable([index[tid] EXCEPT !.strings = [@ EXCEPT ![i] = string]])
  /\ edited' = [t \in {tid} |-> [index[tid].strings EXCEPT ![i] = string]]
  /\ phase' = "write"
  /\ UNCHANGED <<builds, base, disc, index, refs, damage, verdict>>

New(tid) == IF tid \in DOMAIN edited THEN [index[tid] EXCEPT !.strings = edited[tid]] ELSE index[tid]

\* A word the survey has listed, at the new start of the string it names.
Repointed(slot, w) ==
  IF \E r \in refs : r.slot = slot
  THEN LET string == (CHOOSE r \in refs : r.slot = slot).string
           tid == string[1]
       IN tid * Span + New(tid).c + Starts(New(tid))[string[2]]
  ELSE w

\* A block of the archive as the build has it, the records of its tail rewritten.
NewBlock(tid) ==
  [New(tid) EXCEPT !.tail =
     [j \in DOMAIN New(tid).tail |-> Repointed(<<Carrier(disc, tid), 1, j>>, New(tid).tail[j])]]

\* The sub-block of the same content that the survey has looked at.
Surveyed(d, s) ==
  Least({t \in DOMAIN d : d[t].type = d[s].type /\ Unpacked(d[t]) = Unpacked(d[s])})

NewBody(s) ==
  [p \in DOMAIN Unpacked(disc[s]) |->
     LET cell == Unpacked(disc[s])[p]
     IN CASE cell.kind = "block" /\ cell.block.id \in DOMAIN index -> [cell EXCEPT !.block = NewBlock(@.id)]
          [] cell.kind = "word" -> [cell EXCEPT !.word = Repointed(<<Surveyed(disc, s), p, 0>>, @)]
          [] OTHER -> cell]

Malformed(body) ==
  [p \in DOMAIN body |-> IF body[p].kind = "block" THEN [body[p] EXCEPT !.block.tree = FALSE] ELSE body[p]]

\* A sub-block as the build leaves it: missed, one that will not decompress, or one
\* whose blocks have lost their structure, at most once a build.
Left(s, dam) ==
  LET how  == IF dam.sub = s THEN dam.kind ELSE "none"
      body == IF how = "malformed" THEN Malformed(NewBody(s)) ELSE NewBody(s)
  IN CASE how = "missed" -> disc[s]
       [] how = "broken" -> [disc[s] EXCEPT !.raw = <<[kind |-> "junk"]>>]
       [] OTHER -> [disc[s] EXCEPT !.raw = IF disc[s].lzs THEN <<[kind |-> "lzs", of |-> body]>> ELSE body]

HoldsEdited(s) ==
  \E p \in DOMAIN Unpacked(disc[s]) :
    Unpacked(disc[s])[p].kind = "block" /\ Unpacked(disc[s])[p].block.id \in DOMAIN edited

Damages ==
  {NoDamage} \cup
  {[kind |-> how, sub |-> s] : how \in {"missed", "malformed"}, s \in {t \in DOMAIN disc : HoldsEdited(t)}} \cup
  {[kind |-> "broken", sub |-> s] : s \in {t \in DOMAIN disc : disc[t].lzs}}

Write ==
  /\ phase = "write"
  /\ damage' \in Damages
  /\ disc' = [s \in DOMAIN disc |-> Left(s, damage')]
  /\ builds' = builds + 1
  /\ phase' = "gate"
  /\ UNCHANGED <<base, index, refs, edited, verdict>>

----------------------------------------------------------------------------
(* Gate 44. *)

Unexaminable(d) == {s \in DOMAIN d : d[s].lzs /\ d[s].raw[1].kind = "junk"}

\* scan_image, and exe_blocks for the executable: the blocks whose structure holds.
ScanImage(body) == {p \in DOMAIN body : body[p].kind = "block" /\ body[p].block.tree}

Copies(d, s, tid) == {<<s, p>> : p \in {q \in ScanImage(Unpacked(d[s])) : Unpacked(d[s])[q].block.id = tid}}

\* Mutant of CarriersOf: the sub-blocks only, without the executable (exe is None).
CarriersOfArchive(d, tid) ==
  UNION {Copies(d, s, tid) : s \in DOMAIN d \ (Unexaminable(d) \cup Executable(d))}

CarriersOf(d, tid) ==
  (UNION {Copies(d, s, tid) : s \in Executable(d)}) \cup
  (UNION {Copies(d, s, tid) : s \in DOMAIN d \ (Unexaminable(d) \cup Executable(d))})

\* raw[off : off + a]: the block without the records behind its self pointer.
Payload(d, carrier) == [Unpacked(d[carrier[1]])[carrier[2]].block EXCEPT !.tail = <<>>]

Gate44(d, ids) ==
  /\ ids # {} /\ Unexaminable(d) = {}
  /\ \A tid \in ids : \A a, b \in CarriersOf(d, tid) : Payload(d, a) = Payload(d, b)

Check ==
  /\ phase = "gate"
  /\ verdict' = IF Gate44(disc, DOMAIN edited) THEN "pass" ELSE "fail"
  /\ phase' = "done"
  /\ UNCHANGED <<builds, base, disc, index, refs, edited, damage>>

\* No handler is around exe_blocks: what looks like a block there and is none ends the verifier.
Raise ==
  /\ phase = "gate"
  /\ \E s \in Executable(disc) : \E p \in DOMAIN Unpacked(disc[s]) \ ScanImage(Unpacked(disc[s])) :
       Unpacked(disc[s])[p].kind = "block"
  /\ phase' = "done"
  /\ UNCHANGED <<builds, base, disc, index, refs, edited, damage, verdict>>

\* A further build starts from the last one if nothing went wrong, and from the base if not.
Again ==
  /\ phase = "done" /\ builds < MaxBuilds
  /\ disc' = IF damage = NoDamage THEN disc ELSE base
  /\ index' = [tid \in {} |-> <<>>] /\ refs' = {} /\ edited' = [tid \in {} |-> <<>>]
  /\ damage' = NoDamage /\ verdict' = "none"
  /\ phase' = "survey"
  /\ UNCHANGED <<builds, base>>

----------------------------------------------------------------------------

Init ==
  /\ phase = "survey" /\ builds = 0
  /\ base \in Discs /\ disc = base
  /\ index = [tid \in {} |-> <<>>] /\ refs = {}
  /\ edited = [tid \in {} |-> <<>>]
  /\ damage = NoDamage /\ verdict = "none"

Next ==
  \/ Survey
  \/ \E tid \in DOMAIN index : \E i \in DOMAIN index[tid].strings : \E string \in NewStrings :
       Edit(tid, i, string)
  \/ Write
  \/ Check
  \/ Raise
  \/ Again

Spec == Init /\ [][Next]_vars

----------------------------------------------------------------------------
(* Properties. *)

\* Types: every reference of the survey names a string that its block has, every edit is
\* of a block of the index and keeps the number of its strings.
TypeOK ==
  /\ phase \in {"survey", "edit", "write", "gate", "done"}
  /\ builds \in 0 .. MaxBuilds
  /\ verdict \in {"none", "pass", "fail"}
  /\ \A r \in refs : r.string[1] \in DOMAIN index /\ r.string[2] \in DOMAIN index[r.string[1]].strings
  /\ DOMAIN edited \subseteq DOMAIN index
  /\ \A tid \in DOMAIN edited : Len(edited[tid]) = Len(index[tid].strings)

\* Words of an archive that the game follows: what stands where its four systems look, in
\* every copy, and the words of its code, which no survey reads.
Followed(d, s, p) ==
  /\ IsWord(d, s, p)
  /\ \/ d[s].type = 26 /\ (p - 1) % RecordWords < RefWords
     \/ d[s].type = 44
     \/ d[s].type = 39 /\ p > 1 /\ Unpacked(d[s])[p - 1].kind = "command"
FollowedWords(d) ==
  UNION {{<<s, p, 0>> : p \in {q \in DOMAIN Unpacked(d[s]) : Followed(d, s, q)}} : s \in DOMAIN d}
FollowedRecords(d) == UNION {{<<s, 1, j>> : j \in DOMAIN Block(d, s).tail} : s \in TextSubs(d)}
Stored(d) == FollowedWords(d) \cup FollowedRecords(d)
Hidden(d) ==
  UNION {{<<s, p, 0>> : p \in {q \in DOMAIN Unpacked(d[s]) : IsWord(d, s, q)}}
         : s \in {t \in DOMAIN d : d[t].type = 0}}

\* The string the word at a slot names.
Named(d, slot) == Resolve(BlockIndex(d), WordAt(d, slot))

\* After every build that reached all it meant to, each word the game reads through one
\* of the four systems names the string it named before the first build.
StoredKept ==
  /\ TypeOK
  /\ damage = NoDamage =>
       \A slot \in Stored(base) : Named(base, slot) # {} => Named(disc, slot) = Named(base, slot)

\* And so does a word no survey can find, if it names a string with symbols in it that no
\* other word is known to name: that is all the suffix rule is for.
HiddenKept ==
  damage = NoDamage =>
    \A slot \in Hidden(base) : \A string \in Named(base, slot) :
      (/\ \A other \in Stored(base) : string \notin Named(base, other)
       /\ HasSymbols(BlockIndex(base)[string[1]], string[2]))
      => Named(disc, slot) = Named(base, slot)

Held(d, tid) ==
  UNION {{<<s, p>> : p \in {q \in DOMAIN Unpacked(d[s]) :
            Unpacked(d[s])[q].kind = "block" /\ Unpacked(d[s])[q].block.id = tid}}
         : s \in DOMAIN d}

\* A pass of gate 44 means that the places that held a block of an edited id before the
\* build all hold one and the same block, and none is unreadable, unless one of them has
\* lost its structure: such a copy drops out of the count, which is not the same as a fail.
CarriersAgree ==
  (verdict = "pass" /\ damage.kind # "malformed") =>
    \A tid \in DOMAIN edited : \A a, b \in Held(base, tid) :
      a[1] \notin Unexaminable(disc) /\ Payload(disc, a) = Payload(disc, b)

=============================================================================
