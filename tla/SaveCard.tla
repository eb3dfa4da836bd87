------------------------------- MODULE SaveCard -------------------------------
(***************************************************************************)
(* What reflow-dqiv-psx.py does to the bytes of a card: the audit, the     *)
(* plan, the edits and the reseals, over a card whose save bodies are RAM  *)
(* images cut into sealed chunks, so that a name may straddle two frames.  *)
(*                                                                         *)
(* A cell is one two-byte character of a field.  A checksum is the value   *)
(* it is computed over: CRC-32 and the 8-bit XOR are taken to tell any two *)
(* contents apart.  Cell 0 of chunk 0 is the present-chunk map.            *)
(***************************************************************************)
EXTENDS Integers, FiniteSets, Sequences

CONSTANTS
  Blocks,                     \* the blocks that may hold a save (1..15)
  NChunks, ChunkData,         \* chunks of a save body, cells of a chunk
  RecordBase, RecordStride,   \* the name of record i begins at RecordBase + RecordStride * i
  NRecords, NameLen, PlaceLen,
  Fullwidth,                  \* the fullwidth Latin characters, with the space
  Ascii,                      \* fullwidth character -> its ASCII form: FW_TO_ASCII
  Zero, FwSpace,
  Unreadable,                 \* what is not a two-byte Shift-JIS character
  Cells,                      \* what a cell of a card may hold
  Saves,                      \* the contents a card may start with
  GlossaryFiles,              \* the sets of rows a command line may name
  Renames,                    \* the --rename options: OLD -> NEW functions
  Options,                    \* [party |-> BOOLEAN, place |-> BOOLEAN]: --no-party, --no-place
  MaxRuns                     \* bound: applying runs over one card

Chunks  == 0 .. NChunks - 1
Offsets == 0 .. ChunkData - 1
Records == 0 .. NRecords - 1

\* The real values are 40 chunks of 62 cells, base 698, stride 36, 24 records of 6: no name
\* reaches chunk 0 or the end of the region, and names do not overlap.
ASSUME GeometryAssumption ==
  /\ NChunks \in Nat \ {0} /\ ChunkData \in Nat \ {0} /\ NRecords \in Nat
  /\ NameLen \in Nat \ {0} /\ PlaceLen \in Nat
  /\ RecordStride \in Nat /\ RecordStride >= NameLen
  /\ RecordBase \in Nat /\ RecordBase >= ChunkData
  /\ RecordBase + RecordStride * (NRecords - 1) + NameLen <= NChunks * ChunkData

ASSUME MaxRunsAssumption == MaxRuns \in Nat \ {0}

VARIABLES
  data,      \* the card in memory: block -> its title frame and its chunks
  phase,     \* "start", "apply", "refused" or "done"
  gloss,     \* the merged glossary
  opts,
  edits,     \* planned and not yet applied
  frames,    \* frames whose data an edit has changed, not yet resealed
  titles,    \* title frames likewise
  runs,
  (* observations, read by no action *)
  before     \* the card this run began with

vars == <<data, phase, gloss, opts, edits, frames, titles, runs, before>>

----------------------------------------------------------------------------
(* Text. *)

\* normalize_key
Fold(text) == [k \in DOMAIN text |-> IF text[k] \in Fullwidth THEN Ascii[text[k]] ELSE text[k]]

AsciiChars == {Ascii[c] : c \in Fullwidth}
Texts      == Seq(Cells \cup AsciiChars)

\* FW_TO_ASCII leads out of the fullwidth characters, of which a zero cell is none.
ASSUME CharAssumption ==
  /\ Fullwidth \cup {Zero, FwSpace} \subseteq Cells
  /\ FwSpace \in Fullwidth /\ Zero \notin Fullwidth
  /\ \A c \in Fullwidth : Ascii[c] \notin Fullwidth

\* parse_glossary strips its columns, and passes over a row with an empty one.
ASSUME GlossaryAssumption ==
  /\ \A rows \in GlossaryFiles :
       /\ rows \subseteq Texts \X Texts
       /\ \A r \in rows : r[2] # <<>> /\ r[2][Len(r[2])] # Ascii[FwSpace]
  /\ \A rename \in Renames : \A k \in DOMAIN rename : rename[k] \in Texts

InFullwidth(a) == CHOOSE c \in Fullwidth : Ascii[c] = a

\* encode_fullwidth raises on any character that has no fullwidth form.
Encodable(text) == \A k \in DOMAIN text : text[k] \in AsciiChars
EncodeFullwidth(text) == [k \in DOMAIN text |-> InFullwidth(text[k])]

\* decode_sjis_pairs
Decodable(field) == \A k \in DOMAIN field : field[k] # Unreadable /\ field[k] # Zero

PadTo(text, n, pad) == [k \in 1..n |-> IF k <= Len(text) THEN text[k] ELSE pad]

----------------------------------------------------------------------------
(* The glossary. *)

\* Mutant of Entries: the english column is no key.
EntriesSourceOnly(rows) == rows

\* parse_glossary: both columns become keys.
Entries(rows) == rows \cup {<<r[2], r[2]>> : r \in rows}

\* Two values for one key, within a file (parse_glossary) or across them (main).
Conflict(rows) == \E p, q \in Entries(rows) : p[1] = q[1] /\ p[2] # q[2]

\* A --rename replaces whatever the files say of its key.
Glossary(rows, rename) ==
  [k \in {e[1] : e \in Entries(rows)} \cup DOMAIN rename |->
     IF k \in DOMAIN rename THEN rename[k]
                            ELSE (CHOOSE e \in Entries(rows) : e[1] = k)[2]]

\* _lookup: the text as it stands, then folded.
Known(g, text) == text \in DOMAIN g \/ Fold(text) \in DOMAIN g
Lookup(g, text) == IF text \in DOMAIN g THEN g[text] ELSE g[Fold(text)]

\* A name the glossary knows, can write, and that fits; everything else is skipped.
Writable(g, text, n) ==
  Known(g, text) /\ Encodable(Lookup(g, text)) /\ Len(Lookup(g, text)) <= n

----------------------------------------------------------------------------
(* The card. *)

\* ram_to_card over ram_span_to_card's pieces: where cell k of record i's name lies.
Site(i, k) == LET addr == RecordBase + RecordStride * i + (k - 1)
              IN <<addr \div ChunkData, addr % ChunkData>>

\* Mutant of NameChunks: the frame the name begins in, and no other.
NameChunksFirst(i) == {Site(i, 1)[1]}

NameChunks(i) == {Site(i, k)[1] : k \in 1..NameLen}

\* Mutant of Present: the map is not consulted.
PresentAll(blk) == Chunks

Present(blk) == blk.payload[0][0]

Block == [sc : BOOLEAN, place : [1..PlaceLen -> Cells], xor : Seq(Cells),
          payload : [Chunks -> [Offsets -> Cells]], crc : [Chunks -> [Offsets -> Cells]]]

\* present_map has a bit for each chunk.
ASSUME SavesAssumption ==
  \A d \in Saves : d \in [Blocks -> Block] /\ \A b \in Blocks : Present(d[b]) \subseteq Chunks

\* Card.audit: a block without the SC magic is "absent" and passes.
SealsHold(blk) ==
  /\ blk.xor = blk.place
  /\ \A c \in Present(blk) : blk.crc[c] = blk.payload[c]
AuditClean(d) == \A b \in Blocks : d[b].sc => SealsHold(d[b])

NameField(blk, i) == [k \in 1..NameLen |-> blk.payload[Site(i, k)[1]][Site(i, k)[2]]]

\* The name before the first zero, and whether all that follows is zeros.
NameEnd(field) ==
  CHOOSE n \in 0..NameLen :
    /\ \A k \in 1..n : field[k] # Zero
    /\ n < NameLen => field[n + 1] = Zero
NameText(field) == SubSeq(field, 1, NameEnd(field))
ZeroPadded(field) == \A k \in NameEnd(field) + 1 .. NameLen : field[k] = Zero

\* The place field without its trailing fullwidth spaces.
PlaceEnd(field) ==
  CHOOSE n \in 0..PlaceLen :
    /\ \A k \in n + 1 .. PlaceLen : field[k] = FwSpace
    /\ n > 0 => field[n] # FwSpace
PlaceText(field) == SubSeq(field, 1, PlaceEnd(field))

\* plan_block: one edit per field that is accounted for and would change.
PartyEdits(d, g, b) ==
  {[block |-> b, kind |-> "party", record |-> i,
    new |-> PadTo(EncodeFullwidth(Lookup(g, NameText(NameField(d[b], i)))), NameLen, Zero)] :
    i \in {i \in Records :
             LET f == NameField(d[b], i) IN
               /\ NameChunks(i) \subseteq Present(d[b])
               /\ f[1] # Zero /\ ZeroPadded(f) /\ Decodable(NameText(f))
               /\ Writable(g, NameText(f), NameLen)
               /\ PadTo(EncodeFullwidth(Lookup(g, NameText(f))), NameLen, Zero) # f}}

PlaceEdits(d, g, b) ==
  LET f == d[b].place
      new == PadTo(EncodeFullwidth(Lookup(g, PlaceText(f))), PlaceLen, FwSpace)
  IN IF Decodable(f) /\ PlaceText(f) # <<>> /\ Writable(g, PlaceText(f), PlaceLen) /\ new # f
       THEN {[block |-> b, kind |-> "place", record |-> 0, new |-> new]}
       ELSE {}

\* build_plan
Plan(d, g, o) ==
  UNION {(IF o.party THEN PartyEdits(d, g, b) ELSE {}) \cup
         (IF o.place THEN PlaceEdits(d, g, b) ELSE {}) : b \in {b \in Blocks : d[b].sc}}

----------------------------------------------------------------------------
Init ==
  /\ data \in Saves
  /\ phase = "start"
  /\ \E rows \in GlossaryFiles, rename \in Renames :
       gloss = [rows |-> rows, rename |-> rename]
  /\ opts \in Options
  /\ edits = {} /\ frames = {} /\ titles = {}
  /\ runs = 0
  /\ before = data

TheGlossary == Glossary(gloss.rows, gloss.rename)

\* main up to apply_plan: the audit before, the conflicts, an empty glossary, the plan.
Begin ==
  /\ phase = "start"
  /\ runs' = runs + 1
  /\ before' = data
  /\ IF AuditClean(data) /\ ~Conflict(gloss.rows) /\ DOMAIN TheGlossary # {}
       THEN phase' = "apply" /\ edits' = Plan(data, TheGlossary, opts)
       ELSE phase' = "refused" /\ UNCHANGED edits
  /\ UNCHANGED <<data, gloss, opts, frames, titles>>

\* apply_plan, first loop: set_bytes for every piece of an edit.
ApplyEdit(e) ==
  /\ phase = "apply" /\ e \in edits
  /\ edits' = edits \ {e}
  /\ IF e.kind = "place"
       THEN /\ data' = [data EXCEPT ![e.block].place = e.new]
            /\ titles' = titles \cup {e.block}
            /\ UNCHANGED frames
       ELSE /\ data' = [data EXCEPT ![e.block].payload =
                 [c \in Chunks |-> [j \in Offsets |->
                    IF \E k \in 1..NameLen : Site(e.record, k) = <<c, j>>
                      THEN e.new[CHOOSE k \in 1..NameLen : Site(e.record, k) = <<c, j>>]
                      ELSE @[c][j]]]]
            /\ frames' = frames \cup {<<e.block, c>> : c \in NameChunks(e.record)}
            /\ UNCHANGED titles
  /\ UNCHANGED <<phase, gloss, opts, runs, before>>

\* Second loop: reseal_frame.
ResealFrame(b, c) ==
  /\ phase = "apply" /\ edits = {} /\ <<b, c>> \in frames
  /\ data' = [data EXCEPT ![b].crc[c] = data[b].payload[c]]
  /\ frames' = frames \ {<<b, c>>}
  /\ UNCHANGED <<phase, gloss, opts, edits, titles, runs, before>>

\* Third loop: reseal_title.
ResealTitle(b) ==
  /\ phase = "apply" /\ edits = {} /\ frames = {} /\ b \in titles
  /\ data' = [data EXCEPT ![b].xor = data[b].place]
  /\ titles' = titles \ {b}
  /\ UNCHANGED <<phase, gloss, opts, edits, frames, runs, before>>

Finish ==
  /\ phase = "apply" /\ edits = {} /\ frames = {} /\ titles = {}
  /\ phase' = "done"
  /\ UNCHANGED <<data, gloss, opts, edits, frames, titles, runs, before>>

\* The card that was written is reflowed again, under another build's glossary perhaps.
RunAgain(rows, rename) ==
  /\ phase = "done" /\ runs < MaxRuns
  /\ gloss' = [rows |-> rows, rename |-> rename]
  /\ phase' = "start"
  /\ UNCHANGED <<data, opts, edits, frames, titles, runs, before>>

Next ==
  \/ Begin
  \/ \E e \in edits : ApplyEdit(e)
  \/ \E b \in Blocks, c \in Chunks : ResealFrame(b, c)
  \/ \E b \in Blocks : ResealTitle(b)
  \/ Finish
  \/ \E rows \in GlossaryFiles, rename \in Renames : RunAgain(rows, rename)

Spec == Init /\ [][Next]_vars

----------------------------------------------------------------------------
(* Properties. *)

\* Types, a part of OnlyNamesChange below.
TypeOK ==
  /\ \A b \in Blocks :
       /\ DOMAIN data[b].payload = Chunks /\ DOMAIN data[b].crc = Chunks
       /\ \A c \in Chunks : DOMAIN data[b].payload[c] = Offsets
       /\ Present(data[b]) \subseteq Chunks
       /\ Len(data[b].place) = PlaceLen
  /\ phase \in {"start", "apply", "refused", "done"}
  /\ opts \in Options
  /\ \A e \in edits : e.block \in Blocks /\ e.kind \in {"party", "place"}
  /\ frames \subseteq Blocks \X Chunks
  /\ titles \subseteq Blocks
  /\ runs \in 0..MaxRuns

\* A reflowed card passes the audit it passed before: a name that straddles two frames has
\* both resealed, and no seal is taken before the last edit of its frame.
Sealed == phase = "done" => AuditClean(data)

\* A run changes the cells of party names in chunks the save carries, and place names, and
\* the seals over those: not the present map, not the game state between the names, not a
\* stale frame outside the map or its seal, not a block that is no save, not the size of any.
OnlyNamesChange ==
  /\ TypeOK
  /\ \A b \in Blocks :
       LET old == before[b]
           new == data[b]
       IN /\ new.sc = old.sc
          /\ new.place # old.place => old.sc /\ opts.place
          /\ new.xor # old.xor => new.place # old.place
          /\ \A c \in Chunks :
               /\ \A j \in Offsets : new.payload[c][j] # old.payload[c][j] =>
                    /\ old.sc /\ opts.party /\ c \in old.payload[0][0]
                    /\ \E i \in Records, k \in 1..NameLen : Site(i, k) = <<c, j>>
               /\ new.crc[c] # old.crc[c] => new.payload[c] # old.payload[c]

\* With glossary files alone, their sources not written in fullwidth Latin, one run is
\* enough: the tool finds nothing more to do on the card it wrote.
FilesOnly(g) == DOMAIN g.rename = {} /\ \A r \in g.rows : Fold(r[1]) = r[1]

Settled == phase = "done" /\ FilesOnly(gloss) => Plan(data, TheGlossary, opts) = {}

=============================================================================
