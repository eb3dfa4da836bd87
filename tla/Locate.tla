-------------------------------- MODULE Locate --------------------------------
(***************************************************************************)
(* Where the text of a disc is: dq4/hbd.py finds the blocks of the archive *)
(* and their sub-blocks, dq4/overlay.py the text blocks inside the type 46 *)
(* overlays, dq4/referrers.py those inside the executable and the words of *)
(* the executable that name their strings.  corpus.py calls them in the    *)
(* order of the actions below, gate 44 all but the references.             *)
(*                                                                         *)
(* The archive is the headers that stand at its sectors, and an image (an  *)
(* overlay, the executable) the header-shaped words that stand in it, each *)
(* with the fields the locators test; every other word passes no test.     *)
(* Offsets are the code's: bytes.                                          *)
(***************************************************************************)
EXTENDS Integers, Sequences, FiniteSets

CONSTANTS
  Sector,       \* SECTOR
  Header,       \* BLOCK_HEADER, and SUB_HEADER
  Page,         \* 256: values of the byte the prefilter of scan_blocks looks at
  TextHeader,   \* 24, the six words of a text block
  MaxA, MaxId,  \* 0x40000 and 0x600
  Tables,       \* EXE_TABLES: base, stride and fields, as offsets into the text segment
  MaxRows,      \* 4096: rows of a table that are read at most
  Discs         \* what may be on the disc

Word == 4

ASSUME FormatAssumption ==
  /\ {Sector, Header, Page, MaxA, MaxId, MaxRows} \subseteq Nat \ {0}
  /\ TextHeader = 6 * Word

ASSUME TablesAssumption == Tables \in Seq([base : Int, stride : Int, fields : Seq(Int)])

\* A word of a table: the rows of a table are far apart from those of another.
FieldAt(t, i, k) == Tables[t].base + Tables[t].stride * i + Tables[t].fields[k]

Fields == UNION {{<<t, i, k>> : i \in 0 .. MaxRows - 1, k \in DOMAIN Tables[t].fields} :
                   t \in DOMAIN Tables}

ASSUME FieldsAssumption ==
  /\ \A f \in Fields : FieldAt(f[1], f[2], f[3]) % Word = 0
  /\ \A f, g \in Fields : FieldAt(f[1], f[2], f[3]) = FieldAt(g[1], g[2], g[3]) => f = g

\* What the readers see: the fields of a text block, an image and the header-shaped words in
\* it, a sub-block, the header of a block, and a word of the executable.
TextHeads == [at : Nat, id : Nat, a : Nat, c : Nat, d : Nat, e : Nat, f6 : Nat,
              self : BOOLEAN, parses : BOOLEAN, strings : Nat]
ImageOf   == [len : Nat, blocks : SUBSET TextHeads]
SubHeads  == [type : Nat, dlen : Nat, lzs : BOOLEAN, image : ImageOf]
Heads     == [nsec : Nat, tlen : Nat, zero : Nat, subs : Seq(SubHeads)]
Names     == [id : Nat, string : Nat]

\* One thing stands at an offset.
OneAtAPlace(headers) == \A b, other \in headers : b.at = other.at => b = other

ASSUME DiscAssumption ==
  \A d \in Discs :
    /\ d.arch.len \in Nat /\ DOMAIN d.arch.headers \subseteq Nat
    /\ \A s \in DOMAIN d.arch.headers :
         /\ d.arch.headers[s] \in Heads
         /\ \A i \in DOMAIN d.arch.headers[s].subs :
              LET sub == d.arch.headers[s].subs[i]
              IN OneAtAPlace(sub.image.blocks) /\ (sub.lzs \/ sub.image.len = sub.dlen)
    /\ d.exe.tsize \in Nat /\ d.exe.len \in Nat
    /\ d.exe.blocks \subseteq TextHeads /\ OneAtAPlace(d.exe.blocks)
    /\ DOMAIN d.exe.words \subseteq Nat /\ \A o \in DOMAIN d.exe.words : d.exe.words[o] \in Names

VARIABLES
  disc,      \* the disc, never written
  stage,     \* "archive", "exe", "tables", "sweep", "images", "scan", "done" or "raised"
  blocks,    \* scan_blocks: sector -> its block
  exeTexts,  \* exe_blocks: the text blocks of the executable
  at,        \* the row and the table of the walk, or the offset of the scan
  listed,    \* exe_refs: the words it has listed, in its order
  images,    \* overlay_images: image -> where it occurs; the ones still to be scanned
  entries    \* overlay.blocks: contents of a text block -> its sites

locateVars == <<disc, stage, blocks, exeTexts, at, listed, images, entries>>

OverlayType == 46

----------------------------------------------------------------------------
(* hbd.py *)

Ceil(n, unit) == (n + unit - 1) \div unit

HeaderLen(h) == Header + Len(h.subs) * Header

\* Where each sub-block begins, and last where the data ends: lengths are accumulated.
Offsets(s, h) ==
  LET from[i \in 1 .. Len(h.subs) + 1] ==
        IF i = 1 THEN s * Sector + HeaderLen(h) ELSE from[i - 1] + h.subs[i - 1].dlen
  IN from

\* The conditions of parse_block.
Accepted(arch, s, h) ==
  /\ s * Sector + Header <= arch.len
  /\ h.zero = 0 /\ h.subs # <<>> /\ h.nsec # 0
  /\ s * Sector + HeaderLen(h) <= arch.len
  /\ Offsets(s, h)[Len(h.subs) + 1] - Offsets(s, h)[1] = h.tlen
  /\ Ceil(HeaderLen(h) + h.tlen, Sector) = h.nsec

\* A compressed sub-block never runs over the end of the archive.
ASSUME CompressedAssumption ==
  \A d \in Discs : \A s \in DOMAIN d.arch.headers : \A i \in DOMAIN d.arch.headers[s].subs :
    d.arch.headers[s].subs[i].lzs => Offsets(s, d.arch.headers[s])[i + 1] <= d.arch.len

\* The prefilter: of the first word only the lowest byte is set.
Prefilter(h) == Len(h.subs) \in 1 .. Page - 1

ParseBlock(s, h) ==
  [nsec |-> h.nsec,
   subs |-> [i \in DOMAIN h.subs |->
               [off |-> Offsets(s, h)[i], type |-> h.subs[i].type, dlen |-> h.subs[i].dlen,
                lzs |-> h.subs[i].lzs, image |-> h.subs[i].image]]]

ScanBlocks ==
  /\ stage = "archive"
  /\ blocks' =
       [s \in {t \in DOMAIN disc.arch.headers :
                 /\ t < disc.arch.len \div Sector
                 /\ Prefilter(disc.arch.headers[t])
                 /\ Accepted(disc.arch, t, disc.arch.headers[t])}
          |-> ParseBlock(s, disc.arch.headers[s])]
  /\ stage' = "exe"
  /\ UNCHANGED <<disc, exeTexts, at, listed, images, entries>>

----------------------------------------------------------------------------
(* referrers.py: the executable. *)

\* Without a dictionary c is 24; one lies between the header and c, and f6 points at it.
DictionaryFits(b) ==
  \/ b.f6 = 0 /\ b.c = TextHeader
  \/ b.f6 = TextHeader /\ TextHeader < b.c /\ b.c < b.a

\* The structural test of exe_blocks: the block may have no tree (e = 0), and nothing is
\* asked of its self pointer.
ExeShaped(exe, b) ==
  /\ b.at % Word = 0 /\ b.at < exe.tsize - TextHeader
  /\ b.id \in 1 .. MaxId /\ b.a > TextHeader /\ b.a < MaxA
  /\ DictionaryFits(b)
  /\ b.e = 0 \/ (b.e > TextHeader /\ b.e <= b.a)
  /\ b.at + b.a <= exe.len

\* TextBlock raises on a header whose fields lead out of the block: nothing catches it.
ExeBlocks ==
  /\ stage = "exe"
  /\ LET shaped == {b \in disc.exe.blocks : ExeShaped(disc.exe, b)} IN
       IF \A b \in shaped : b.parses
         THEN exeTexts' = shaped /\ stage' = "tables" /\ at' = <<1, 0>>
         ELSE stage' = "raised" /\ UNCHANGED <<exeTexts, at>>
  /\ UNCHANGED <<disc, blocks, listed, images, entries>>

\* eindex of corpus.py: of two blocks with one id the later one.
ExeIndex(id) == CHOOSE b \in exeTexts : b.id = id /\ \A other \in exeTexts : other.id = id => other.at <= b.at
ExeIds == {b.id : b \in exeTexts}

NamesBlock(o) == o \in DOMAIN disc.exe.words /\ disc.exe.words[o].id \in ExeIds

\* _resolve: the word names a string of the block, not the middle of one nor the residue.
Resolves(o) == NamesBlock(o) /\ disc.exe.words[o].string \in 1 .. ExeIndex(disc.exe.words[o].id).strings

InText(o) == o >= 0 /\ o < disc.exe.tsize - (Word - 1)

Ascending(set) ==
  [k \in 1 .. Cardinality(set) |-> CHOOSE o \in set : Cardinality({p \in set : p < o}) = k - 1]

\* One row of a table.  It ends the table at the first field that lies outside the text or
\* holds no id of the executable.
Row(t, i) == [k \in DOMAIN Tables[t].fields |-> FieldAt(t, i, k)]
Stops(o)  == ~InText(o) \/ ~NamesBlock(o)
Taken(row) ==
  LET n == CHOOSE n \in 0 .. Len(row) :
             (\A k \in 1 .. n : ~Stops(row[k])) /\ (n < Len(row) => Stops(row[n + 1]))
  IN SubSeq(row, 1, n)

\* What of it names a string, in its order.
Kept(words) ==
  LET places == Ascending({k \in DOMAIN words : Resolves(words[k])})
  IN [j \in DOMAIN places |-> words[places[j]]]

TableRow ==
  /\ stage = "tables" /\ at[1] <= Len(Tables)
  /\ LET row == Row(at[1], at[2]) IN
       /\ listed' = listed \o Kept(Taken(row))
       /\ at' = IF at[2] + 1 = MaxRows \/ Len(Taken(row)) < Len(row)
                  THEN <<at[1] + 1, 0>> ELSE <<at[1], at[2] + 1>>
  /\ UNCHANGED <<disc, stage, blocks, exeTexts, images, entries>>

\* Mutant of Swept: the words the tables have named are swept again.
SweptAll == {o \in DOMAIN disc.exe.words : o % Word = 0 /\ InText(o) /\ Resolves(o)}

\* The sweep: every other word of the text that names a string.
Swept ==
  {o \in DOMAIN disc.exe.words :
     /\ o % Word = 0 /\ InText(o) /\ Resolves(o)
     /\ \A k \in DOMAIN listed : listed[k] # o}

Sweep ==
  /\ stage = "tables" /\ at[1] > Len(Tables)
  /\ listed' = listed \o Ascending(Swept)
  /\ stage' = "images" /\ at' = <<0, 0>>
  /\ UNCHANGED <<disc, blocks, exeTexts, images, entries>>

----------------------------------------------------------------------------
(* overlay.py *)

\* sub_blocks
SubBlocks == UNION {{<<s, i>> : i \in DOMAIN blocks[s].subs} : s \in DOMAIN blocks}

\* sub_bytes, decompressed if need be: the slice ends where the archive does.
Image(sub) ==
  IF sub.lzs \/ sub.off + sub.dlen <= disc.arch.len THEN sub.image
  ELSE [sub.image EXCEPT !.len = IF sub.off > disc.arch.len THEN 0 ELSE disc.arch.len - sub.off]

Sooner(p, q) == p[1] < q[1] \/ (p[1] = q[1] /\ p[2] < q[2])

ImageAt(site) == Image(blocks[site[1]].subs[site[2]])

Where(sites, image) == {p \in sites : ImageAt(p) = image}

OverlayImages ==
  /\ stage = "images"
  /\ LET sites == {p \in SubBlocks : blocks[p[1]].subs[p[2]].type = OverlayType} IN
       images' = [image \in {ImageAt(p) : p \in sites} |-> Where(sites, image)]
  /\ stage' = "scan"
  /\ UNCHANGED <<disc, blocks, exeTexts, at, listed, entries>>

\* The structural test of scan_image, the self pointer, and a TextBlock that parses.
Claims(image, b) ==
  /\ b.id \in 1 .. MaxId /\ b.a > TextHeader /\ b.a < MaxA /\ b.at + b.a + Word <= image.len
  /\ DictionaryFits(b)
  /\ b.e > TextHeader /\ b.e <= b.a /\ b.c < b.e
  /\ b.d = 0 \/ (b.e < b.d /\ b.d <= b.a)
  /\ b.self
  /\ b.parses

\* Mutant of Claimed: the test before Phase 46, which no block with a dictionary passes.
ClaimedPlain(image, o) == {b \in image.blocks : b.at = o /\ Claims(image, b) /\ b.c = TextHeader}

Claimed(image, o) == {b \in image.blocks : b.at = o /\ Claims(image, b)}

\* The images are scanned in the order of their first places.
Current ==
  CHOOSE image \in DOMAIN images : \A other \in DOMAIN images \ {image} :
    \E p \in images[image] : \A q \in images[other] : Sooner(p, q)

Contents(b) == [f \in DOMAIN b \ {"at"} |-> b[f]]

\* One turn of scan_image.  Behind a block it goes on at its self pointer, whatever multiple
\* of a word that is; the sites of a block are kept under its contents.
ScanImage ==
  /\ stage = "scan" /\ DOMAIN images # {} /\ at[2] + TextHeader + Word <= Current.len
  /\ LET here == Claimed(Current, at[2])
         places(b) == {<<p[1], p[2], b.at>> : p \in images[Current]}
         old(c) == IF c \in DOMAIN entries THEN entries[c] ELSE {}
     IN IF here = {}
          THEN at' = <<0, at[2] + Word>> /\ UNCHANGED entries
          ELSE \E b \in here :
                 /\ at' = <<0, at[2] + b.a>>
                 /\ entries' = [c \in DOMAIN entries \cup {Contents(b)} |->
                                  IF c = Contents(b) THEN old(c) \cup places(b) ELSE entries[c]]
  /\ UNCHANGED <<disc, stage, blocks, exeTexts, listed, images>>

NextImage ==
  /\ stage = "scan"
  /\ IF DOMAIN images = {}
       THEN stage' = "done" /\ UNCHANGED <<at, images>>
       ELSE /\ at[2] + TextHeader + Word > Current.len
            /\ at' = <<0, 0>>
            /\ images' = [image \in DOMAIN images \ {Current} |-> images[image]]
            /\ UNCHANGED stage
  /\ UNCHANGED <<disc, blocks, exeTexts, listed, entries>>

LocateInit ==
  /\ disc \in Discs
  /\ stage = "archive"
  /\ blocks = <<>> /\ exeTexts = {} /\ at = <<0, 0>> /\ listed = <<>>
  /\ images = [image \in {} |-> {}] /\ entries = [c \in {} |-> {}]

LocateNext == ScanBlocks \/ ExeBlocks \/ TableRow \/ Sweep \/ OverlayImages \/ ScanImage \/ NextImage

LocateSpec == LocateInit /\ [][LocateNext]_locateVars

----------------------------------------------------------------------------
(* Properties. *)

\* How much the first sub-blocks of a block hold.
Lengths(subs) ==
  LET sum[k \in 0 .. Len(subs)] == IF k = 0 THEN 0 ELSE sum[k - 1] + subs[k].dlen
  IN sum

\* FORMAT.md section 2: the five conditions that make a header that of a block.  All its bytes
\* are there: the header itself, and the sub-blocks behind it without gap or pad.
Genuine(s) ==
  LET h == disc.arch.headers[s]
      total == Lengths(h.subs)[Len(h.subs)]
  IN /\ Len(h.subs) \in 1 .. Page - 1 /\ h.zero = 0 /\ h.nsec # 0 /\ h.tlen = total
     /\ Ceil(Header + Header * Len(h.subs) + total, Sector) = h.nsec
     /\ s * Sector + Header + Header * Len(h.subs) <= disc.arch.len

GenuineSubs ==
  UNION {{<<s, i>> : i \in DOMAIN disc.arch.headers[s].subs} :
           s \in {t \in DOMAIN disc.arch.headers : Genuine(t) /\ t < disc.arch.len \div Sector}}

\* What of the image of a sub-block the archive holds: an image cut off by its end is as long
\* as what is left of it.
Held(s, i) ==
  LET subs == disc.arch.headers[s].subs
      left == disc.arch.len - (s * Sector + Header + Header * Len(subs) + Lengths(subs)[i - 1])
  IN IF subs[i].lzs \/ left >= subs[i].dlen THEN subs[i].image
     ELSE [subs[i].image EXCEPT !.len = IF left < 0 THEN 0 ELSE left]

\* FORMAT.md section 3, of a block in an image: its parts are in order, its self pointer is
\* at a, and c leaves room for a dictionary exactly if there is one.
IsText(image, b) ==
  /\ b.id \in 1 .. MaxId /\ b.a < MaxA
  /\ b.self /\ b.parses /\ b.at + b.a + Word <= image.len
  /\ TextHeader <= b.c /\ b.c < b.e /\ b.e <= (IF b.d = 0 THEN b.a ELSE b.d - 1) /\ b.d <= b.a
  /\ b.f6 = (IF b.c > TextHeader THEN TextHeader ELSE 0)

Inside(b, outer) == outer.at < b.at /\ b.at < outer.at + outer.a

\* What is shaped like text on a word boundary, as the engine loads it.
Aligned(image) == {b \in image.blocks : IsText(image, b) /\ b.at % Word = 0}

\* The text of an image: the ones that lie in no other.
TextOf(image) == {b \in Aligned(image) : \A outer \in Aligned(image) : ~Inside(b, outer)}

\* What is shaped like text in the data of a text block does not run over its end.
ASSUME NestedAssumption ==
  \A d \in Discs : \A s \in DOMAIN d.arch.headers : \A i \in DOMAIN d.arch.headers[s].subs :
    LET image == d.arch.headers[s].subs[i].image IN
      \A b, outer \in Aligned(image) : Inside(b, outer) => b.at + b.a <= outer.at + outer.a

\* Every text block of every overlay of every block of the archive is found at every place it
\* occurs, each once, and under its contents, and nothing else is: however often the image
\* occurs, whatever precedes the block in it, whatever headers do not add up, and whichever of
\* its occurrences a build has changed.  Only where a block ends off a word boundary is the
\* rest of its image read at the wrong places.
OverlayTextFound ==
  LET sites == {p \in GenuineSubs : disc.arch.headers[p[1]].subs[p[2]].type = OverlayType}
      found == UNION {{<<p, b>> : b \in TextOf(Held(p[1], p[2]))} : p \in sites}
  IN stage = "done" /\ (\A f \in found : f[2].a % Word = 0) =>
       entries = [c \in {Contents(f[2]) : f \in found} |->
                    {<<f[1][1], f[1][2], f[2].at>> : f \in {g \in found : Contents(g[2]) = c}}]

\* A word of the executable that names one of its strings is listed once, by a table or by
\* the sweep, wherever the tables end; and nothing else is.
ExeRefsOnce ==
  stage \in {"images", "scan", "done"} =>
    /\ \A j, k \in DOMAIN listed : listed[j] = listed[k] => j = k
    /\ {listed[k] : k \in DOMAIN listed} =
         {o \in DOMAIN disc.exe.words :
            /\ o % Word = 0 /\ o + Word <= disc.exe.tsize
            /\ \E b \in disc.exe.blocks :
                 /\ ExeShaped(disc.exe, b) /\ b.id = disc.exe.words[o].id
                 /\ disc.exe.words[o].string \in 1 .. b.strings
                 /\ \A later \in disc.exe.blocks :
                      ExeShaped(disc.exe, later) /\ later.id = b.id => later.at <= b.at}
=============================================================================
