-------------------------------- MODULE NfImage --------------------------------
(***************************************************************************)
(* createnfimg.c: a file becomes a NAND image page by page.  The spare     *)
(* area of a page gets ECC bytes when the page is not blank, and on the    *)
(* first page of each erase block a JFFS2 clean marker, until a page with  *)
(* the UBIFS split marker has gone by.                                     *)
(*                                                                         *)
(* A page of the input is blank, data, or data with the split marker, and  *)
(* the last one may be short.  The ECC arithmetic is left out: what is     *)
(* modelled is where its bytes go.                                         *)
(***************************************************************************)
EXTENDS Integers, Sequences, FiniteSets

CONSTANTS
  Params,   \* the command lines
  Inputs    \* the input files: sequences of [kind, full]

MIN_FIELD_ORDER == 13
CLEANMARKER_SIZE == 8
HAMMING_SIZE == 3
HAMMING_SPARE_B0 == 6

\* The options as main leaves them.  It checks level, order and partial; that the
\* Hamming code fits the spare bytes of a partial page, and that page and spare
\* size keep to their fields of LAYOUT_PARMS, it takes for granted.
ASSUME ImageAssumption ==
  /\ \A o \in Params :
       /\ o.level \in 1 .. 40 /\ o.order \in {MIN_FIELD_ORDER, 14}
       /\ o.page_size \in 1 .. 2 ^ 16 - 1 /\ o.partial \in {512, 1024}
       /\ o.oob_size \in Nat /\ o.oob_size >= HAMMING_SPARE_B0 + HAMMING_SIZE
       /\ o.oob_size * (o.page_size \div o.partial) < 2 ^ 12
       /\ o.pages_per_block \in Nat /\ o.cleanmarker \in BOOLEAN /\ o.trim \in BOOLEAN
  /\ Inputs \subseteq Seq([kind : {"blank", "data", "ubifs"}, full : BOOLEAN])
  /\ \A f \in Inputs : \A i \in DOMAIN f : i < Len(f) => f[i].full

VARIABLES
  p,           \* the options
  infile,      \* what is left of the input
  p_spare_jffs2_cleanmarker,
  page,        \* page within the erase block
  image,       \* the pages written to the .out file
  building     \* "start", "loop", "done" or "refused"

imageVars == <<p, infile, p_spare_jffs2_cleanmarker, page, image, building>>

-----------------------------------------------------------------------------
(***************************************************************************)
(* The spare area.                                                         *)
(***************************************************************************)
partial_pages_per_page == p.page_size \div p.partial
OOB_SIZE == p.oob_size * partial_pages_per_page
Offsets == 0 .. OOB_SIZE - 1

\* Bytes of BCH code per partial page: the message is cut to whole bytes.
v ==
  LET n == (p.partial + p.oob_size) * 8
      k == n - p.order * p.level
  IN p.partial + p.oob_size - k \div 8

\* The layouts of calc_spare_layout: bad block indicators, and the ECC bytes
\* first .. last of every sub bytes.
Entry(level, spare, size, bi, sub, first, last) ==
  [level |-> level, spare |-> spare, size |-> size,
   bi |-> bi, sub |-> sub, first |-> first, last |-> last]

Layouts ==
  { Entry( 1,  16,  512, {5},    16,  6,  8), Entry( 4,  16,  512, {5}, 16,  9, 15),
    Entry( 1,  64, 2048, {0, 1}, 16,  6,  8), Entry( 4,  64, 2048, {0}, 16,  9, 15),
    Entry( 8,  64, 2048, {0},    16,  3, 15), Entry( 8, 108, 2048, {0}, 27, 13, 26),
    Entry( 1, 128, 4096, {0, 1}, 16,  6,  8), Entry( 4, 128, 4096, {0}, 16,  9, 15),
    Entry( 8, 128, 4096, {0},    16,  3, 15), Entry( 8, 216, 4096, {0}, 27, 14, 26),
    Entry(12, 216, 4096, {0},    27,  7, 26), Entry( 4, 256, 8192, {0}, 16,  9, 15),
    Entry( 8, 256, 8192, {0},    16,  3, 15), Entry( 8, 432, 8192, {0}, 27, 14, 26),
    Entry(12, 432, 8192, {0},    27,  7, 26) }

\* calc_spare_layout keeps LAYOUT_PARMS in 32 bits: four are left of the level.
Matching ==
  {e \in Layouts : e.level = p.level % 16 /\ e.spare = OOB_SIZE /\ e.size = p.page_size}

\* Without a layout no byte is reserved.
ECC_MASK_BIT_NoIndicator(e, i) == i % e.sub \in e.first .. e.last
ECC_MASK_BIT(e, i) == i \in e.bi \/ i % e.sub \in e.first .. e.last
Reserved == {i \in Offsets : \E e \in Matching : ECC_MASK_BIT(e, i)}

\* The clean marker, byte by byte in the free offsets.
calc_spare_layout ==
  LET free == Offsets \ Reserved
      before(i) == Cardinality({j \in free : j < i})
      marker == {i \in free : before(i) < CLEANMARKER_SIZE}
  IN [i \in Offsets |-> IF i \in marker THEN "marker" ELSE "ff"]

\* Where the ECC of each partial page is stored.
ecc_code ==
  IF p.level = 1
  THEN {i \in Offsets : i % p.oob_size \in HAMMING_SPARE_B0 .. HAMMING_SPARE_B0 + HAMMING_SIZE - 1}
  ELSE {i \in Offsets : i % p.oob_size >= p.oob_size - v}

-----------------------------------------------------------------------------
ImageInit ==
  /\ p \in Params
  /\ infile \in Inputs
  /\ p_spare_jffs2_cleanmarker = p.cleanmarker
  /\ page = 0
  /\ image = <<>>
  /\ building = "start"

\* The checks before the files are opened.
CheckOptions ==
  /\ building = "start"
  /\ building' = IF p.page_size % p.partial = 0 /\ v <= p.oob_size THEN "loop" ELSE "refused"
  /\ UNCHANGED <<p, infile, p_spare_jffs2_cleanmarker, page, image>>

\* End of file, or a short page when trimming.
Exhausted == infile = <<>> \/ (infile # <<>> /\ p.trim /\ ~Head(infile).full)

EndOfFile ==
  /\ building = "loop"
  /\ Exhausted
  /\ building' = "done"
  /\ UNCHANGED <<p, infile, p_spare_jffs2_cleanmarker, page, image>>

Spare ==
  LET marked == IF p_spare_jffs2_cleanmarker /\ page = 0 THEN calc_spare_layout
                ELSE [i \in Offsets |-> "ff"]
      ecc == ecc_code
  IN IF Head(infile).kind = "blank" THEN marked
     ELSE [i \in Offsets |-> IF i \in ecc THEN "ecc" ELSE marked[i]]

NextPage_NoWrap == page + 1
NextPage == IF page + 1 >= p.pages_per_block THEN 0 ELSE page + 1

FoundUBIFS_Ignored == p_spare_jffs2_cleanmarker
FoundUBIFS == p_spare_jffs2_cleanmarker /\ Head(infile).kind # "ubifs"

WriteOut ==
  /\ building = "loop"
  /\ ~Exhausted
  /\ image' = Append(image, [main |-> Head(infile).kind, oob |-> Spare])
  /\ p_spare_jffs2_cleanmarker' = FoundUBIFS
  /\ page' = NextPage
  /\ infile' = Tail(infile)
  /\ UNCHANGED <<p, building>>

ImageNext == CheckOptions \/ EndOfFile \/ WriteOut

-----------------------------------------------------------------------------
(***************************************************************************)
(* Properties.                                                             *)
(***************************************************************************)
\* Page i of the image is the first of its block and no earlier page had the
\* split marker.
ShouldMark(i) ==
  /\ p.cleanmarker
  /\ p.pages_per_block > 1 => (i - 1) % p.pages_per_block = 0
  /\ \A j \in 1 .. i - 1 : image[j].main # "ubifs"

\* With the default field order a clean marker is there, whole, on exactly the pages
\* that should have one, and the ECC written after it lands beside it.
MarkersKept ==
  p.order = MIN_FIELD_ORDER /\ Matching # {} =>
    \A i \in DOMAIN image :
      Cardinality({k \in Offsets : image[i].oob[k] = "marker"})
        = IF ShouldMark(i) THEN CLEANMARKER_SIZE ELSE 0

\* So it is for the levels that their four bits of LAYOUT_PARMS hold.
MarkersWhole == p.level < 16 => MarkersKept

\* With a known layout, or one that a larger level is taken for, neither marker
\* nor ECC touches a bad block indicator: the image declares no block bad.
GoodBlocks ==
  \A e \in Matching, i \in DOMAIN image : \A k \in e.bi : image[i].oob[k] = "ff"
=============================================================================
