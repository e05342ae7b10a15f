---------------------------- MODULE NfFlow_proofs ----------------------------
(***************************************************************************)
(* What holds of NandTool on a chip that keeps up and does not fail, for   *)
(* every chip size, block size, file and range of pages.                   *)
(***************************************************************************)
EXTENDS NfFlow, FiniteSetTheorems, SequenceTheorems, TLAPS

Working == {"read", "verify", "write"}

\* The command line names pages of the chip, and the row bytes tell them apart.
InChip == \A n \in PageNos : n <= NPages
Addressable == \A q \in Pages : LargeRow(q) % NPages = q

Things == Content \cup {"ecc", "marker", "marker+ecc", "data", "ubifs"}

-----------------------------------------------------------------------------
Types ==
  /\ kind \in {"small", "large"} /\ access \in {"main", "oob", "both"}
  /\ pc \in {"options", "exit", "done"} \cup Working
  /\ action \in {"none", "id"} \cup Working
  /\ x \in Nat /\ at \in Nat /\ verifyErrors \in Nat
  /\ row \in Pages /\ latch \in [Units -> Things] /\ cells \in [Pages -> [Units -> Things]]
  /\ file \in Seq(Things) /\ pageBuf \in Seq(Things)
  /\ ~fail

\* The range of pages.
RangeOK ==
  /\ pc \notin Working => calls = <<>>
  /\ pc = "options" =>
       /\ pageBuf = <<>> /\ x = 0 /\ at = 0 /\ verifyErrors = 0
       /\ \/ start_pageno = -1 /\ end_pageno = -1
          \/ start_pageno \in Nat /\ end_pageno \in Nat /\ start_pageno < end_pageno /\ end_pageno <= NPages
  /\ pc \in Working =>
       /\ start_pageno \in Nat /\ end_pageno \in 0 .. NPages
       /\ start_pageno <= x /\ x <= end_pageno
       /\ calls # <<>> \/ pageBuf # <<>> => x < end_pageno

(***************************************************************************)
(* Reading a page: what the calls still to make will find.                 *)
(***************************************************************************)
Between == calls = <<>> /\ pageBuf = <<>> /\ busy = "none"

\* The calls after the first k of a sequence.
After(s, k) == SubSeq(s, k + 1, Len(s))

UnitAt(i) == IF access = "oob" THEN 3 ELSE i

Latched == row = x /\ (busy = "read" \/ (busy = "none" /\ latch = cells[x]))

\* The buffer has the first n units of the page.
Got(n) == Len(pageBuf) = n /\ \A i \in 1 .. n : pageBuf[i] = cells[x][UnitAt(i)]

SmallFetch(l, s) ==
  /\ calls = After(readPage, 3 * l + s) /\ Got(l)
  /\ s = 0 => busy = "none"
  /\ s = 1 => busy = "none" /\ cmd \in DOMAIN Pointer /\ area = UnitAt(l + 1)
  /\ s = 2 => Latched /\ area = UnitAt(l + 1)

Fetches == IF access = "both" THEN 2 ELSE 1
FetchAt(b) == IF access = "oob" \/ b = 1 THEN 3 ELSE 1

\* The units b fetches bring.
GotBy(b) == IF b = 0 THEN 0 ELSE IF b < Fetches THEN 2 ELSE Size

LargeFetch(b, s) ==
  /\ calls = After(readPage, 5 * b + s) /\ Got(GotBy(b))
  /\ s \in {0, 1, 2, 4} => busy = "none"
  /\ s \in {1, 2} => cmd = "read0"
  /\ s \in {2, 3, 4} => area = FetchAt(b) /\ row = x
  /\ s \in {3, 4} => Latched

Reading ==
  \/ Between
  \/ kind = "small" /\ \E l \in 0 .. Size, s \in 0 .. 2 : (l = Size => s = 0) /\ SmallFetch(l, s)
  \/ kind = "large" /\ \E b \in 0 .. Fetches, s \in 0 .. 4 : (b = Fetches => s = 0) /\ LargeFetch(b, s)

\* The pages before page x are as the file has them.
SameAsFile ==
  \A q \in start_pageno .. x - 1, i \in 1 .. Size :
    file[Size * (q - start_pageno) + i] = cells[q][UnitAt(i)]

Compared ==
  /\ at = Size * (x - start_pageno) /\ at <= Len(file)
  /\ verifyErrors = 0 <=> SameAsFile

(***************************************************************************)
(* Writing a page.                                                         *)
(***************************************************************************)
Erasing == x % EraseEvery = 0
EraseCalls == IF ~Erasing THEN 0 ELSE IF kind = "large" THEN 6 ELSE 5
Plan == If(Erasing, eraseBlock) \o writePage(pageBuf)

EraseStage(k, erased) ==
  /\ k \in {0, 1, 2, 4, 5} => busy = "none"
  /\ k \in {1, 2} => cmd = "erase1"
  /\ k = 2 => row = x
  /\ k = 3 => \/ busy = "erase" /\ row = x /\ ~erased
              \/ busy = "none" /\ erased
  /\ k < 3 => ~erased
  /\ k > 3 => erased

\* The page register holds the units S of the buffer.
Loaded(S) == latch = [w \in Units |-> IF w \in S THEN pageBuf[w] ELSE Blank]

LargeStage(j, done) ==
  /\ j # 4 => busy = "none"
  /\ j \in {1, 2, 3} => cmd = "seqin"
  /\ j \in {1, 2} => Loaded({})
  /\ j = 2 => area = 1
  /\ j \in {2, 3} => row = x
  /\ j = 3 => Loaded(Units)
  /\ j = 4 => \/ busy = "program" /\ row = x /\ Loaded(Units) /\ done = {}
              \/ busy = "none" /\ done = Units
  /\ j < 4 => done = {}
  /\ j > 4 => done = Units

\* The first u units are programmed.
SmallStage(u, s, done) ==
  /\ s # 5 => busy = "none"
  /\ s \in {1, 2, 3} => area = u + 1
  /\ s \in {2, 3, 4} => cmd = "seqin"
  /\ s \in {2, 3} => Loaded({})
  /\ s \in {3, 4} => row = x
  /\ s = 4 => Loaded({u + 1})
  /\ s = 5 => \/ busy = "program" /\ row = x /\ Loaded({u + 1}) /\ done = 1 .. u
              \/ busy = "none" /\ done = 1 .. u + 1
  /\ s # 5 => done = 1 .. u

Buffered ==
  access = "both" =>
    /\ Len(pageBuf) = 3 /\ at = 3 * (x - start_pageno) + 3
    /\ \A w \in Units : pageBuf[w] = file[3 * (x - start_pageno) + w]

Stage(erased, done) ==
  \/ Between /\ ~erased /\ done = {} /\ (access = "both" => at = 3 * (x - start_pageno))
  \/ /\ pageBuf # <<>> /\ Buffered /\ done = {}
     /\ \E k \in 0 .. EraseCalls - 1 : calls = After(Plan, k) /\ EraseStage(k, erased)
  \/ /\ pageBuf # <<>> /\ Buffered /\ done = {} /\ erased
     /\ access # "both" /\ calls = After(Plan, EraseCalls) /\ busy = "none"
  \/ /\ pageBuf # <<>> /\ Buffered /\ erased
     /\ access = "both" /\ kind = "large"
     /\ \E j \in 0 .. 6 : calls = After(Plan, EraseCalls + j) /\ LargeStage(j, done)
  \/ /\ pageBuf # <<>> /\ Buffered /\ erased
     /\ access = "both" /\ kind = "small"
     /\ \E u \in 0 .. 3, s \in 0 .. 5 :
          (u = 3 => s = 0) /\ calls = After(Plan, EraseCalls + 6 * u + s) /\ SmallStage(u, s, done)

\* A page written is still as it should be.
Kept(q) ==
  /\ \E a \in 0 .. q : Erases(a) /\ SameBlock(a, q)
  /\ \A a \in q + 1 .. x : ~(Erases(a) /\ SameBlock(a, q))
  => cells[q] = [u \in Units |-> file[3 * (q - start_pageno) + u]]

\* A page that main has erased is blank, but for what has been written of page x.
Ahead(q, erased, done) ==
  (\E a \in start_pageno .. x : Erases(a) /\ SameBlock(a, q) /\ (a = x => erased))
  => cells[q] = [w \in Units |-> IF q = x /\ w \in done THEN pageBuf[w] ELSE Blank]

Writing ==
  /\ access # "both" => x = start_pageno
  /\ \A q \in start_pageno .. x - 1 : Kept(q)
  /\ \E erased \in BOOLEAN, done \in SUBSET Units :
       Stage(erased, done) /\ \A q \in x .. NPages - 1 : Ahead(q, erased, done)

Sound ==
  /\ Types /\ RangeOK
  /\ pc \in {"read", "verify"} => Reading
  /\ pc = "verify" => Compared
  /\ pc = "write" => Writing

IInv == 
  /\ building # "done" => pc = "options" /\ busy = "none"
  /\ (Untroubled => Sound)

-----------------------------------------------------------------------------
(***************************************************************************)
(* The image.                                                              *)
(***************************************************************************)
Kinds == {"blank", "data", "ubifs"}
GoodSpare(oob) == \A e \in Matching : \A k \in e.bi : oob[k] = "ff"

ImageOK ==
  /\ p \in Params
  /\ building = "loop" => v <= p.oob_size
  /\ infile \in Seq([kind : Kinds, full : BOOLEAN])
  /\ image \in Seq([main : Kinds, oob : [Offsets -> {"ff", "marker", "ecc"}]])
  /\ \A i \in DOMAIN image : GoodSpare(image[i].oob)

\* A spare area that a layout names fixes the bytes per partial page.
LEMMA SpareSizes ==
  ASSUME p \in Params, NEW e \in Matching
  PROVE  /\ e \in Layouts /\ e.level = p.level % 16 /\ e.spare = OOB_SIZE /\ e.size = p.page_size
         /\ OOB_SIZE \in {16, 64, 128, 256} => p.oob_size \in {16, 32}
         /\ OOB_SIZE \in {108, 216, 432} => p.oob_size \in {27, 54}
         /\ p.order \in {13, 14} /\ p.level \in 1 .. 40 /\ e.level \in {1, 4, 8, 12}
         /\ p.partial \in Nat /\ p.oob_size \in Nat
<1>1. /\ p.level \in 1 .. 40 /\ p.order \in {13, 14} /\ p.page_size \in 1 .. 2 ^ 16 - 1
      /\ p.partial \in {512, 1024} /\ p.oob_size \in Nat
  BY ImageAssumption DEF ImageAssumption, MIN_FIELD_ORDER
<1>2. e \in Layouts /\ e.level = p.level % 16 /\ e.spare = OOB_SIZE /\ e.size = p.page_size
  BY DEF Matching
<1>3. /\ e.level \in {1, 4, 8, 12}
      /\ \/ OOB_SIZE = 16 /\ p.page_size = 512
         \/ OOB_SIZE \in {64, 108} /\ p.page_size = 2048
         \/ OOB_SIZE \in {128, 216} /\ p.page_size = 4096
         \/ OOB_SIZE \in {256, 432} /\ p.page_size = 8192
  BY <1>2 DEF Layouts, Entry
<1>4. OOB_SIZE = p.oob_size * (p.page_size \div p.partial)
  BY DEF OOB_SIZE, partial_pages_per_page
<1>5. /\ 512 \div 512 = 1 /\ 2048 \div 512 = 4 /\ 4096 \div 512 = 8 /\ 8192 \div 512 = 16
      /\ 512 \div 1024 = 0 /\ 2048 \div 1024 = 2 /\ 4096 \div 1024 = 4 /\ 8192 \div 1024 = 8
  OBVIOUS
<1>6. /\ OOB_SIZE \in {16, 64, 128, 256} => p.oob_size \in {16, 32}
      /\ OOB_SIZE \in {108, 216, 432} => p.oob_size \in {27, 54}
  <2>1. ASSUME NEW s \in Nat, NEW n \in Nat, p.page_size = s, s \div p.partial = n
        PROVE  OOB_SIZE = p.oob_size * n
    BY <1>4, <2>1
  <2>2. CASE p.partial = 512
    <3>1. /\ p.page_size = 512 => OOB_SIZE = p.oob_size * 1
          /\ p.page_size = 2048 => OOB_SIZE = p.oob_size * 4
          /\ p.page_size = 4096 => OOB_SIZE = p.oob_size * 8
          /\ p.page_size = 8192 => OOB_SIZE = p.oob_size * 16
      BY <1>5, <2>1, <2>2
    <3> QED BY <1>1, <1>3, <3>1
  <2>3. CASE p.partial = 1024
    <3>1. /\ p.page_size = 512 => OOB_SIZE = p.oob_size * 0
          /\ p.page_size = 2048 => OOB_SIZE = p.oob_size * 2
          /\ p.page_size = 4096 => OOB_SIZE = p.oob_size * 4
          /\ p.page_size = 8192 => OOB_SIZE = p.oob_size * 8
      BY <1>5, <2>1, <2>3
    <3> QED BY <1>1, <1>3, <3>1
  <2> QED BY <1>1, <2>2, <2>3
<1> QED BY <1>1, <1>2, <1>3, <1>6

\* The bytes of ECC per partial page, for the levels that a layout is selected
\* for: as they are, or cut to four bits.
LEMMA EccSizes ==
  ASSUME p \in Params, NEW e \in Matching
  PROVE  /\ e.level = 1 => \/ p.level = 1
                           \/ p.level = 17 /\ v \in {28, 30}
                           \/ p.level = 33 /\ v \in {54, 58}
         /\ e.level = 4 => \/ p.level = 4 /\ v = 7
                           \/ p.level = 20 /\ v \in {33, 35}
                           \/ p.level = 36 /\ v \in {59, 63}
         /\ e.level = 8 => \/ p.level = 8 /\ v \in {13, 14} /\ (p.order = 13 => v = 13)
                           \/ p.level = 24 /\ v \in {39, 42}
                           \/ p.level = 40 /\ v \in {65, 70}
         /\ e.level = 12 => \/ p.level = 12 /\ v \in {20, 21} /\ (p.order = 13 => v = 20)
                            \/ p.level = 28 /\ v \in {46, 49}
<1>1. /\ e.level = p.level % 16 /\ p.level \in 1 .. 40 /\ p.order \in {13, 14}
      /\ p.partial \in Nat /\ p.oob_size \in Nat
  BY SpareSizes
<1>2. \A a, b, t \in Nat : a + b - ((a + b) * 8 - t) \div 8 = (t + 7) \div 8
  OBVIOUS
<1>3. v = p.partial + p.oob_size - ((p.partial + p.oob_size) * 8 - p.order * p.level) \div 8
  BY DEF v
<1>4. ASSUME NEW t \in Nat, t = p.order * p.level
      PROVE  v = (t + 7) \div 8
  <2>1. v = p.partial + p.oob_size - ((p.partial + p.oob_size) * 8 - t) \div 8
    BY ONLY <1>3, <1>4, Zenon
  <2>2. p.partial \in Nat /\ p.oob_size \in Nat
    BY <1>1
  <2> QED BY ONLY <1>2, <2>1, <2>2, Zenon
<1>5. ASSUME NEW l \in 1 .. 40, p.level = l
      PROVE  \/ v = (13 * l + 7) \div 8 /\ p.order = 13
             \/ v = (14 * l + 7) \div 8 /\ p.order = 14
  <2>1. CASE p.order = 13
    <3>1. 13 * l \in Nat /\ 13 * l = p.order * p.level
      BY <1>5, <2>1
    <3> QED BY <1>4, <2>1, <3>1
  <2>2. CASE p.order = 14
    <3>1. 14 * l \in Nat /\ 14 * l = p.order * p.level
      BY <1>5, <2>2
    <3> QED BY <1>4, <2>2, <3>1
  <2> QED BY <1>1, <2>1, <2>2
<1>6. /\ e.level = 1 => p.level \in {1, 17, 33}
      /\ e.level = 4 => p.level \in {4, 20, 36}
      /\ e.level = 8 => p.level \in {8, 24, 40}
      /\ e.level = 12 => p.level \in {12, 28}
  BY <1>1
<1> QED BY <1>5, <1>6

\* With every layout of the table, the ECC of a page leaves its bad block
\* indicators alone.
LEMMA IndicatorsClear ==
  ASSUME p \in Params, v <= p.oob_size, NEW e \in Matching, NEW k \in e.bi
  PROVE  k \in Offsets /\ k \in Reserved /\ k \notin ecc_code
<1>1. /\ e \in Layouts /\ e.spare = OOB_SIZE /\ e.size = p.page_size
      /\ OOB_SIZE \in {16, 64, 128, 256} => p.oob_size \in {16, 32}
      /\ OOB_SIZE \in {108, 216, 432} => p.oob_size \in {27, 54}
  BY SpareSizes
<1>2. \/ e.level = 1 /\ OOB_SIZE = 16 /\ k = 5 /\ e.size = 512
      \/ e.level = 1 /\ OOB_SIZE \in {64, 128} /\ k \in {0, 1}
      \/ e.level = 4 /\ OOB_SIZE = 16 /\ k = 5
      \/ e.level = 4 /\ OOB_SIZE \in {64, 128, 256} /\ k = 0
      \/ e.level = 8 /\ OOB_SIZE \in {64, 128, 256, 108, 216, 432} /\ k = 0
      \/ e.level = 12 /\ OOB_SIZE \in {216, 432} /\ k = 0
  BY <1>1 DEF Layouts, Entry
<1>3. k \in {0, 1, 5} /\ k \in Offsets
  BY <1>1 DEF Layouts, Entry, Offsets
<1>4. k \in Reserved
  BY <1>3 DEF Reserved, ECC_MASK_BIT
<1>5. p.oob_size \in {16, 27, 32, 54} /\ k % p.oob_size = k
  <2>1. p.oob_size \in {16, 27, 32, 54}
    BY <1>1, <1>2
  <2> QED BY <1>3, <2>1
<1>6. CASE p.level = 1
  BY <1>3, <1>4, <1>5, <1>6 DEF ecc_code, HAMMING_SPARE_B0, HAMMING_SIZE
<1>7. CASE p.level # 1
  <2>1. v \in Nat /\ k < p.oob_size - v
    <3>1. CASE e.level = 1 /\ OOB_SIZE = 16
      <4>1. p.page_size = 512 /\ p.partial \in {512, 1024} /\ p.oob_size \in Nat
            /\ OOB_SIZE = p.oob_size * (p.page_size \div p.partial)
        BY <1>1, <1>2, <3>1, ImageAssumption DEF ImageAssumption, OOB_SIZE, partial_pages_per_page
      <4>2. OOB_SIZE = p.oob_size * 1 \/ OOB_SIZE = p.oob_size * 0
        BY <4>1
      <4>3. p.oob_size = 16
        BY <3>1, <4>1, <4>2
      <4> QED BY <1>7, <3>1, <4>3, EccSizes
    <3>2. CASE e.level = 1 /\ OOB_SIZE \in {64, 128}
      <4>1. p.oob_size \in {16, 32} /\ k \in {0, 1}
        BY <1>1, <1>2, <3>2
      <4> QED BY <1>7, <3>2, <4>1, EccSizes
    <3>3. CASE e.level = 4
      <4>1. p.oob_size \in {16, 32} /\ k \in {0, 5}
        BY <1>1, <1>2, <3>3
      <4> QED BY <3>3, <4>1, EccSizes
    <3>4. CASE e.level = 8
      <4>1. p.oob_size \in {16, 27, 32, 54} /\ k = 0
        BY <1>2, <1>5, <3>4
      <4> QED BY <3>4, <4>1, EccSizes
    <3>5. CASE e.level = 12
      <4>1. p.oob_size \in {27, 54} /\ k = 0
        BY <1>1, <1>2, <3>5
      <4> QED BY <3>5, <4>1, EccSizes
    <3> QED BY <1>2, <3>1, <3>2, <3>3, <3>4, <3>5
  <2> QED BY <1>3, <1>4, <1>5, <1>7, <2>1 DEF ecc_code
<1> QED BY <1>6, <1>7

\* Building keeps the image as it should be.
LEMMA BuildSound ==
  ASSUME ImageOK, ImageNext
  PROVE  ImageOK'
<1>1. CASE CheckOptions
  BY <1>1 DEF CheckOptions, ImageOK, Offsets, OOB_SIZE, partial_pages_per_page, GoodSpare, Matching, v
<1>2. CASE EndOfFile
  BY <1>2 DEF EndOfFile, ImageOK, Offsets, OOB_SIZE, partial_pages_per_page, GoodSpare, Matching, v
<1>3. CASE WriteOut
  <2> DEFINE new == [main |-> Head(infile).kind, oob |-> Spare]
             S == [main : Kinds, oob : [Offsets -> {"ff", "marker", "ecc"}]]
  <2>1. infile # <<>> /\ image' = Append(image, new) /\ infile' = Tail(infile) /\ p' = p
    BY <1>3 DEF WriteOut, Exhausted
  <2>2. infile \in Seq([kind : Kinds, full : BOOLEAN]) /\ p \in Params /\ image \in Seq(S)
    BY DEF ImageOK
  <2>3. Head(infile) \in [kind : Kinds, full : BOOLEAN] /\ infile' \in Seq([kind : Kinds, full : BOOLEAN])
    BY <2>1, <2>2, HeadTailProperties
  <2>4. calc_spare_layout \in [Offsets -> {"ff", "marker", "ecc"}] /\ \A k \in Reserved : calc_spare_layout[k] = "ff"
    BY DEF calc_spare_layout, Reserved
  <2> DEFINE marked == IF p_spare_jffs2_cleanmarker /\ page = 0 THEN calc_spare_layout ELSE [i \in Offsets |-> "ff"]
  <2>5. marked \in [Offsets -> {"ff", "marker", "ecc"}] /\ \A k \in Reserved : marked[k] = "ff"
    BY <2>4 DEF Reserved
  <2>6. Spare = IF Head(infile).kind = "blank" THEN marked
                ELSE [i \in Offsets |-> IF i \in ecc_code THEN "ecc" ELSE marked[i]]
    BY DEF Spare
  <2> HIDE DEF marked
  <2>7. Spare \in [Offsets -> {"ff", "marker", "ecc"}]
    BY <2>5, <2>6
  <2>8. GoodSpare(Spare)
    <3> SUFFICES ASSUME NEW e \in Matching, NEW k \in e.bi
                 PROVE  Spare[k] = "ff"
      BY DEF GoodSpare
    <3>1. k \in Offsets /\ k \in Reserved /\ k \notin ecc_code
      BY <1>3, <2>2, IndicatorsClear DEF ImageOK, WriteOut
    <3> QED BY <2>5, <2>6, <3>1
  <2>9. new \in S /\ new.oob = Spare
    BY <2>3, <2>7
  <2> HIDE DEF new, S
  <2>10. /\ image' \in Seq(S) /\ Len(image') = Len(image) + 1 /\ image'[Len(image) + 1] = new
         /\ \A i \in 1 .. Len(image) : image'[i] = image[i]
    BY <2>1, <2>2, <2>9, AppendProperties
  <2>11. Offsets' = Offsets /\ \A o : GoodSpare(o)' <=> GoodSpare(o)
    BY <2>1 DEF Offsets, OOB_SIZE, partial_pages_per_page, GoodSpare, Matching
  <2>12. \A i \in DOMAIN image' : GoodSpare(image'[i].oob)
    <3> SUFFICES ASSUME NEW i \in 1 .. Len(image) + 1
                 PROVE  GoodSpare(image'[i].oob)
      BY <2>2, <2>10
    <3>1. CASE i = Len(image) + 1
      BY <2>8, <2>9, <2>10, <3>1
    <3>2. CASE i \in 1 .. Len(image)
      <4>1. i \in DOMAIN image /\ image'[i] = image[i]
        BY <2>2, <2>10, <3>2
      <4>2. GoodSpare(image[i].oob)
        BY <4>1 DEF ImageOK
      <4> QED BY <4>1, <4>2
    <3> QED BY <2>2, <3>1, <3>2
  <2>13. image' \in Seq([main : Kinds, oob : [Offsets -> {"ff", "marker", "ecc"}]])'
    BY <2>10, <2>11 DEF S
  <2>14. (building = "loop" => v <= p.oob_size)'
    BY <1>3, <2>1 DEF WriteOut, ImageOK, v
  <2> QED BY <2>1, <2>2, <2>3, <2>11, <2>12, <2>13, <2>14 DEF ImageOK
<1> QED BY <1>1, <1>2, <1>3 DEF ImageNext

\* As a file, the image is a sequence of units.
LEMMA AsFileType == ASSUME ImageOK PROVE AsFile \in Seq(Things)
<1>1. image \in Seq([main : Kinds, oob : [Offsets -> {"ff", "marker", "ecc"}]]) /\ Len(image) \in Nat
  BY DEF ImageOK
<1>2. \A o : Spared(o) \in Things
  BY DEF Spared, Things, Content
<1>3. \A i \in 1 .. Len(image) : Main(i) \in Things
  <2> TAKE i \in 1 .. Len(image)
  <2>1. image[i] \in [main : Kinds, oob : [Offsets -> {"ff", "marker", "ecc"}]]
    BY <1>1, ElementOfSeq
  <2> QED BY <2>1 DEF Main, Kinds, Things, Content
<1>4. ASSUME NEW k \in 1 .. 3 * Len(image)
      PROVE  (LET i == (k + 2) \div 3 IN IF k % 3 = 0 THEN Spared(image[i].oob) ELSE Main(i)) \in Things
  <2>1. (k + 2) \div 3 \in 1 .. Len(image)
    BY <1>1
  <2> QED BY <1>2, <1>3, <2>1
<1>5. AsFile \in [1 .. 3 * Len(image) -> Things]
  BY <1>4 DEF AsFile
<1>6. 3 * Len(image) \in Nat
  BY <1>1
<1> QED BY ONLY <1>5, <1>6

-----------------------------------------------------------------------------
\* The clean marker takes the first eight free bytes.
Free == Offsets \ Reserved
FirstFree == {i \in Free : Cardinality({j \in Free : j < i}) < CLEANMARKER_SIZE}
Markers(oob) == {k \in Offsets : oob[k] = "marker"}

LEMMA LayoutIs ==
  calc_spare_layout = [i \in Offsets |-> IF i \in FirstFree THEN "marker" ELSE "ff"]
BY DEF calc_spare_layout, Free, FirstFree

LEMMA EightElements ==
  ASSUME NEW a \in Nat, NEW b \in Nat, NEW c \in Nat, NEW d \in Nat,
         NEW e \in Nat, NEW f \in Nat, NEW g \in Nat, NEW h \in Nat,
         a < b, b < c, c < d, d < e, e < f, f < g, g < h
  PROVE  Cardinality({a, b, c, d, e, f, g, h}) = 8
<1>1. IsFiniteSet({a}) /\ Cardinality({a}) = 1
  BY FS_Singleton
<1>2. IsFiniteSet({a, b}) /\ Cardinality({a, b}) = 2
  <2>1. b \notin {a} /\ {a, b} = {a} \cup {b}
    OBVIOUS
  <2> QED BY <1>1, <2>1, FS_AddElement
<1>3. IsFiniteSet({a, b, c}) /\ Cardinality({a, b, c}) = 3
  <2>1. c \notin {a, b} /\ {a, b, c} = {a, b} \cup {c}
    OBVIOUS
  <2> QED BY <1>2, <2>1, FS_AddElement
<1>4. IsFiniteSet({a, b, c, d}) /\ Cardinality({a, b, c, d}) = 4
  <2>1. d \notin {a, b, c} /\ {a, b, c, d} = {a, b, c} \cup {d}
    OBVIOUS
  <2> QED BY <1>3, <2>1, FS_AddElement
<1>5. IsFiniteSet({a, b, c, d, e}) /\ Cardinality({a, b, c, d, e}) = 5
  <2>1. e \notin {a, b, c, d} /\ {a, b, c, d, e} = {a, b, c, d} \cup {e}
    OBVIOUS
  <2> QED BY <1>4, <2>1, FS_AddElement
<1>6. IsFiniteSet({a, b, c, d, e, f}) /\ Cardinality({a, b, c, d, e, f}) = 6
  <2>1. f \notin {a, b, c, d, e} /\ {a, b, c, d, e, f} = {a, b, c, d, e} \cup {f}
    OBVIOUS
  <2> QED BY <1>5, <2>1, FS_AddElement
<1>7. IsFiniteSet({a, b, c, d, e, f, g}) /\ Cardinality({a, b, c, d, e, f, g}) = 7
  <2>1. g \notin {a, b, c, d, e, f} /\ {a, b, c, d, e, f, g} = {a, b, c, d, e, f} \cup {g}
    OBVIOUS
  <2> QED BY <1>6, <2>1, FS_AddElement
<1>8. h \notin {a, b, c, d, e, f, g} /\ {a, b, c, d, e, f, g, h} = {a, b, c, d, e, f, g} \cup {h}
  OBVIOUS
<1> QED BY <1>7, <1>8, FS_AddElement

\* What has eight elements and comes first are the first eight.
LEMMA LeastEight ==
  ASSUME NEW F \in SUBSET Nat, IsFiniteSet(F), NEW M \in SUBSET F, Cardinality(M) = 8,
         \A m \in M, f \in F \ M : m < f
  PROVE  {i \in F : Cardinality({j \in F : j < i}) < 8} = M
<1>1. IsFiniteSet(M)
  BY FS_Subset
<1>2. ASSUME NEW i \in M
      PROVE  Cardinality({j \in F : j < i}) < 8
  <2>1. {j \in F : j < i} \subseteq M \ {i}
    <3> SUFFICES ASSUME NEW j \in F, j < i
                 PROVE  j \in M \ {i}
      OBVIOUS
    <3>1. j \in Nat /\ i \in Nat
      OBVIOUS
    <3>2. j # i /\ ~(i < j)
      BY <3>1
    <3> QED BY <3>2
  <2>2. IsFiniteSet(M \ {i}) /\ Cardinality(M \ {i}) = 7
    BY <1>1, FS_RemoveElement
  <2>3. Cardinality({j \in F : j < i}) <= 7 /\ IsFiniteSet({j \in F : j < i})
    BY <2>1, <2>2, FS_Subset
  <2>4. Cardinality({j \in F : j < i}) \in Nat
    BY <2>3, FS_CardinalityType
  <2> QED BY <2>3, <2>4
<1>3. ASSUME NEW i \in F \ M
      PROVE  ~(Cardinality({j \in F : j < i}) < 8)
  <2>1. M \subseteq {j \in F : j < i}
    OBVIOUS
  <2>2. IsFiniteSet({j \in F : j < i})
    BY FS_Subset
  <2>3. 8 <= Cardinality({j \in F : j < i}) /\ Cardinality({j \in F : j < i}) \in Nat
    BY <2>1, <2>2, FS_Subset, FS_CardinalityType
  <2> QED BY <2>3
<1> QED BY <1>2, <1>3

\* The layouts' free bytes, and where the ECC goes: with the default order the ECC of a page
\* leaves the first eight free bytes alone.
LEMMA Layout ==
  ASSUME p \in Params, NEW e \in Matching
  PROVE  \A i \in Offsets : i \in Reserved <=> ECC_MASK_BIT(e, i)
<1> SUFFICES ASSUME NEW f \in Matching
             PROVE  f = e
  BY DEF Reserved
<1>1. /\ e \in Layouts /\ e.level = p.level % 16 /\ e.spare = OOB_SIZE /\ e.size = p.page_size
      /\ f \in Layouts /\ f.level = p.level % 16 /\ f.spare = OOB_SIZE /\ f.size = p.page_size
  BY DEF Matching
<1>2. e.level = f.level /\ e.spare = f.spare /\ e.size = f.size
  BY <1>1
<1> QED BY ONLY <1>1, <1>2, SMTT(60) DEF Layouts, Entry

LEMMA MarkersFit ==
  ASSUME p \in Params, Matching # {}, p.order = MIN_FIELD_ORDER, p.level < 16
  PROVE  Cardinality(FirstFree) = CLEANMARKER_SIZE /\ FirstFree \cap ecc_code = {}
<1>1. PICK e \in Matching : TRUE
  OBVIOUS
<1>2. p.order = 13
  BY DEF MIN_FIELD_ORDER
<1>3. /\ e \in Layouts /\ e.level = p.level /\ e.spare = OOB_SIZE /\ e.size = p.page_size
      /\ OOB_SIZE \in {16, 64, 128, 256} => p.oob_size \in {16, 32}
      /\ OOB_SIZE \in {108, 216, 432} => p.oob_size \in {27, 54}
      /\ p.level = 4 => v = 7
      /\ p.level = 8 => v = 13
      /\ p.level = 12 => v = 20
  <2>1. p.level \in 1 .. 15 /\ e.level = p.level % 16
    BY SpareSizes
  <2>2. e.level = p.level
    BY <2>1
  <2> QED BY <1>2, <2>2, SpareSizes, EccSizes
<1>4. \A i \in Offsets : i \in Reserved <=> i \in e.bi \/ i % e.sub \in e.first .. e.last
  BY Layout DEF ECC_MASK_BIT
<1>5. /\ p.level = 1 => ecc_code = {i \in Offsets : i % p.oob_size \in 6 .. 8}
      /\ p.level # 1 => ecc_code = {i \in Offsets : i % p.oob_size >= p.oob_size - v}
  BY DEF ecc_code, HAMMING_SPARE_B0, HAMMING_SIZE
<1>6. Offsets = 0 .. OOB_SIZE - 1
  BY DEF Offsets
<1>7. ASSUME NEW M \in SUBSET Free, Cardinality(M) = 8, \A m \in M, f \in Free \ M : m < f,
             \A m \in M : m \notin ecc_code
      PROVE  Cardinality(FirstFree) = CLEANMARKER_SIZE /\ FirstFree \cap ecc_code = {}
  <2>1. Free \in SUBSET Nat /\ IsFiniteSet(Free)
    <3>1. OOB_SIZE \in Int
      BY <1>3 DEF Layouts, Entry
    <3>2. IsFiniteSet(Offsets) /\ Offsets \subseteq Nat
      BY <1>6, <3>1, FS_Interval
    <3> QED BY <3>2, FS_Subset DEF Free
  <2>2. FirstFree = M
    BY <1>7, <2>1, LeastEight DEF FirstFree, CLEANMARKER_SIZE
  <2> QED BY <1>7, <2>2 DEF CLEANMARKER_SIZE
<1>8. CASE p.level = 1 /\ OOB_SIZE = 16
  <2> DEFINE M == {0, 1, 2, 3, 4, 9, 10, 11}
  <2>1. p.oob_size \in {16, 32} /\ e.bi = {5} /\ e.sub = 16 /\ e.first = 6 /\ e.last = 8
    BY <1>3, <1>8 DEF Layouts, Entry
  <2>2. \A i \in Offsets : i \in Free <=> ~(i = 5 \/ i % 16 \in 6 .. 8)
    BY <1>4, <2>1 DEF Free
  <2>3. M \subseteq Free
    BY <1>6, <1>8, <2>1, <2>2
  <2>4. \A f \in Free \ M : f > 11
    BY <1>6, <1>8, <2>1, <2>2 DEF Free
  <2>5. \A m \in M : m \notin ecc_code
    BY <1>3, <1>5, <1>8, <2>1
  <2>6. Cardinality(M) = 8
    BY EightElements
  <2>7. \A m \in M, f \in Free \ M : m < f
    BY <1>6, <1>8, <2>4 DEF Free
  <2> HIDE DEF M
  <2> QED BY <1>7, <2>3, <2>5, <2>6, <2>7
<1>9. CASE p.level = 4 /\ OOB_SIZE = 16
  <2> DEFINE M == {0, 1, 2, 3, 4, 6, 7, 8}
  <2>1. p.oob_size \in {16, 32} /\ e.bi = {5} /\ e.sub = 16 /\ e.first = 9 /\ e.last = 15
    BY <1>3, <1>9 DEF Layouts, Entry
  <2>2. \A i \in Offsets : i \in Free <=> ~(i = 5 \/ i % 16 \in 9 .. 15)
    BY <1>4, <2>1 DEF Free
  <2>3. M \subseteq Free
    BY <1>6, <1>9, <2>1, <2>2
  <2>4. \A f \in Free \ M : f > 8
    BY <1>6, <1>9, <2>1, <2>2 DEF Free
  <2>5. \A m \in M : m \notin ecc_code
    BY <1>3, <1>5, <1>9, <2>1
  <2>6. Cardinality(M) = 8
    BY EightElements
  <2>7. \A m \in M, f \in Free \ M : m < f
    BY <1>6, <1>9, <2>4 DEF Free
  <2> HIDE DEF M
  <2> QED BY <1>7, <2>3, <2>5, <2>6, <2>7
<1>10. CASE p.level = 1 /\ OOB_SIZE \in {64, 128}
  <2> DEFINE M == {2, 3, 4, 5, 9, 10, 11, 12}
  <2>1. p.oob_size \in {16, 32} /\ e.bi = {0, 1} /\ e.sub = 16 /\ e.first = 6 /\ e.last = 8
    BY <1>3, <1>10 DEF Layouts, Entry
  <2>2. \A i \in Offsets : i \in Free <=> ~(i = 0 \/ i = 1 \/ i % 16 \in 6 .. 8)
    BY <1>4, <2>1 DEF Free
  <2>3. M \subseteq Free
    BY <1>6, <1>10, <2>1, <2>2
  <2>4. \A f \in Free \ M : f > 12
    BY <1>6, <1>10, <2>1, <2>2 DEF Free
  <2>5. \A m \in M : m \notin ecc_code
    BY <1>3, <1>5, <1>10, <2>1
  <2>6. Cardinality(M) = 8
    BY EightElements
  <2>7. \A m \in M, f \in Free \ M : m < f
    BY <1>6, <1>10, <2>4 DEF Free
  <2> HIDE DEF M
  <2> QED BY <1>7, <2>3, <2>5, <2>6, <2>7
<1>11. CASE p.level = 4 /\ OOB_SIZE \in {64, 128, 256}
  <2> DEFINE M == {1, 2, 3, 4, 5, 6, 7, 8}
  <2>1. p.oob_size \in {16, 32} /\ e.bi = {0} /\ e.sub = 16 /\ e.first = 9 /\ e.last = 15
    BY <1>3, <1>11 DEF Layouts, Entry
  <2>2. \A i \in Offsets : i \in Free <=> ~(i = 0 \/ i % 16 \in 9 .. 15)
    BY <1>4, <2>1 DEF Free
  <2>3. M \subseteq Free
    BY <1>6, <1>11, <2>1, <2>2
  <2>4. \A f \in Free \ M : f > 8
    BY <1>6, <1>11, <2>1, <2>2 DEF Free
  <2>5. \A m \in M : m \notin ecc_code
    BY <1>3, <1>5, <1>11, <2>1
  <2>6. Cardinality(M) = 8
    BY EightElements
  <2>7. \A m \in M, f \in Free \ M : m < f
    BY <1>6, <1>11, <2>4 DEF Free
  <2> HIDE DEF M
  <2> QED BY <1>7, <2>3, <2>5, <2>6, <2>7
<1>12. CASE p.level = 8 /\ OOB_SIZE \in {64, 128, 256}
  <2> DEFINE M == {1, 2, 16, 17, 18, 32, 33, 34}
  <2>1. p.oob_size \in {16, 32} /\ e.bi = {0} /\ e.sub = 16 /\ e.first = 3 /\ e.last = 15
    BY <1>3, <1>12 DEF Layouts, Entry
  <2>2. \A i \in Offsets : i \in Free <=> ~(i = 0 \/ i % 16 \in 3 .. 15)
    BY <1>4, <2>1 DEF Free
  <2>3. M \subseteq Free
    BY <1>6, <1>12, <2>1, <2>2
  <2>4. \A f \in Free \ M : f > 34
    BY <1>6, <1>12, <2>1, <2>2 DEF Free
  <2>5. \A m \in M : m \notin ecc_code
    BY <1>3, <1>5, <1>12, <2>1
  <2>6. Cardinality(M) = 8
    BY EightElements
  <2>7. \A m \in M, f \in Free \ M : m < f
    BY <1>6, <1>12, <2>4 DEF Free
  <2> HIDE DEF M
  <2> QED BY <1>7, <2>3, <2>5, <2>6, <2>7
<1>13. CASE p.level = 8 /\ OOB_SIZE \in {108, 216, 432}
  <2> DEFINE M == {1, 2, 3, 4, 5, 6, 7, 8}
  <2>1. p.oob_size \in {27, 54} /\ e.bi = {0} /\ e.sub = 27 /\ e.first \in {13, 14} /\ e.last = 26
    BY <1>3, <1>13 DEF Layouts, Entry
  <2>2. \A i \in Offsets : i \in Free <=> ~(i = 0 \/ i % 27 \in e.first .. 26)
    BY <1>4, <2>1 DEF Free
  <2>3. M \subseteq Free
    BY <1>6, <1>13, <2>1, <2>2
  <2>4. \A f \in Free \ M : f > 8
    BY <1>6, <1>13, <2>1, <2>2 DEF Free
  <2>5. \A m \in M : m \notin ecc_code
    BY <1>3, <1>5, <1>13, <2>1
  <2>6. Cardinality(M) = 8
    BY EightElements
  <2>7. \A m \in M, f \in Free \ M : m < f
    BY <1>6, <1>13, <2>4 DEF Free
  <2> HIDE DEF M
  <2> QED BY <1>7, <2>3, <2>5, <2>6, <2>7
<1>14. CASE p.level = 12 /\ OOB_SIZE \in {216, 432}
  <2> DEFINE M == {1, 2, 3, 4, 5, 6, 27, 28}
  <2>1. p.oob_size \in {27, 54} /\ e.bi = {0} /\ e.sub = 27 /\ e.first = 7 /\ e.last = 26
    BY <1>3, <1>14 DEF Layouts, Entry
  <2>2. \A i \in Offsets : i \in Free <=> ~(i = 0 \/ i % 27 \in 7 .. 26)
    BY <1>4, <2>1 DEF Free
  <2>3. M \subseteq Free
    BY <1>6, <1>14, <2>1, <2>2
  <2>4. \A f \in Free \ M : f > 28
    BY <1>6, <1>14, <2>1, <2>2 DEF Free
  <2>5. \A m \in M : m \notin ecc_code
    BY <1>3, <1>5, <1>14, <2>1
  <2>6. Cardinality(M) = 8
    BY EightElements
  <2>7. \A m \in M, f \in Free \ M : m < f
    BY <1>6, <1>14, <2>4 DEF Free
  <2> HIDE DEF M
  <2> QED BY <1>7, <2>3, <2>5, <2>6, <2>7
<1>15. \/ p.level = 1  /\ OOB_SIZE = 16
       \/ p.level = 4  /\ OOB_SIZE = 16
       \/ p.level = 1  /\ OOB_SIZE \in {64, 128}
       \/ p.level = 4  /\ OOB_SIZE \in {64, 128, 256}
       \/ p.level = 8  /\ OOB_SIZE \in {64, 128, 256}
       \/ p.level = 8  /\ OOB_SIZE \in {108, 216, 432}
       \/ p.level = 12 /\ OOB_SIZE \in {216, 432}
  BY <1>3 DEF Layouts, Entry
<1> QED BY <1>8, <1>9, <1>10, <1>11, <1>12, <1>13, <1>14, <1>15

-----------------------------------------------------------------------------
\* Every page so far has its marker or has none, and what the program remembers says
\* which the next one is.
MarkedOK ==
  /\ p \in Params /\ page \in Nat
  /\ p_spare_jffs2_cleanmarker <=> p.cleanmarker /\ \A j \in DOMAIN image : image[j].main # "ubifs"
  /\ page = IF p.pages_per_block > 1 THEN Len(image) % p.pages_per_block ELSE 0
  /\ p.order = MIN_FIELD_ORDER /\ p.level < 16 /\ Matching # {} =>
       \A i \in DOMAIN image : Markers(image[i].oob) = IF ShouldMark(i) THEN FirstFree ELSE {}

\* The page within the block, counted on.
LEMMA PageOn ==
  ASSUME NEW n \in Nat, NEW d \in Nat, d > 1
  PROVE  ((n + 1) % d) = IF (n % d) + 1 >= d THEN 0 ELSE (n % d) + 1
<1>1. (n % d) \in 0 .. d - 1 /\ n \div d \in Nat /\ n = d * (n \div d) + (n % d)
  OBVIOUS
<1>2. ASSUME NEW q \in Int, NEW r \in 0 .. d - 1
      PROVE  (d * q + r) % d = r
  OBVIOUS
<1>3. CASE (n % d) + 1 >= d
  <2>1. n + 1 = d * ((n \div d) + 1) + 0
    BY <1>1, <1>3
  <2>2. (n \div d) + 1 \in Int /\ 0 \in 0 .. d - 1
    BY <1>1
  <2>3. (d * ((n \div d) + 1) + 0) % d = 0
    BY ONLY <1>2, <2>2, Zenon
  <2>4. (n + 1) % d = 0
    BY ONLY <2>1, <2>3, Zenon
  <2> QED BY <1>3, <2>4
<1>4. CASE ~((n % d) + 1 >= d)
  <2>1. n + 1 = d * (n \div d) + ((n % d) + 1)
    BY <1>1, <1>4
  <2>2. n \div d \in Int /\ (n % d) + 1 \in 0 .. d - 1
    BY <1>1, <1>4
  <2>3. (d * (n \div d) + ((n % d) + 1)) % d = (n % d) + 1
    BY ONLY <1>2, <2>2, Zenon
  <2>4. (n + 1) % d = (n % d) + 1
    BY ONLY <2>1, <2>3, Zenon
  <2> QED BY <1>4, <2>4
<1> QED BY <1>3, <1>4

\* The marker of a page written.
LEMMA SpareMarkers ==
  ASSUME p \in Params, p.order = MIN_FIELD_ORDER, p.level < 16, Matching # {}
  PROVE  Markers(Spare) = IF p_spare_jffs2_cleanmarker /\ page = 0 THEN FirstFree ELSE {}
<1>1. FirstFree \cap ecc_code = {} /\ FirstFree \subseteq Offsets
  BY MarkersFit DEF FirstFree, Free
<1> DEFINE marked == IF p_spare_jffs2_cleanmarker /\ page = 0 THEN calc_spare_layout ELSE [i \in Offsets |-> "ff"]
           S == IF p_spare_jffs2_cleanmarker /\ page = 0 THEN FirstFree ELSE {}
<1>2. \A i \in Offsets : marked[i] = IF i \in S THEN "marker" ELSE "ff"
  BY LayoutIs
<1>3. Spare = IF Head(infile).kind = "blank" THEN marked
              ELSE [i \in Offsets |-> IF i \in ecc_code THEN "ecc" ELSE marked[i]]
  BY DEF Spare
<1>4. S \cap ecc_code = {} /\ S \subseteq Offsets
  BY <1>1
<1> HIDE DEF marked, S
<1>5. \A i \in Offsets : Spare[i] = "marker" <=> i \in S
  BY <1>2, <1>3, <1>4
<1>6. Markers(Spare) = S
  BY <1>4, <1>5 DEF Markers
<1> QED BY <1>6 DEF S

LEMMA MarkedWriteOut ==
  ASSUME ImageOK, MarkedOK, WriteOut
  PROVE  MarkedOK'
<1> DEFINE new == [main |-> Head(infile).kind, oob |-> Spare]
           n == Len(image)
<1>1. /\ image' = Append(image, new) /\ p_spare_jffs2_cleanmarker' = FoundUBIFS /\ page' = NextPage /\ p' = p
  BY DEF WriteOut
<1>2. n \in Nat /\ DOMAIN image = 1 .. n /\ image \in Seq([main : Kinds, oob : [Offsets -> {"ff", "marker", "ecc"}]])
  BY DEF ImageOK
<1>3. /\ DOMAIN image' = 1 .. n + 1 /\ Len(image') = n + 1 /\ image'[n + 1] = new
      /\ \A i \in 1 .. n : image'[i] = image[i]
  BY <1>1, <1>2
<1>4. p \in Params /\ p.pages_per_block \in Nat
  BY ImageAssumption DEF ImageAssumption, MarkedOK
<1>5. p_spare_jffs2_cleanmarker' <=> p'.cleanmarker /\ \A j \in DOMAIN image' : image'[j].main # "ubifs"
  <2>1. p_spare_jffs2_cleanmarker' <=> p_spare_jffs2_cleanmarker /\ Head(infile).kind # "ubifs"
    BY <1>1 DEF FoundUBIFS
  <2>2. new.main = Head(infile).kind
    OBVIOUS
  <2>3. (\A j \in DOMAIN image' : image'[j].main # "ubifs")
          <=> (\A j \in DOMAIN image : image[j].main # "ubifs") /\ new.main # "ubifs"
    BY <1>2, <1>3
  <2> QED BY <1>1, <2>1, <2>2, <2>3 DEF MarkedOK
<1>6. page' \in Nat /\ page' = IF p'.pages_per_block > 1 THEN Len(image') % p'.pages_per_block ELSE 0
  <2>1. page \in Nat /\ page = IF p.pages_per_block > 1 THEN n % p.pages_per_block ELSE 0
    BY DEF MarkedOK
  <2>2. page' = IF page + 1 >= p.pages_per_block THEN 0 ELSE page + 1
    BY <1>1 DEF NextPage
  <2>3. CASE p.pages_per_block > 1
    <3>1. (n + 1) % p.pages_per_block = IF page + 1 >= p.pages_per_block THEN 0 ELSE page + 1
      BY <1>2, <1>4, <2>1, <2>3, PageOn
    <3> QED BY <1>1, <1>3, <2>1, <2>2, <2>3, <3>1
  <2>4. CASE ~(p.pages_per_block > 1)
    <3>1. page = 0 /\ 1 >= p.pages_per_block
      BY <1>4, <2>1, <2>4
    <3> QED BY <1>1, <2>2, <2>4, <3>1
  <2> QED BY <2>3, <2>4
<1>7. ASSUME p.order = MIN_FIELD_ORDER, p.level < 16, Matching # {}, NEW i \in 1 .. n + 1
      PROVE  Markers(image'[i].oob) = IF ShouldMark(i)' THEN FirstFree ELSE {}
  <2>1. CASE i = n + 1
    <3>1. Markers(image'[i].oob) = IF p_spare_jffs2_cleanmarker /\ page = 0 THEN FirstFree ELSE {}
      <4>1. image'[i].oob = Spare
        BY <1>3, <2>1
      <4> QED BY <1>4, <1>7, <4>1, SpareMarkers
    <3>2. ShouldMark(i)' <=> p_spare_jffs2_cleanmarker /\ page = 0
      <4>1. i - 1 = n
        BY <1>2, <2>1
      <4>2. (\A j \in 1 .. i - 1 : image'[j].main # "ubifs") <=> \A j \in DOMAIN image : image[j].main # "ubifs"
        BY <1>2, <1>3, <4>1
      <4> QED BY <1>1, <4>1, <4>2 DEF ShouldMark, MarkedOK
    <3> QED BY <3>1, <3>2
  <2>2. CASE i \in 1 .. n
    <3>1. image'[i] = image[i] /\ i \in DOMAIN image /\ i - 1 <= n /\ i - 1 \in Nat
      BY <1>2, <1>3, <2>2
    <3>2. \A j \in 1 .. i - 1 : image'[j] = image[j]
      BY <1>2, <1>3, <3>1
    <3>3. ShouldMark(i)' <=> ShouldMark(i)
      BY <1>1, <3>2 DEF ShouldMark
    <3> QED BY <1>7, <3>1, <3>3 DEF MarkedOK
  <2> QED BY <1>2, <2>1, <2>2
<1>8. Matching' = Matching /\ FirstFree' = FirstFree /\ Offsets' = Offsets
  <2>1. Offsets' = Offsets /\ OOB_SIZE' = OOB_SIZE /\ Matching' = Matching
    BY <1>1 DEF Offsets, OOB_SIZE, partial_pages_per_page, Matching
  <2>2. Free' = Free
    BY <2>1 DEF Free, Reserved
  <2> QED BY <2>1, <2>2 DEF FirstFree
<1> QED
  <2>1. ASSUME p'.order = MIN_FIELD_ORDER, p'.level < 16, Matching' # {}, NEW i \in DOMAIN image'
        PROVE  {k \in Offsets' : image'[i].oob[k] = "marker"} = IF ShouldMark(i)' THEN FirstFree' ELSE {}
    <3>1. Markers(image'[i].oob) = IF ShouldMark(i)' THEN FirstFree ELSE {}
      BY <1>1, <1>3, <1>7, <1>8, <2>1
    <3> QED BY <1>8, <3>1 DEF Markers
  <2> QED BY <1>1, <1>4, <1>5, <1>6, <2>1 DEF MarkedOK, Markers

-----------------------------------------------------------------------------
USE ToolAssumption

(***************************************************************************)
(* The plans: what the drivers' functions call, by number.                 *)
(***************************************************************************)
Commands == {"read0", "read1", "readoob", "readstart", "seqin", "pageprog", "erase1", "erase2"}
Calls ==
  [do : {"cmd"}, cmd : Commands] \cup [do : {"addr"}, row : Int, unit : Nat]
    \cup [do : {"data"}, units : Seq(Things)] \cup [do : {"get"}, units : Nat]
    \cup [do : {"wait", "exit"}] \cup [do : {"status"}, stop : BOOLEAN]

\* Taking the first of the calls after k leaves those after k + 1.
LEMMA AfterNext ==
  ASSUME NEW S, NEW s \in Seq(S), NEW k \in 0 .. Len(s) - 1
  PROVE  After(s, k) # <<>> /\ Head(After(s, k)) = s[k + 1] /\ Tail(After(s, k)) = After(s, k + 1)
<1>1. k + 1 \in 1 .. Len(s) /\ Len(s) \in Nat
  OBVIOUS
<1>2. After(s, k) \in Seq(S) /\ Len(After(s, k)) = Len(s) - k
      /\ \A i \in 1 .. Len(s) - k : After(s, k)[i] = s[k + i]
  BY <1>1 DEF After
<1>3. After(s, k + 1) \in Seq(S) /\ Len(After(s, k + 1)) = Len(s) - (k + 1)
      /\ \A i \in 1 .. Len(s) - (k + 1) : After(s, k + 1)[i] = s[k + 1 + i]
  BY <1>1 DEF After
<1>4. After(s, k) # <<>> /\ Head(After(s, k)) = s[k + 1]
  BY <1>2
<1>5. /\ Tail(After(s, k)) \in Seq(S) /\ Len(Tail(After(s, k))) = Len(s) - k - 1
      /\ \A i \in 1 .. Len(s) - k - 1 : Tail(After(s, k))[i] = After(s, k)[i + 1]
  BY <1>2, <1>4, HeadTailProperties
<1>6. Tail(After(s, k)) = After(s, k + 1)
  <2>1. Len(Tail(After(s, k))) = Len(After(s, k + 1))
    BY <1>1, <1>3, <1>5
  <2>2. ASSUME NEW i \in 1 .. Len(s) - k - 1
        PROVE  Tail(After(s, k))[i] = After(s, k + 1)[i]
    <3>1. Tail(After(s, k))[i] = s[k + (i + 1)]
      BY <1>1, <1>2, <1>5
    <3>2. After(s, k + 1)[i] = s[k + 1 + i]
      BY <1>1, <1>3
    <3>3. k + (i + 1) = k + 1 + i
      BY <1>1
    <3> QED BY ONLY <3>1, <3>2, <3>3
  <2> QED BY ONLY <1>3, <1>5, <2>1, <2>2, SeqEqual
<1> QED BY <1>4, <1>6

\* All calls are after none, and none after all.
LEMMA AfterEnds ==
  ASSUME NEW S, NEW s \in Seq(S)
  PROVE  After(s, 0) = s /\ After(s, Len(s)) = <<>>
<1>1. After(s, 0) = s
  BY DEF After
<1>2. After(s, Len(s)) = <<>>
  BY DEF After
<1> QED BY <1>1, <1>2

\* The units an access takes.
LEMMA SizeIs ==
  ASSUME access \in {"main", "oob", "both"}
  PROVE  Size = (IF access = "both" THEN 3 ELSE IF access = "main" THEN 2 ELSE 1) /\ Size \in 1 .. 3
<1>1. \A n \in Nat : Cardinality(1 .. n) = n
  <2>1. ASSUME NEW n \in Nat
        PROVE  Cardinality(1 .. n) = IF 1 > n THEN 0 ELSE n - 1 + 1
    BY ONLY 1 \in Int, n \in Int, FS_Interval
  <2> QED BY <2>1
<1>2. Cardinality({1, 2}) = 2
  <2>1. {1, 2} = 1 .. 2
    OBVIOUS
  <2> QED BY <1>1, <2>1
<1>3. Cardinality({3}) = 1
  BY FS_Singleton
<1>4. Cardinality(1 .. 3) = 3
  BY <1>1
<1> QED BY <1>2, <1>3, <1>4 DEF Size, UnitsOf, Units

\* What two sequences are together.
LEMMA Joined ==
  ASSUME NEW S, NEW s \in Seq(S), NEW t \in Seq(S), NEW r, r = s \o t
  PROVE  /\ r \in Seq(S) /\ Len(r) = Len(s) + Len(t)
         /\ \A i \in 1 .. Len(s) : r[i] = s[i]
         /\ \A i \in 1 .. Len(t) : r[Len(s) + i] = t[i]
  OBVIOUS

\* One element of a sequence of three.
LEMMA OneOf ==
  ASSUME NEW S, NEW d \in Seq(S), Len(d) = 3, NEW u \in 1 .. 3
  PROVE  SubSeq(d, u, u) \in Seq(S)
  BY SubSeqProperties

\* The calls are calls.
LEMMA CallTypes ==
  /\ Cmd("read0") \in Calls /\ Cmd("read1") \in Calls /\ Cmd("readoob") \in Calls
  /\ Cmd("readstart") \in Calls /\ Cmd("seqin") \in Calls /\ Cmd("pageprog") \in Calls
  /\ Cmd("erase1") \in Calls /\ Cmd("erase2") \in Calls
  /\ \A r \in Int, u \in Nat : Addr(r, u) \in Calls
  /\ \A d \in Seq(Things) : Put(d) \in Calls
  /\ \A n \in Nat : Get(n) \in Calls
  /\ WaitReady \in Calls /\ Exit \in Calls /\ Status(TRUE) \in Calls /\ Status(FALSE) \in Calls
<1>1. /\ Cmd("read0") \in Calls /\ Cmd("read1") \in Calls /\ Cmd("readoob") \in Calls
      /\ Cmd("readstart") \in Calls /\ Cmd("seqin") \in Calls /\ Cmd("pageprog") \in Calls
      /\ Cmd("erase1") \in Calls /\ Cmd("erase2") \in Calls
  BY DEF Calls, Commands, Cmd
<1>2. \A r \in Int, u \in Nat : Addr(r, u) \in Calls
  BY DEF Calls, Addr
<1>3. \A d \in Seq(Things) : Put(d) \in Calls
  BY DEF Calls, Put
<1>4. \A n \in Nat : Get(n) \in Calls
  BY DEF Calls, Get
<1>5. WaitReady \in Calls /\ Exit \in Calls
  BY DEF Calls, WaitReady, Exit
<1>6. Status(TRUE) \in Calls /\ Status(FALSE) \in Calls
  BY DEF Calls, Status
<1> QED BY <1>1, <1>2, <1>3, <1>4, <1>5, <1>6

\* The row sent to a large page chip is a number.
LEMMA LargeRowType == ASSUME NEW n \in Nat PROVE LargeRow(n) \in Int
<1> DEFINE w == n % IntPages
           signed == IF w >= IntPages \div 2 THEN w - IntPages ELSE w
<1>1. w \in Int /\ IntPages \in Int
  BY DEF ToolAssumption
<1>2. signed \in Int
  BY <1>1
<1> HIDE DEF signed
<1>3. signed % RowSpan \in Int
  BY <1>2 DEF ToolAssumption
<1> QED BY <1>3 DEF LargeRow, signed

\* Reading, of small page chips, by triples of calls.
LEMMA SmallReadPlan ==
  ASSUME kind = "small", access \in {"main", "oob", "both"}, x \in Nat
  PROVE  /\ readPage \in Seq(Calls) /\ Len(readPage) = 3 * Size
         /\ \A l \in 0 .. Size - 1 :
              /\ \E c \in DOMAIN Pointer : Pointer[c] = UnitAt(l + 1) /\ readPage[3 * l + 1] = Cmd(c)
              /\ readPage[3 * l + 2] = Addr(x, 1) /\ readPage[3 * l + 3] = Get(1)
<1>1. /\ SP_readPage \in Seq(Calls) /\ Len(SP_readPage) = 6
      /\ SP_readPage[1] = Cmd("read0") /\ SP_readPage[2] = Addr(x, 1) /\ SP_readPage[3] = Get(1)
      /\ SP_readPage[4] = Cmd("read1") /\ SP_readPage[5] = Addr(x, 1) /\ SP_readPage[6] = Get(1)
  BY CallTypes DEF SP_readPage
<1>2. /\ SP_readOob \in Seq(Calls) /\ Len(SP_readOob) = 3
      /\ SP_readOob[1] = Cmd("readoob") /\ SP_readOob[2] = Addr(x, 1) /\ SP_readOob[3] = Get(1)
  BY CallTypes DEF SP_readOob
<1>3. /\ {"read0", "read1", "readoob"} = DOMAIN Pointer
      /\ Pointer["read0"] = 1 /\ Pointer["read1"] = 2 /\ Pointer["readoob"] = 3
  BY DEF Pointer
<1>4. CASE access = "main"
  <2>1. readPage = SP_readPage
    BY <1>1, <1>4 DEF readPage, If
  <2>2. Size = 2 /\ UnitAt(1) = 1 /\ UnitAt(2) = 2
    BY <1>4, SizeIs DEF UnitAt
  <2> QED BY <1>1, <1>3, <2>1, <2>2
<1>5. CASE access = "oob"
  <2>1. readPage = SP_readOob
    BY <1>2, <1>5 DEF readPage, If
  <2>2. Size = 1 /\ UnitAt(1) = 3
    BY <1>5, SizeIs DEF UnitAt
  <2> QED BY <1>2, <1>3, <2>1, <2>2
<1>6. CASE access = "both"
  <2>1. readPage = SP_readPage \o SP_readOob
    BY <1>6 DEF readPage, If
  <2>2. Size = 3 /\ UnitAt(1) = 1 /\ UnitAt(2) = 2 /\ UnitAt(3) = 3
    BY <1>6, SizeIs DEF UnitAt
  <2>3. /\ readPage \in Seq(Calls) /\ Len(readPage) = 9
        /\ \A i \in 1 .. 6 : readPage[i] = SP_readPage[i]
        /\ \A i \in 1 .. 3 : readPage[6 + i] = SP_readOob[i]
    <3>1. SP_readPage \in Seq(Calls) /\ SP_readOob \in Seq(Calls)
      BY <1>1, <1>2
    <3>2. Len(SP_readPage) = 6 /\ Len(SP_readOob) = 3
      BY <1>1, <1>2
    <3>3. readPage \in Seq(Calls) /\ Len(readPage) = Len(SP_readPage) + Len(SP_readOob)
      BY ONLY <2>1, <3>1, Joined
    <3>4. \A i \in 1 .. Len(SP_readPage) : readPage[i] = SP_readPage[i]
      BY ONLY <2>1, <3>1, Joined
    <3>5. \A i \in 1 .. Len(SP_readOob) : readPage[Len(SP_readPage) + i] = SP_readOob[i]
      BY ONLY <2>1, <3>1, Joined
    <3> QED BY ONLY <3>3, <3>4, <3>5, <3>2
  <2>4. /\ readPage[1] = Cmd("read0") /\ readPage[2] = Addr(x, 1) /\ readPage[3] = Get(1)
        /\ readPage[4] = Cmd("read1") /\ readPage[5] = Addr(x, 1) /\ readPage[6] = Get(1)
        /\ readPage[7] = Cmd("readoob") /\ readPage[8] = Addr(x, 1) /\ readPage[9] = Get(1)
    BY <1>1, <1>2, <2>3
  <2> QED BY <1>3, <2>2, <2>3, <2>4
<1> QED BY <1>4, <1>5, <1>6

\* Reading, of large page chips, by fives.
LEMMA LargeReadPlan ==
  ASSUME kind = "large", access \in {"main", "oob", "both"}, x \in Nat
  PROVE  /\ readPage \in Seq(Calls) /\ Len(readPage) = 5 * Fetches
         /\ \A b \in 0 .. Fetches - 1 :
              /\ readPage[5 * b + 1] = Cmd("read0") /\ readPage[5 * b + 2] = Addr(LargeRow(x), FetchAt(b))
              /\ readPage[5 * b + 3] = Cmd("readstart") /\ readPage[5 * b + 4] = WaitReady
              /\ readPage[5 * b + 5] = Get(IF FetchAt(b) = 1 THEN 2 ELSE 1)
<1>1. LargeRow(x) \in Int
  BY LargeRowType
<1>2. /\ LP_readPage \in Seq(Calls) /\ Len(LP_readPage) = 5
      /\ LP_readPage[1] = Cmd("read0") /\ LP_readPage[2] = Addr(LargeRow(x), 1)
      /\ LP_readPage[3] = Cmd("readstart") /\ LP_readPage[4] = WaitReady /\ LP_readPage[5] = Get(2)
  BY <1>1, CallTypes DEF LP_readPage
<1>3. /\ LP_readOob \in Seq(Calls) /\ Len(LP_readOob) = 5
      /\ LP_readOob[1] = Cmd("read0") /\ LP_readOob[2] = Addr(LargeRow(x), 3)
      /\ LP_readOob[3] = Cmd("readstart") /\ LP_readOob[4] = WaitReady /\ LP_readOob[5] = Get(1)
  BY <1>1, CallTypes DEF LP_readOob
<1>4. CASE access = "main"
  <2>1. readPage = LP_readPage
    BY <1>2, <1>4 DEF readPage, If
  <2>2. Fetches = 1 /\ FetchAt(0) = 1
    BY <1>4 DEF Fetches, FetchAt
  <2> QED BY <1>2, <2>1, <2>2
<1>5. CASE access = "oob"
  <2>1. readPage = LP_readOob
    BY <1>3, <1>5 DEF readPage, If
  <2>2. Fetches = 1 /\ FetchAt(0) = 3
    BY <1>5 DEF Fetches, FetchAt
  <2> QED BY <1>3, <2>1, <2>2
<1>6. CASE access = "both"
  <2>1. readPage = LP_readPage \o LP_readOob
    BY <1>6 DEF readPage, If
  <2>2. Fetches = 2 /\ FetchAt(0) = 1 /\ FetchAt(1) = 3
    BY <1>6 DEF Fetches, FetchAt
  <2>3. /\ readPage \in Seq(Calls) /\ Len(readPage) = 10
        /\ \A i \in 1 .. 5 : readPage[i] = LP_readPage[i]
        /\ \A i \in 1 .. 5 : readPage[5 + i] = LP_readOob[i]
    <3>1. LP_readPage \in Seq(Calls) /\ LP_readOob \in Seq(Calls)
      BY <1>2, <1>3
    <3>2. Len(LP_readPage) = 5 /\ Len(LP_readOob) = 5
      BY <1>2, <1>3
    <3>3. readPage \in Seq(Calls) /\ Len(readPage) = Len(LP_readPage) + Len(LP_readOob)
      BY ONLY <2>1, <3>1, Joined
    <3>4. \A i \in 1 .. Len(LP_readPage) : readPage[i] = LP_readPage[i]
      BY ONLY <2>1, <3>1, Joined
    <3>5. \A i \in 1 .. Len(LP_readOob) : readPage[Len(LP_readPage) + i] = LP_readOob[i]
      BY ONLY <2>1, <3>1, Joined
    <3> QED BY ONLY <3>3, <3>4, <3>5, <3>2
  <2>4. /\ readPage[1] = Cmd("read0") /\ readPage[2] = Addr(LargeRow(x), 1)
        /\ readPage[3] = Cmd("readstart") /\ readPage[4] = WaitReady /\ readPage[5] = Get(2)
        /\ readPage[6] = Cmd("read0") /\ readPage[7] = Addr(LargeRow(x), 3)
        /\ readPage[8] = Cmd("readstart") /\ readPage[9] = WaitReady /\ readPage[10] = Get(1)
    BY <1>2, <1>3, <2>3
  <2> QED BY <2>2, <2>3, <2>4
<1> QED BY <1>4, <1>5, <1>6

\* Reading the status, whatever a failure would do.
Checks(c) == \E b \in BOOLEAN : c = Status(b)

\* Erasing: the same five calls, and for large page chips the status once more.
LEMMA EraseIs ==
  ASSUME kind \in {"small", "large"}, x \in Nat
  PROVE  LET erase == If(Erasing, eraseBlock)
         IN /\ erase \in Seq(Calls) /\ Len(erase) = EraseCalls
            /\ EraseCalls # 0 =>
                 /\ erase[1] = Cmd("erase1") /\ erase[2] = Addr(x, 1) /\ erase[3] = Cmd("erase2")
                 /\ erase[4] = WaitReady /\ Checks(erase[5])
            /\ EraseCalls = 6 => Checks(erase[6])
<1>1. CASE ~Erasing
  BY <1>1 DEF If, EraseCalls
<1>2. CASE Erasing /\ kind = "large"
  <2>1. If(Erasing, eraseBlock) = LP_eraseBlock /\ EraseCalls = 6
    BY <1>2 DEF If, EraseCalls, eraseBlock
  <2> DEFINE s == Status(FALSE)
  <2>2. LP_eraseBlock = <<Cmd("erase1"), Addr(x, 1), Cmd("erase2"), WaitReady, s, s>>
    BY DEF LP_eraseBlock
  <2>3. s \in Calls
    BY CallTypes
  <2>4. Checks(s)
    BY DEF Checks
  <2> HIDE DEF s
  <2>5. Cmd("erase1") \in Calls /\ Addr(x, 1) \in Calls /\ Cmd("erase2") \in Calls /\ WaitReady \in Calls
    BY CallTypes
  <2>6. LP_eraseBlock \in Seq(Calls) /\ Len(LP_eraseBlock) = 6
    BY ONLY <2>2, <2>3, <2>5
  <2>7. /\ LP_eraseBlock[1] = Cmd("erase1") /\ LP_eraseBlock[2] = Addr(x, 1) /\ LP_eraseBlock[3] = Cmd("erase2")
        /\ LP_eraseBlock[4] = WaitReady /\ LP_eraseBlock[5] = s /\ LP_eraseBlock[6] = s
    BY ONLY <2>2
  <2> QED BY <2>1, <2>6, <2>7, <2>4
<1>3. CASE Erasing /\ kind = "small"
  <2>1. If(Erasing, eraseBlock) = SP_eraseBlock /\ EraseCalls = 5
    BY <1>3 DEF If, EraseCalls, eraseBlock
  <2> DEFINE s == Status(FALSE)
  <2>2. SP_eraseBlock = <<Cmd("erase1"), Addr(x, 1), Cmd("erase2"), WaitReady, s>>
    BY DEF SP_eraseBlock
  <2>3. s \in Calls
    BY CallTypes
  <2>4. Checks(s)
    BY DEF Checks
  <2> HIDE DEF s
  <2>5. Cmd("erase1") \in Calls /\ Addr(x, 1) \in Calls /\ Cmd("erase2") \in Calls /\ WaitReady \in Calls
    BY CallTypes
  <2>6. SP_eraseBlock \in Seq(Calls) /\ Len(SP_eraseBlock) = 5
    BY ONLY <2>2, <2>3, <2>5
  <2>7. /\ SP_eraseBlock[1] = Cmd("erase1") /\ SP_eraseBlock[2] = Addr(x, 1) /\ SP_eraseBlock[3] = Cmd("erase2")
        /\ SP_eraseBlock[4] = WaitReady /\ SP_eraseBlock[5] = s
    BY ONLY <2>2
  <2> QED BY <2>1, <2>6, <2>7, <2>4
<1> QED BY <1>1, <1>2, <1>3

WriteCalls == IF access # "both" THEN 1 ELSE IF kind = "large" THEN 6 ELSE 18

\* Unit u + 1 of the units d, and of the buffer.
UnitOf(d, u) == SubSeq(d, u + 1, u + 1)
Unit(u) == UnitOf(pageBuf, u)
PointerTo(u) == IF u = 0 THEN "read0" ELSE IF u = 1 THEN "read1" ELSE "readoob"

\* Writing: refused, six calls, or six for each unit.
LEMMA WriteOf ==
  ASSUME kind \in {"small", "large"}, access \in {"main", "oob", "both"}, x \in Nat,
         NEW d \in Seq(Things), access = "both" => Len(d) = 3
  PROVE  LET write == writePage(d)
         IN /\ write \in Seq(Calls) /\ Len(write) = WriteCalls
            /\ access # "both" => write[1] = Exit
            /\ access = "both" /\ kind = "large" =>
                 /\ write[1] = Cmd("seqin") /\ write[2] = Addr(LargeRow(x), 1) /\ write[3] = Put(d)
                 /\ write[4] = Cmd("pageprog") /\ write[5] = WaitReady /\ Checks(write[6])
            /\ access = "both" /\ kind = "small" => \A u \in 0 .. 2 :
                 /\ write[6 * u + 1] = Cmd(PointerTo(u)) /\ write[6 * u + 2] = Cmd("seqin")
                 /\ write[6 * u + 3] = Addr(x, 1) /\ write[6 * u + 4] = Put(UnitOf(d, u))
                 /\ write[6 * u + 5] = Cmd("pageprog") /\ Checks(write[6 * u + 6])
<1> DEFINE write == writePage(d)
<1>1. CASE access # "both"
  <2>1. write = <<Exit>>
    BY <1>1 DEF writePage
  <2>2. write \in Seq(Calls) /\ Len(write) = 1 /\ write[1] = Exit
    BY <2>1, CallTypes
  <2> QED BY <1>1, <2>2 DEF WriteCalls
<1>2. CASE access = "both" /\ kind = "large"
  <2>1. write = LP_writePage(d)
    BY <1>2 DEF writePage
  <2>2. LargeRow(x) \in Int
    BY LargeRowType
  <2> DEFINE s == Status(FALSE)
  <2>3. s \in Calls
    BY CallTypes
  <2>4. Checks(s)
    BY DEF Checks
  <2>5. write = <<Cmd("seqin"), Addr(LargeRow(x), 1), Put(d), Cmd("pageprog"), WaitReady, s>>
    BY <2>1 DEF LP_writePage
  <2> HIDE DEF write, s
  <2>6. /\ Cmd("seqin") \in Calls /\ Addr(LargeRow(x), 1) \in Calls /\ Put(d) \in Calls
        /\ Cmd("pageprog") \in Calls /\ WaitReady \in Calls
    BY <2>2, CallTypes
  <2>7. write \in Seq(Calls) /\ Len(write) = 6
    BY ONLY <2>3, <2>5, <2>6
  <2>8. /\ write[1] = Cmd("seqin") /\ write[2] = Addr(LargeRow(x), 1) /\ write[3] = Put(d)
        /\ write[4] = Cmd("pageprog") /\ write[5] = WaitReady /\ write[6] = s
    BY ONLY <2>5
  <2> QED BY <1>2, <2>7, <2>8, <2>4 DEF WriteCalls, write
<1>3. CASE access = "both" /\ kind = "small"
  <2>1. write = SP_writePage(d)
    BY <1>3 DEF writePage
  <2>2. /\ Put(UnitOf(d, 0)) \in Calls /\ Put(UnitOf(d, 1)) \in Calls /\ Put(UnitOf(d, 2)) \in Calls
    <3>1. UnitOf(d, 0) \in Seq(Things) /\ UnitOf(d, 1) \in Seq(Things) /\ UnitOf(d, 2) \in Seq(Things)
      <4>1. Len(d) = 3
        BY <1>3
      <4>2. d \in Seq(Things)
        OBVIOUS
      <4>3. ASSUME NEW u \in 1 .. 3
            PROVE  SubSeq(d, u, u) \in Seq(Things)
        BY ONLY <4>1, <4>2, u \in 1 .. 3, OneOf
      <4> QED BY <4>3 DEF UnitOf
    <3> QED BY <3>1, CallTypes
  <2>3. /\ SubSeq(d, 1, 1) = UnitOf(d, 0) /\ SubSeq(d, 2, 2) = UnitOf(d, 1) /\ SubSeq(d, 3, 3) = UnitOf(d, 2)
    BY DEF UnitOf
  <2> DEFINE s == Status(TRUE)
             r == Status(FALSE)
  <2>4. write =
          << Cmd("read0"), Cmd("seqin"), Addr(x, 1), Put(UnitOf(d, 0)), Cmd("pageprog"), s,
             Cmd("read1"), Cmd("seqin"), Addr(x, 1), Put(UnitOf(d, 1)), Cmd("pageprog"), s,
             Cmd("readoob"), Cmd("seqin"), Addr(x, 1), Put(UnitOf(d, 2)), Cmd("pageprog"), r >>
    BY <2>1, <2>3 DEF SP_writePage
  <2>5. s \in Calls /\ r \in Calls
    BY CallTypes
  <2>6. Checks(s) /\ Checks(r)
    BY DEF Checks
  <2> HIDE DEF write, s, r
  <2>7. /\ Cmd("read0") \in Calls /\ Cmd("read1") \in Calls /\ Cmd("readoob") \in Calls
        /\ Cmd("seqin") \in Calls /\ Cmd("pageprog") \in Calls /\ Addr(x, 1) \in Calls
    BY CallTypes
  <2>8. write \in Seq(Calls) /\ Len(write) = 18
    BY ONLY <2>2, <2>4, <2>5, <2>7
  <2>9. ASSUME NEW u \in 0 .. 2
         PROVE  /\ write[6 * u + 1] = Cmd(PointerTo(u)) /\ write[6 * u + 2] = Cmd("seqin")
                /\ write[6 * u + 3] = Addr(x, 1) /\ write[6 * u + 4] = Put(UnitOf(d, u))
                /\ write[6 * u + 5] = Cmd("pageprog") /\ Checks(write[6 * u + 6])
    <3>1. CASE u = 0
      <4>1. PointerTo(u) = "read0" /\ UnitOf(d, u) = UnitOf(d, 0)
        BY <3>1 DEF PointerTo
      <4> QED BY ONLY <2>4, <2>6, <3>1, <4>1
    <3>2. CASE u = 1
      <4>1. PointerTo(u) = "read1" /\ UnitOf(d, u) = UnitOf(d, 1)
        BY <3>2 DEF PointerTo
      <4> QED BY ONLY <2>4, <2>6, <3>2, <4>1
    <3>3. CASE u = 2
      <4>1. PointerTo(u) = "readoob" /\ UnitOf(d, u) = UnitOf(d, 2)
        BY <3>3 DEF PointerTo
      <4> QED BY ONLY <2>4, <2>6, <3>3, <4>1
    <3> QED BY <3>1, <3>2, <3>3
  <2> QED BY <1>3, <2>8, <2>9 DEF WriteCalls, write
<1> QED BY <1>1, <1>2, <1>3

\* Writing what is in the buffer.
LEMMA WriteIs ==
  ASSUME kind \in {"small", "large"}, access \in {"main", "oob", "both"}, x \in Nat,
         pageBuf \in Seq(Things), access = "both" => Len(pageBuf) = 3
  PROVE  LET write == writePage(pageBuf)
         IN /\ write \in Seq(Calls) /\ Len(write) = WriteCalls
            /\ access # "both" => write[1] = Exit
            /\ access = "both" /\ kind = "large" =>
                 /\ write[1] = Cmd("seqin") /\ write[2] = Addr(LargeRow(x), 1) /\ write[3] = Put(pageBuf)
                 /\ write[4] = Cmd("pageprog") /\ write[5] = WaitReady /\ Checks(write[6])
            /\ access = "both" /\ kind = "small" => \A u \in 0 .. 2 :
                 /\ write[6 * u + 1] = Cmd(PointerTo(u)) /\ write[6 * u + 2] = Cmd("seqin")
                 /\ write[6 * u + 3] = Addr(x, 1) /\ write[6 * u + 4] = Put(Unit(u))
                 /\ write[6 * u + 5] = Cmd("pageprog") /\ Checks(write[6 * u + 6])
  BY WriteOf DEF Unit

\* The whole plan for a page: erasing, if it is due, then writing.
LEMMA PlanIs ==
  ASSUME kind \in {"small", "large"}, access \in {"main", "oob", "both"}, x \in Nat,
         pageBuf \in Seq(Things), access = "both" => Len(pageBuf) = 3
  PROVE  /\ Plan \in Seq(Calls) /\ Len(Plan) = EraseCalls + WriteCalls /\ EraseCalls \in {0, 5, 6}
         /\ \A i \in 1 .. EraseCalls : Plan[i] = If(Erasing, eraseBlock)[i]
         /\ \A i \in 1 .. WriteCalls : Plan[EraseCalls + i] = writePage(pageBuf)[i]
<1> DEFINE erase == If(Erasing, eraseBlock)
           write == writePage(pageBuf)
<1>1. erase \in Seq(Calls) /\ Len(erase) = EraseCalls
  BY EraseIs
<1>2. write \in Seq(Calls) /\ Len(write) = WriteCalls
  BY WriteIs
<1>3. Plan = erase \o write
  BY DEF Plan
<1>4. EraseCalls \in {0, 5, 6}
  BY DEF EraseCalls
<1> HIDE DEF erase, write
<1>5. erase \in Seq(Calls) /\ write \in Seq(Calls)
  BY <1>1, <1>2
<1>6. Plan \in Seq(Calls) /\ Len(Plan) = Len(erase) + Len(write)
  BY ONLY <1>3, <1>5, Joined
<1>7. \A i \in 1 .. Len(erase) : Plan[i] = erase[i]
  BY ONLY <1>3, <1>5, Joined
<1>8. \A i \in 1 .. Len(write) : Plan[Len(erase) + i] = write[i]
  BY ONLY <1>3, <1>5, Joined
<1> USE DEF erase, write
<1> QED BY <1>1, <1>2, <1>4, <1>6, <1>7, <1>8

-----------------------------------------------------------------------------
(***************************************************************************)
(* The calls, on a chip that has kept up.                                  *)
(***************************************************************************)
\* A command.
LEMMA CmdCall ==
  ASSUME Untroubled, Call, NEW c, Head(calls) = Cmd(c)
  PROVE  /\ busy = "none" /\ calls' = Tail(calls) /\ UNCHANGED <<kind, main, pageBuf>>
         /\ cmd' = c /\ area' = (IF c \in DOMAIN Pointer THEN Pointer[c] ELSE area)
         /\ latch' = (IF c = "seqin" THEN Clear ELSE latch)
         /\ busy' = CASE c = "readstart" /\ cmd = "read0" /\ kind = "large" -> "read"
                      [] c = "pageprog" /\ cmd = "seqin" -> "program"
                      [] c = "erase2" /\ cmd = "erase1" -> "erase"
                      [] OTHER -> busy
         /\ UNCHANGED <<row, fail, cells, trouble>>
<1>1. Head(calls).do = "cmd" /\ Head(calls).cmd = c
  BY DEF Cmd
<1>2. Send
  BY <1>1 DEF Call, Wait, Receive, CheckStatus, ExitCall
<1>3. busy = "none"
  BY <1>2 DEF Send, InTime, Untroubled
<1> QED BY <1>1, <1>2, <1>3 DEF Send, Command

\* An address.
LEMMA AddrCall ==
  ASSUME Untroubled, Call, NEW r, NEW u, Head(calls) = Addr(r, u)
  PROVE  /\ busy = "none" /\ calls' = Tail(calls) /\ UNCHANGED <<kind, main, pageBuf>>
         /\ row' = r % NPages /\ area' = (IF kind = "large" THEN u ELSE area)
         /\ busy' = (IF kind = "small" /\ cmd \in DOMAIN Pointer THEN "read" ELSE busy)
         /\ UNCHANGED <<cmd, latch, fail, cells, trouble>>
<1>1. Head(calls).do = "addr" /\ Head(calls).row = r /\ Head(calls).unit = u
  BY DEF Addr
<1>2. Send
  BY <1>1 DEF Call, Wait, Receive, CheckStatus, ExitCall
<1>3. busy = "none"
  BY <1>2 DEF Send, InTime, Untroubled
<1> QED BY <1>1, <1>2, <1>3 DEF Send, Address

\* Data into the page register.
LEMMA PutCall ==
  ASSUME Untroubled, Call, NEW d, Head(calls) = Put(d), cmd = "seqin"
  PROVE  /\ busy = "none" /\ calls' = Tail(calls) /\ UNCHANGED <<kind, main, pageBuf>>
         /\ latch' = [u \in Units |-> IF u - area + 1 \in DOMAIN d THEN d[u - area + 1] ELSE latch[u]]
         /\ UNCHANGED <<cmd, area, row, busy, fail, cells, trouble>>
<1>1. Head(calls).do = "data" /\ Head(calls).units = d
  BY DEF Put
<1>2. Send
  BY <1>1 DEF Call, Wait, Receive, CheckStatus, ExitCall
<1>3. busy = "none"
  BY <1>2 DEF Send, InTime, Untroubled
<1> QED BY <1>1, <1>2, <1>3 DEF Send, DataIn

\* Data out of it.
LEMMA GetCall ==
  ASSUME Untroubled, Call, NEW n, Head(calls) = Get(n)
  PROVE  /\ busy = "none" /\ calls' = Tail(calls) /\ UNCHANGED <<kind, main, chip>>
         /\ pageBuf' = pageBuf \o [i \in 1 .. n |-> IF area + i - 1 \in Units THEN latch[area + i - 1] ELSE Junk]
<1>1. Head(calls).do = "get" /\ Head(calls).units = n
  BY DEF Get
<1>2. Receive
  BY <1>1 DEF Call, Send, Wait, CheckStatus, ExitCall
<1>3. busy = "none"
  BY <1>2 DEF Receive, InTime, Untroubled
<1> QED BY <1>1, <1>2, <1>3 DEF Receive, DataOut

\* A wait finds the chip ready.
LEMMA WaitCall ==
  ASSUME Untroubled, Call, Head(calls) = WaitReady
  PROVE  busy = "none" /\ calls' = Tail(calls) /\ UNCHANGED <<kind, main, pageBuf, chip>>
<1>1. Head(calls).do = "wait"
  BY DEF WaitReady
<1>2. Wait
  BY <1>1 DEF Call, Send, Receive, CheckStatus, ExitCall
<1> QED BY <1>2 DEF Wait, InTime, Untroubled

\* The status of a chip that has not failed.
LEMMA StatusCall ==
  ASSUME Untroubled, Call, NEW b \in BOOLEAN, Head(calls) = Status(b), ~fail
  PROVE  /\ busy = "none" /\ calls' = Tail(calls) /\ UNCHANGED <<kind, main, pageBuf>>
         /\ cmd' = "status" /\ UNCHANGED <<area, row, latch, busy, fail, cells, trouble>>
<1>1. Head(calls).do = "status"
  BY DEF Status
<1>2. CheckStatus
  BY <1>1 DEF Call, Send, Receive, Wait, ExitCall
<1>3. busy = "none"
  BY <1>2 DEF CheckStatus, InTime, Untroubled
<1>4. PICK failed \in {fail} : calls' = IF Head(calls).stop /\ failed THEN <<>> ELSE Tail(calls)
  BY <1>2, <1>3 DEF CheckStatus
<1>5. calls' = Tail(calls)
  BY <1>4
<1> QED BY <1>2, <1>3, <1>5 DEF CheckStatus

\* The program gives up.
LEMMA ExitIs ==
  ASSUME Call, Head(calls) = Exit
  PROVE  /\ calls' = <<>> /\ pc' = "exit"
         /\ UNCHANGED <<kind, line, x, file, at, verifyErrors, options, runs, pageBuf, chip>>
<1>1. Head(calls).do = "exit"
  BY DEF Exit
<1>2. ExitCall
  BY <1>1 DEF Call, Send, Receive, Wait, CheckStatus
<1> QED BY <1>2 DEF ExitCall

-----------------------------------------------------------------------------
(***************************************************************************)
(* Reading.                                                                *)
(***************************************************************************)
\* Taking n units from a page register that holds the page.
LEMMA GotMore ==
  ASSUME NEW l \in Nat, NEW n \in Nat, Types, x \in Pages, Got(l), latch = cells[x],
         \A i \in 1 .. n : area + i - 1 = UnitAt(l + i) /\ area + i - 1 \in Units,
         UNCHANGED <<access, x, cells>>,
         pageBuf' = pageBuf \o [i \in 1 .. n |-> IF area + i - 1 \in Units THEN latch[area + i - 1] ELSE Junk]
  PROVE  Got(l + n)' /\ pageBuf' \in Seq(Things)
<1> DEFINE more == [i \in 1 .. n |-> IF area + i - 1 \in Units THEN latch[area + i - 1] ELSE Junk]
<1>1. \A i \in 1 .. n : more[i] = cells[x][UnitAt(l + i)] /\ more[i] \in Things
  BY DEF Types
<1>2. more \in Seq(Things) /\ Len(more) = n
  <2>1. more \in [1 .. n -> Things]
    BY <1>1
  <2> HIDE DEF more
  <2> QED BY ONLY <2>1, n \in Nat
<1>3. pageBuf \in Seq(Things) /\ Len(pageBuf) = l /\ \A i \in 1 .. l : pageBuf[i] = cells[x][UnitAt(i)]
  BY DEF Types, Got
<1> HIDE DEF more
<1>4. more \in Seq(Things) /\ pageBuf \in Seq(Things) /\ pageBuf' = pageBuf \o more
  BY <1>2, <1>3 DEF more
<1>5. pageBuf' \in Seq(Things) /\ Len(pageBuf') = Len(pageBuf) + Len(more)
  BY ONLY <1>4, Joined
<1>6. \A i \in 1 .. Len(pageBuf) : pageBuf'[i] = pageBuf[i]
  BY ONLY <1>4, Joined
<1>7. \A i \in 1 .. Len(more) : pageBuf'[Len(pageBuf) + i] = more[i]
  BY ONLY <1>4, Joined
<1>8. ASSUME NEW i \in 1 .. l + n
      PROVE  pageBuf'[i] = cells[x][UnitAt(i)]
  <2>1. CASE i \in 1 .. l
    BY <1>3, <1>6, <2>1
  <2>2. CASE i - l \in 1 .. n
    <3>1. l + (i - l) = i
      OBVIOUS
    <3>2. pageBuf'[l + (i - l)] = more[i - l] /\ more[i - l] = cells[x][UnitAt(l + (i - l))]
      BY ONLY <1>1, <1>2, <1>3, <1>7, <2>2
    <3> QED BY ONLY <3>1, <3>2
  <2>3. i \in 1 .. l \/ i - l \in 1 .. n
    BY ONLY l \in Nat, n \in Nat, i \in 1 .. l + n
  <2> QED BY ONLY <2>1, <2>2, <2>3
<1>9. UnitAt(1)' = UnitAt(1) /\ \A i \in Nat : UnitAt(i)' = UnitAt(i)
  BY DEF UnitAt
<1>10. Len(pageBuf') = l + n
  BY <1>2, <1>3, <1>5
<1>11. Got(l + n)'
  BY <1>8, <1>9, <1>10 DEF Got
<1> QED BY <1>5, <1>11

\* What a call of a read changes.
ReadingOn ==
  /\ UNCHANGED <<kind, main, fail, cells, trouble>>
  /\ row' \in Pages /\ latch' = latch /\ pageBuf' \in Seq(Things)

\* A page within the range is a page of the chip, and its address reaches it.
LEMMA OnPage ==
  ASSUME Types, RangeOK, Addressable, pc \in Working, calls # <<>> \/ pageBuf # <<>>
  PROVE  x \in Pages /\ x % NPages = x /\ LargeRow(x) % NPages = x
<1>1. x < end_pageno /\ end_pageno <= NPages /\ x \in Nat /\ NPages \in Nat \ {0} /\ end_pageno \in Nat
  BY DEF RangeOK, Types, ToolAssumption, Pages, Working
<1>2. x \in Pages
  BY <1>1 DEF Pages
<1>3. x % NPages = x
  BY ONLY <1>1
<1> QED BY <1>2, <1>3 DEF Addressable

\* The same plan and the same units after a call.
LEMMA SamePlan ==
  ASSUME UNCHANGED <<kind, main>>
  PROVE  readPage' = readPage /\ Size' = Size /\ Fetches' = Fetches
         /\ (\A i \in Nat : UnitAt(i)' = UnitAt(i)) /\ \A b \in Nat : FetchAt(b)' = FetchAt(b)
<1>1. kind' = kind /\ access' = access /\ x' = x
  BY DEF main, line
<1>2. readPage' = readPage
  BY <1>1 DEF readPage, LP_readPage, LP_readOob, SP_readPage, SP_readOob, LargeRow, Addr
<1>3. Size' = Size
  BY <1>1 DEF Size
<1> QED BY <1>1, <1>2, <1>3 DEF Fetches, FetchAt, UnitAt

\* Of small page chips.
LEMMA SmallReadingOn ==
  ASSUME Untroubled, Types, RangeOK, Addressable, pc \in {"read", "verify"}, kind = "small", Call,
         calls # <<>>,
         NEW l \in 0 .. Size, NEW s \in 0 .. 2, l = Size => s = 0, SmallFetch(l, s)
  PROVE  ReadingOn /\ Reading'
<1>1. access \in {"main", "oob", "both"} /\ x \in Nat /\ Size \in 1 .. 3 /\ row \in Pages /\ pageBuf \in Seq(Things)
  BY SizeIs DEF Types
<1>2. readPage \in Seq(Calls) /\ Len(readPage) = 3 * Size
  BY <1>1, SmallReadPlan
<1>3. calls = After(readPage, 3 * l + s) /\ Got(l)
  BY DEF SmallFetch
<1>4. l < Size
  <2>1. l = Size => calls = <<>>
    BY <1>2, <1>3, AfterEnds
  <2> QED BY <1>1, <2>1
<1>5. l \in Nat /\ s \in Nat /\ 3 * l + s \in 0 .. Len(readPage) - 1 /\ Size \in Nat
  BY <1>1, <1>2, <1>4
<1>6. Head(calls) = readPage[3 * l + s + 1] /\ Tail(calls) = After(readPage, 3 * l + s + 1)
  BY <1>2, <1>3, <1>5, AfterNext
<1>7. /\ \E c \in DOMAIN Pointer : Pointer[c] = UnitAt(l + 1) /\ readPage[3 * l + 1] = Cmd(c)
      /\ readPage[3 * l + 2] = Addr(x, 1) /\ readPage[3 * l + 3] = Get(1)
  BY <1>1, <1>4, <1>5, SmallReadPlan
<1>8. x \in Pages /\ x % NPages = x
  BY OnPage DEF Working
<1>9. UNCHANGED <<kind, main>> /\ calls' = Tail(calls) =>
        /\ calls' = After(readPage, 3 * l + s + 1)' /\ kind' = "small" /\ Size' = Size
        /\ UnitAt(l + 1)' = UnitAt(l + 1) /\ UNCHANGED <<access, x>>
  BY <1>5, <1>6, SamePlan DEF After, main, line
<1>10. CASE s = 0
  <2>1. PICK c \in DOMAIN Pointer : Pointer[c] = UnitAt(l + 1) /\ Head(calls) = Cmd(c)
    BY <1>6, <1>7, <1>10
  <2>2. c \in {"read0", "read1", "readoob"}
    BY DEF Pointer
  <2>3. /\ busy = "none" /\ calls' = Tail(calls) /\ UNCHANGED <<kind, main, pageBuf, latch, row, fail, cells, trouble>>
        /\ cmd' = c /\ area' = UnitAt(l + 1) /\ busy' = "none"
    BY <2>1, <2>2, CmdCall
  <2>4. Got(l)'
    BY <1>3, <1>9, <2>3 DEF Got, UnitAt
  <2>5. SmallFetch(l, 1)'
    BY <1>9, <1>10, <2>3, <2>4 DEF SmallFetch
  <2> QED BY <1>1, <1>4, <1>5, <1>9, <2>3, <2>5 DEF ReadingOn, Reading
<1>11. CASE s = 1
  <2>1. Head(calls) = Addr(x, 1) /\ cmd \in DOMAIN Pointer /\ area = UnitAt(l + 1)
    BY <1>6, <1>7, <1>11 DEF SmallFetch
  <2>2. /\ calls' = Tail(calls) /\ UNCHANGED <<kind, main, pageBuf, latch, fail, cells, trouble>>
        /\ row' = x /\ area' = UnitAt(l + 1) /\ busy' = "read"
    BY <1>8, <2>1, AddrCall
  <2>3. Got(l)'
    BY <1>3, <1>9, <2>2 DEF Got, UnitAt
  <2>4. Latched'
    BY <1>9, <2>2 DEF Latched
  <2>5. SmallFetch(l, 2)'
    BY <1>9, <1>11, <2>2, <2>3, <2>4 DEF SmallFetch
  <2> QED BY <1>1, <1>4, <1>5, <1>8, <1>9, <2>2, <2>5 DEF ReadingOn, Reading
<1>12. CASE s = 2
  <2>1. Head(calls) = Get(1) /\ Latched /\ area = UnitAt(l + 1)
    BY <1>6, <1>7, <1>12 DEF SmallFetch
  <2>2. /\ busy = "none" /\ calls' = Tail(calls) /\ UNCHANGED <<kind, main, chip>>
        /\ pageBuf' = pageBuf \o [i \in 1 .. 1 |-> IF area + i - 1 \in Units THEN latch[area + i - 1] ELSE Junk]
    BY <2>1, GetCall
  <2>3. UnitAt(l + 1) \in Units
    BY <1>1, <1>4, <1>5, SizeIs DEF UnitAt, Units
  <2>4. \A i \in 1 .. 1 : area + i - 1 = UnitAt(l + i) /\ area + i - 1 \in Units
    BY <2>1, <2>3 DEF Units
  <2>5. latch = cells[x] /\ UNCHANGED <<access, x, cells>>
    BY <1>9, <2>1, <2>2 DEF Latched, chip
  <2>6. Got(l + 1)' /\ pageBuf' \in Seq(Things)
    BY <1>3, <1>5, <1>8, <2>2, <2>4, <2>5, GotMore
  <2>7. 3 * l + s + 1 = 3 * (l + 1) + 0
    BY <1>5, <1>12
  <2>8. SmallFetch(l + 1, 0)'
    BY <1>9, <2>2, <2>6, <2>7 DEF SmallFetch, chip
  <2>9. l + 1 \in 0 .. Size' /\ 0 \in 0 .. 2 /\ kind' = "small"
    BY <1>1, <1>4, <1>5, <1>9, <2>2
  <2>10. Reading'
    BY <2>8, <2>9 DEF Reading
  <2> QED BY <1>1, <2>2, <2>6, <2>10 DEF ReadingOn, chip
<1> QED BY <1>10, <1>11, <1>12

\* Each fetch gets the units that come next.
LEMMA FetchesFit ==
  ASSUME access \in {"main", "oob", "both"}, NEW b \in 0 .. Fetches - 1
  PROVE  LET n == IF FetchAt(b) = 1 THEN 2 ELSE 1
         IN /\ GotBy(b) \in Nat /\ GotBy(b + 1) = GotBy(b) + n
            /\ \A i \in 1 .. n : FetchAt(b) + i - 1 = UnitAt(GotBy(b) + i) /\ FetchAt(b) + i - 1 \in Units
<1>1. Size = IF access = "both" THEN 3 ELSE IF access = "main" THEN 2 ELSE 1
  BY SizeIs
<1>2. CASE access = "both"
  <2>1. CASE b = 0
    BY <1>1, <1>2, <2>1 DEF FetchAt, GotBy, Fetches, UnitAt, Units
  <2>2. CASE b = 1
    BY <1>1, <1>2, <2>2 DEF FetchAt, GotBy, Fetches, UnitAt, Units
  <2> QED BY <1>2, <2>1, <2>2 DEF Fetches
<1>3. CASE access # "both"
  <2>1. b = 0 /\ Fetches = 1
    BY <1>3 DEF Fetches
  <2> QED BY <1>1, <1>3, <2>1 DEF FetchAt, GotBy, UnitAt, Units
<1> QED BY <1>2, <1>3

\* Of large page chips.
LEMMA LargeReadingOn ==
  ASSUME Untroubled, Types, RangeOK, Addressable, pc \in {"read", "verify"}, kind = "large", Call,
         calls # <<>>,
         NEW b \in 0 .. Fetches, NEW s \in 0 .. 4, b = Fetches => s = 0, LargeFetch(b, s)
  PROVE  ReadingOn /\ Reading'
<1>1. access \in {"main", "oob", "both"} /\ x \in Nat /\ row \in Pages /\ pageBuf \in Seq(Things) /\ Fetches \in 1 .. 2
  BY DEF Types, Fetches
<1>2. readPage \in Seq(Calls) /\ Len(readPage) = 5 * Fetches
  BY <1>1, LargeReadPlan
<1>3. calls = After(readPage, 5 * b + s) /\ Got(GotBy(b))
  BY DEF LargeFetch
<1>4. b < Fetches
  <2>1. b = Fetches => calls = <<>>
    BY <1>2, <1>3, AfterEnds
  <2> QED BY <1>1, <2>1
<1>5. b \in Nat /\ b \in 0 .. Fetches - 1 /\ s \in Nat /\ 5 * b + s \in 0 .. Len(readPage) - 1
  BY <1>1, <1>2, <1>4
<1>6. Head(calls) = readPage[5 * b + s + 1] /\ Tail(calls) = After(readPage, 5 * b + s + 1)
  BY <1>2, <1>3, <1>5, AfterNext
<1>7. /\ readPage[5 * b + 1] = Cmd("read0") /\ readPage[5 * b + 2] = Addr(LargeRow(x), FetchAt(b))
      /\ readPage[5 * b + 3] = Cmd("readstart") /\ readPage[5 * b + 4] = WaitReady
      /\ readPage[5 * b + 5] = Get(IF FetchAt(b) = 1 THEN 2 ELSE 1)
  BY <1>1, <1>5, LargeReadPlan
<1>8. x \in Pages /\ LargeRow(x) % NPages = x
  BY OnPage DEF Working
<1>9. UNCHANGED <<kind, main>> /\ calls' = Tail(calls) =>
        /\ calls' = After(readPage, 5 * b + s + 1)' /\ kind' = "large" /\ Fetches' = Fetches
        /\ FetchAt(b)' = FetchAt(b) /\ GotBy(b)' = GotBy(b) /\ GotBy(b + 1)' = GotBy(b + 1) /\ UNCHANGED <<access, x>>
  BY <1>5, <1>6, SamePlan DEF After, GotBy, main, line
<1>10. ASSUME UNCHANGED <<kind, main, pageBuf, cells>>, calls' = Tail(calls)
       PROVE  Got(GotBy(b))'
  BY <1>3, <1>9, <1>10 DEF Got, UnitAt
<1>11. ASSUME UNCHANGED <<kind, main, fail, cells, trouble, pageBuf, latch>>, row' \in Pages, calls' = Tail(calls),
              s < 4, LargeFetch(b, s + 1)'
       PROVE  ReadingOn /\ Reading'
  <2>1. Fetches' = Fetches /\ kind' = "large"
    BY <1>9, <1>11
  <2>2. b \in 0 .. Fetches' /\ s + 1 \in 0 .. 4 /\ (b = Fetches' => s + 1 = 0)
    BY <1>1, <1>4, <1>5, <1>11, <2>1
  <2>3. Reading'
    BY <1>11, <2>1, <2>2 DEF Reading
  <2> QED BY <1>1, <1>11, <2>3 DEF ReadingOn
<1>12. CASE s = 0
  <2>1. Head(calls) = Cmd("read0")
    BY <1>6, <1>7, <1>12
  <2>2. /\ calls' = Tail(calls) /\ UNCHANGED <<kind, main, pageBuf, latch, row, fail, cells, trouble>>
        /\ cmd' = "read0" /\ busy' = "none"
    BY <2>1, CmdCall
  <2>3. Got(GotBy(b))'
    BY <1>10, <2>2
  <2>4. LargeFetch(b, 1)'
    BY <1>9, <1>12, <2>2, <2>3 DEF LargeFetch
  <2> QED BY <1>1, <1>11, <1>12, <2>2, <2>4
<1>13. CASE s = 1
  <2>1. Head(calls) = Addr(LargeRow(x), FetchAt(b)) /\ cmd = "read0" /\ busy = "none"
    BY <1>6, <1>7, <1>13 DEF LargeFetch
  <2>2. /\ calls' = Tail(calls) /\ UNCHANGED <<kind, main, pageBuf, latch, fail, cells, trouble>>
        /\ row' = x /\ area' = FetchAt(b) /\ cmd' = "read0" /\ busy' = "none"
    BY <1>8, <2>1, AddrCall
  <2>3. Got(GotBy(b))'
    BY <1>10, <2>2
  <2>4. LargeFetch(b, 2)'
    BY <1>9, <1>13, <2>2, <2>3 DEF LargeFetch
  <2> QED BY <1>8, <1>11, <1>13, <2>2, <2>4
<1>14. CASE s = 2
  <2>1. Head(calls) = Cmd("readstart") /\ cmd = "read0" /\ busy = "none" /\ area = FetchAt(b) /\ row = x
    BY <1>6, <1>7, <1>14 DEF LargeFetch
  <2>2. /\ calls' = Tail(calls) /\ UNCHANGED <<kind, main, pageBuf, latch, row, fail, cells, trouble>>
        /\ area' = FetchAt(b) /\ busy' = "read"
    BY <2>1, CmdCall DEF Pointer
  <2>3. Latched'
    BY <1>9, <2>1, <2>2 DEF Latched
  <2>4. Got(GotBy(b))'
    BY <1>10, <2>2
  <2>5. LargeFetch(b, 3)'
    BY <1>9, <1>14, <2>1, <2>2, <2>3, <2>4 DEF LargeFetch
  <2> QED BY <1>1, <1>11, <1>14, <2>2, <2>5
<1>15. CASE s = 3
  <2>1. Head(calls) = WaitReady /\ Latched /\ area = FetchAt(b) /\ row = x
    BY <1>6, <1>7, <1>15 DEF LargeFetch
  <2>2. busy = "none" /\ calls' = Tail(calls) /\ UNCHANGED <<kind, main, pageBuf, chip>>
    BY <2>1, WaitCall
  <2>3. Latched' /\ busy' = "none"
    BY <1>9, <2>1, <2>2 DEF Latched, chip
  <2>4. Got(GotBy(b))'
    BY <1>10, <2>2 DEF chip
  <2>5. LargeFetch(b, 4)'
    BY <1>9, <1>15, <2>1, <2>2, <2>3, <2>4 DEF LargeFetch, chip
  <2> QED BY <1>1, <1>11, <1>15, <2>2, <2>5 DEF chip
<1>16. CASE s = 4
  <2>1. PICK n \in Nat : n = IF FetchAt(b) = 1 THEN 2 ELSE 1
    OBVIOUS
  <2>2. PICK l \in Nat : l = GotBy(b)
    BY <1>1, <1>5, FetchesFit
  <2>3. Head(calls) = Get(n) /\ Latched /\ area = FetchAt(b)
    BY <1>6, <1>7, <1>16, <2>1 DEF LargeFetch
  <2>4. /\ GotBy(b + 1) = l + n
        /\ \A i \in 1 .. n : area + i - 1 = UnitAt(l + i) /\ area + i - 1 \in Units
    BY <1>1, <1>5, <2>1, <2>2, <2>3, FetchesFit
  <2>5. /\ busy = "none" /\ calls' = Tail(calls) /\ UNCHANGED <<kind, main, chip>>
        /\ pageBuf' = pageBuf \o [i \in 1 .. n |-> IF area + i - 1 \in Units THEN latch[area + i - 1] ELSE Junk]
    BY <2>3, GetCall
  <2>6. latch = cells[x] /\ UNCHANGED <<access, x, cells>>
    BY <1>9, <2>3, <2>5 DEF Latched, chip
  <2>7. Got(l + n)' /\ pageBuf' \in Seq(Things)
    <3>1. Got(l)
      BY <1>3, <2>2
    <3> QED BY ONLY <1>8, <2>4, <2>5, <2>6, <3>1, Types, GotMore, l \in Nat, n \in Nat
  <2>8. 5 * b + s + 1 = 5 * (b + 1) + 0
    BY <1>5, <1>16
  <2>9. Got(GotBy(b + 1))'
    <3>1. GotBy(b + 1)' = l + n
      BY <1>9, <2>4, <2>5
    <3> QED BY <2>7, <3>1 DEF Got
  <2>10. LargeFetch(b + 1, 0)'
    <3>1. calls' = After(readPage, 5 * (b + 1) + 0)' /\ busy' = "none"
      BY <1>9, <2>5, <2>8 DEF chip
    <3> QED BY <2>9, <3>1 DEF LargeFetch
  <2>11. b + 1 \in 0 .. Fetches' /\ 0 \in 0 .. 4 /\ kind' = "large"
    BY <1>1, <1>4, <1>5, <1>9, <2>5
  <2>12. Reading'
    BY <2>10, <2>11 DEF Reading
  <2> QED BY <1>1, <2>5, <2>7, <2>12 DEF ReadingOn, chip
<1> QED BY <1>12, <1>13, <1>14, <1>15, <1>16

\* A call of a read keeps what the read will find, and the pages.
LEMMA ReadCall ==
  ASSUME Untroubled, Types, RangeOK, Addressable, pc \in {"read", "verify"}, Reading, Call
  PROVE  ReadingOn /\ Reading'
<1>1. calls # <<>>
  BY DEF Call, Send, Receive, Wait, CheckStatus, ExitCall
<1>2. CASE kind = "small"
  <2>1. PICK l \in 0 .. Size, s \in 0 .. 2 : (l = Size => s = 0) /\ SmallFetch(l, s)
    BY <1>1, <1>2 DEF Reading, Between
  <2> QED BY <1>1, <1>2, <2>1, SmallReadingOn
<1>3. CASE kind = "large"
  <2>1. PICK b \in 0 .. Fetches, s \in 0 .. 4 : (b = Fetches => s = 0) /\ LargeFetch(b, s)
    BY <1>1, <1>3 DEF Reading, Between
  <2> QED BY <1>1, <1>3, <2>1, LargeReadingOn
<1> QED BY <1>2, <1>3 DEF Types

\* The chip finishes a read with the page in its register.
LEMMA ReadEnds ==
  ASSUME Untroubled, Types, RangeOK, pc \in {"read", "verify"}, Reading, ChipWorks
  PROVE  /\ busy' = "none" /\ fail' = FALSE /\ latch' = cells[row]
         /\ UNCHANGED <<kind, main, calls, pageBuf, row, cells>> /\ Reading'
<1>1. busy # "none" /\ busy' = "none" /\ UNCHANGED <<kind, main, calls, pageBuf, cmd, area, row>>
  BY DEF ChipWorks
<1>2. /\ readPage' = readPage /\ Size' = Size /\ Fetches' = Fetches
      /\ (\A i \in Nat : UnitAt(i)' = UnitAt(i)) /\ \A b \in Nat : FetchAt(b)' = FetchAt(b)
  BY <1>1, SamePlan
<1>3. UNCHANGED <<access, x, kind>>
  BY <1>1 DEF main, line
<1>4. access \in {"main", "oob", "both"} /\ Size \in 1 .. 3 /\ Fetches \in 1 .. 2
  BY SizeIs DEF Types, Fetches
<1>5. ASSUME busy = "read"
      PROVE  UNCHANGED cells /\ fail' = FALSE /\ latch' = cells[row]
  BY <1>5 DEF ChipWorks
<1>6. ASSUME Latched
      PROVE  busy = "read" /\ Latched'
  <2>1. busy = "read" /\ row = x
    BY <1>1, <1>6 DEF Latched
  <2> QED BY <1>1, <1>3, <1>5, <2>1 DEF Latched
<1>7. ASSUME UNCHANGED cells, NEW n \in Nat, Got(n)
      PROVE  Got(n)'
  BY <1>1, <1>3, <1>7 DEF Got, UnitAt
<1>8. CASE kind = "small"
  <2>1. PICK l \in 0 .. Size, s \in 0 .. 2 : (l = Size => s = 0) /\ SmallFetch(l, s)
    BY <1>1, <1>8 DEF Reading, Between
  <2>2. s = 2 /\ Latched /\ area = UnitAt(l + 1) /\ Got(l) /\ calls = After(readPage, 3 * l + s)
    BY <1>1, <2>1 DEF SmallFetch
  <2>3. l \in Nat
    BY <1>4
  <2>4. UNCHANGED cells /\ fail' = FALSE /\ latch' = cells[row] /\ Latched'
    BY <1>5, <1>6, <2>2
  <2>5. Got(l)'
    BY <1>7, <2>2, <2>3, <2>4
  <2>6. SmallFetch(l, s)'
    <3>1. calls' = After(readPage, 3 * l + s)'
      BY <1>1, <1>2, <2>2 DEF After
    <3>2. area' = UnitAt(l + 1)'
      BY <1>1, <1>2, <2>2, <2>3
    <3> QED BY <2>2, <2>4, <2>5, <3>1, <3>2 DEF SmallFetch
  <2>7. l \in 0 .. Size' /\ (l = Size' => s = 0) /\ kind' = "small"
    BY <1>2, <1>3, <1>8, <2>1
  <2>8. Reading'
    BY <2>6, <2>7 DEF Reading
  <2> QED BY <1>1, <2>4, <2>8
<1>9. CASE kind = "large"
  <2>1. PICK b \in 0 .. Fetches, s \in 0 .. 4 : (b = Fetches => s = 0) /\ LargeFetch(b, s)
    BY <1>1, <1>9 DEF Reading, Between
  <2>2. s = 3 /\ Latched /\ area = FetchAt(b) /\ row = x /\ Got(GotBy(b)) /\ calls = After(readPage, 5 * b + s)
    BY <1>1, <2>1 DEF LargeFetch
  <2>3. b \in Nat /\ GotBy(b)' = GotBy(b) /\ GotBy(b) \in Nat
    BY <1>2, <1>4 DEF GotBy
  <2>4. UNCHANGED cells /\ fail' = FALSE /\ latch' = cells[row] /\ Latched'
    BY <1>5, <1>6, <2>2
  <2>5. Got(GotBy(b))'
    BY <1>1, <1>3, <2>2, <2>3, <2>4 DEF Got, UnitAt
  <2>6. LargeFetch(b, s)'
    <3>1. calls' = After(readPage, 5 * b + s)'
      BY <1>1, <1>2, <2>2 DEF After
    <3>2. area' = FetchAt(b)' /\ row' = x'
      BY <1>1, <1>2, <1>3, <2>2, <2>3
    <3> QED BY <2>2, <2>4, <2>5, <3>1, <3>2 DEF LargeFetch
  <2>7. b \in 0 .. Fetches' /\ (b = Fetches' => s = 0) /\ kind' = "large"
    BY <1>2, <1>3, <1>9, <2>1
  <2>8. Reading'
    BY <2>6, <2>7 DEF Reading
  <2> QED BY <1>1, <2>4, <2>8
<1> QED BY <1>8, <1>9 DEF Types

-----------------------------------------------------------------------------
(***************************************************************************)
(* Writing.                                                                *)
(***************************************************************************)
\* What a call of a write changes.
WritingOn ==
  /\ UNCHANGED <<kind, main, pageBuf, fail, cells, trouble>>
  /\ row' \in Pages /\ latch' \in [Units -> Things]

\* The same plan after a call.
LEMMA SameWrite ==
  ASSUME UNCHANGED <<kind, main, pageBuf>>
  PROVE  Plan' = Plan /\ EraseCalls' = EraseCalls /\ Buffered' = Buffered /\ UNCHANGED <<kind, access, x>>
<1>1. UNCHANGED <<kind, access, x, at, file, start_pageno, pageBuf>>
  BY DEF main, line
<1>2. writePage(pageBuf)' = writePage(pageBuf)
  BY <1>1 DEF writePage, LP_writePage, SP_writePage, LargeRow, Addr, Put
<1>3. If(Erasing, eraseBlock)' = If(Erasing, eraseBlock) /\ EraseCalls' = EraseCalls
  BY <1>1 DEF If, Erasing, EraseCalls, eraseBlock, LP_eraseBlock, SP_eraseBlock, Addr
<1>4. Plan' = Plan
  BY <1>2, <1>3 DEF Plan
<1>5. Buffered' = Buffered
  BY <1>1 DEF Buffered
<1> QED BY <1>1, <1>3, <1>4, <1>5

\* The call that is due, and those after it.
LEMMA NextCall ==
  ASSUME Types, access = "both" => Len(pageBuf) = 3,
         NEW k \in Nat, k < EraseCalls + WriteCalls, calls = After(Plan, k)
  PROVE  /\ calls # <<>> /\ Head(calls) = Plan[k + 1]
         /\ calls' = Tail(calls) /\ UNCHANGED <<kind, main, pageBuf>> => calls' = After(Plan, k + 1)'
<1>1. /\ Plan \in Seq(Calls) /\ Len(Plan) = EraseCalls + WriteCalls /\ EraseCalls \in {0, 5, 6}
  BY PlanIs DEF Types
<1>2. WriteCalls \in Nat
  BY DEF WriteCalls
<1>3. k \in 0 .. Len(Plan) - 1
  BY <1>1, <1>2
<1>4. After(Plan, k) # <<>> /\ Head(After(Plan, k)) = Plan[k + 1] /\ Tail(After(Plan, k)) = After(Plan, k + 1)
  BY <1>1, <1>3, AfterNext
<1>5. ASSUME calls' = Tail(calls), UNCHANGED <<kind, main, pageBuf>>
      PROVE  calls' = After(Plan, k + 1)'
  BY <1>4, <1>5, SameWrite DEF After
<1> QED BY <1>4, <1>5

\* The erase.
LEMMA ErasingOn ==
  ASSUME Untroubled, Types, RangeOK, Addressable, pc = "write", Call, pageBuf # <<>>, Buffered,
         NEW erased \in BOOLEAN, NEW k \in 0 .. EraseCalls - 1,
         calls = After(Plan, k), EraseStage(k, erased)
  PROVE  /\ WritingOn /\ calls' = After(Plan, k + 1)' /\ EraseStage(k + 1, erased)'
         /\ k + 1 = EraseCalls => busy' = "none" /\ erased
<1>1. /\ kind \in {"small", "large"} /\ access \in {"main", "oob", "both"} /\ x \in Nat
      /\ row \in Pages /\ latch \in [Units -> Things] /\ pageBuf \in Seq(Things) /\ ~fail
  BY DEF Types
<1>2. EraseCalls \in {0, 5, 6} /\ WriteCalls \in Nat
  BY DEF EraseCalls, WriteCalls
<1>3. k \in {0, 1, 2, 3, 4, 5} /\ k \in Nat /\ k < EraseCalls + WriteCalls /\ EraseCalls # 0 /\ k + 1 \in 1 .. EraseCalls
  BY <1>2
<1>4. access = "both" => Len(pageBuf) = 3
  BY DEF Buffered
<1>5. calls # <<>> /\ Head(calls) = Plan[k + 1]
      /\ (calls' = Tail(calls) /\ UNCHANGED <<kind, main, pageBuf>> => calls' = After(Plan, k + 1)')
  BY <1>3, <1>4, NextCall
<1>6. x \in Pages /\ x % NPages = x
  BY <1>5, OnPage DEF Working
<1>7. Head(calls) = If(Erasing, eraseBlock)[k + 1]
  BY <1>1, <1>3, <1>4, <1>5, PlanIs
<1>8. k = 0 => Head(calls) = Cmd("erase1")
  BY <1>1, <1>3, <1>7, EraseIs
<1>9. k = 1 => Head(calls) = Addr(x, 1)
  BY <1>1, <1>3, <1>7, EraseIs
<1>10. k = 2 => Head(calls) = Cmd("erase2")
  BY <1>1, <1>3, <1>7, EraseIs
<1>11. k = 3 => Head(calls) = WaitReady
  BY <1>1, <1>3, <1>7, EraseIs
<1>12. k \in {4, 5} => Checks(Head(calls))
  <2>1. k = 5 => EraseCalls = 6
    BY <1>2
  <2> QED BY <1>1, <1>3, <1>7, <2>1, EraseIs
<1>13. CASE k = 0
  <2>1. /\ calls' = Tail(calls) /\ UNCHANGED <<kind, main, pageBuf>>
        /\ cmd' = "erase1" /\ busy' = "none" /\ UNCHANGED <<row, latch, fail, cells, trouble>>
    BY <1>8, <1>13, CmdCall
  <2>2. EraseStage(1, erased)'
    BY <1>13, <2>1, SameWrite DEF EraseStage
  <2> QED BY <1>1, <1>2, <1>5, <1>13, <2>1, <2>2 DEF WritingOn
<1>14. CASE k = 1
  <2>1. cmd = "erase1" /\ cmd \notin DOMAIN Pointer
    BY <1>14 DEF EraseStage, Pointer
  <2>2. /\ calls' = Tail(calls) /\ UNCHANGED <<kind, main, pageBuf>>
        /\ row' = x /\ busy' = "none" /\ UNCHANGED <<cmd, latch, fail, cells, trouble>>
    BY <1>6, <1>9, <1>14, <2>1, AddrCall
  <2>3. EraseStage(2, erased)'
    BY <1>14, <2>1, <2>2, SameWrite DEF EraseStage
  <2> QED BY <1>1, <1>2, <1>5, <1>6, <1>14, <2>2, <2>3 DEF WritingOn
<1>15. CASE k = 2
  <2>1. cmd = "erase1" /\ row = x /\ busy = "none" /\ ~erased
    BY <1>15 DEF EraseStage
  <2>2. /\ calls' = Tail(calls) /\ UNCHANGED <<kind, main, pageBuf>>
        /\ busy' = "erase" /\ UNCHANGED <<row, latch, fail, cells, trouble>>
    BY <1>10, <1>15, <2>1, CmdCall
  <2>3. EraseStage(3, erased)'
    BY <2>1, <2>2, SameWrite DEF EraseStage
  <2> QED BY <1>1, <1>2, <1>5, <1>6, <1>15, <2>2, <2>3 DEF WritingOn
<1>16. CASE k = 3
  <2>1. busy = "none" /\ calls' = Tail(calls) /\ UNCHANGED <<kind, main, pageBuf, chip>>
    BY <1>11, <1>16, WaitCall
  <2>2. erased
    BY <1>16, <2>1 DEF EraseStage
  <2>3. EraseStage(4, erased)'
    BY <2>1, <2>2 DEF EraseStage, chip
  <2> QED BY <1>1, <1>2, <1>5, <1>16, <2>1, <2>3 DEF WritingOn, chip
<1>17. CASE k \in {4, 5}
  <2>1. PICK b \in BOOLEAN : Head(calls) = Status(b)
    BY <1>12, <1>17 DEF Checks
  <2>2. /\ busy = "none" /\ calls' = Tail(calls) /\ UNCHANGED <<kind, main, pageBuf>>
        /\ UNCHANGED <<area, row, latch, busy, fail, cells, trouble>>
    BY <1>1, <2>1, StatusCall
  <2>3. erased
    BY <1>17 DEF EraseStage
  <2>4. EraseStage(k + 1, erased)'
    BY <1>17, <2>2, <2>3 DEF EraseStage
  <2> QED BY <1>1, <1>5, <2>2, <2>3, <2>4 DEF WritingOn
<1> QED BY <1>3, <1>13, <1>14, <1>15, <1>16, <1>17

\* The write, of large page chips.
LEMMA LargeWritingOn ==
  ASSUME Untroubled, Types, RangeOK, Addressable, pc = "write", Call, pageBuf # <<>>, Buffered,
         kind = "large", access = "both", calls # <<>>,
         NEW done \in SUBSET Units, NEW j \in 0 .. 6,
         calls = After(Plan, EraseCalls + j), LargeStage(j, done)
  PROVE  /\ WritingOn /\ j + 1 \in 0 .. 6 /\ calls' = After(Plan, EraseCalls + (j + 1))' /\ LargeStage(j + 1, done)'
<1>1. /\ x \in Nat /\ row \in Pages /\ latch \in [Units -> Things] /\ pageBuf \in Seq(Things) /\ ~fail
      /\ Len(pageBuf) = 3
  BY DEF Types, Buffered
<1>2. EraseCalls \in Nat /\ WriteCalls = 6
  BY DEF EraseCalls, WriteCalls
<1>3. Plan \in Seq(Calls) /\ Len(Plan) = EraseCalls + 6
  BY <1>1, <1>2, PlanIs
<1>4. j # 6
  <2>1. j = 6 => calls = <<>>
    BY <1>3, AfterEnds
  <2> QED BY <2>1
<1>5. j \in {0, 1, 2, 3, 4, 5} /\ j + 1 \in 1 .. WriteCalls /\ EraseCalls + j \in Nat /\ EraseCalls + j < EraseCalls + WriteCalls
      /\ EraseCalls + j + 1 = EraseCalls + (j + 1)
  BY <1>2, <1>4
<1>6. Head(calls) = Plan[EraseCalls + (j + 1)]
      /\ (calls' = Tail(calls) /\ UNCHANGED <<kind, main, pageBuf>> => calls' = After(Plan, EraseCalls + (j + 1))')
  <2>1. Head(calls) = Plan[EraseCalls + j + 1]
        /\ (calls' = Tail(calls) /\ UNCHANGED <<kind, main, pageBuf>> => calls' = After(Plan, EraseCalls + j + 1)')
    <3>1. PICK k \in Nat : k = EraseCalls + j
      BY <1>5
    <3>2. k < EraseCalls + WriteCalls /\ calls = After(Plan, k)
      BY <1>5, <3>1
    <3>3. calls # <<>> /\ Head(calls) = Plan[k + 1]
          /\ (calls' = Tail(calls) /\ UNCHANGED <<kind, main, pageBuf>> => calls' = After(Plan, k + 1)')
      BY <1>1, <3>2, NextCall
    <3>4. UNCHANGED <<kind, main, pageBuf>> => EraseCalls' + j + 1 = k + 1
      BY <3>1, SameWrite
    <3> QED BY <3>1, <3>3, <3>4
  <2>2. UNCHANGED <<kind, main, pageBuf>> => EraseCalls' = EraseCalls
    BY SameWrite
  <2> QED BY <1>5, <2>1, <2>2
<1>7. Head(calls) = writePage(pageBuf)[j + 1]
  BY <1>1, <1>5, <1>6, PlanIs
<1>8. x \in Pages /\ LargeRow(x) % NPages = x
  BY OnPage DEF Working
<1>9. /\ j = 0 => Head(calls) = Cmd("seqin")
      /\ j = 1 => Head(calls) = Addr(LargeRow(x), 1)
      /\ j = 2 => Head(calls) = Put(pageBuf)
      /\ j = 3 => Head(calls) = Cmd("pageprog")
      /\ j = 4 => Head(calls) = WaitReady
  BY <1>1, <1>7, WriteIs
<1>10. j = 5 => Checks(Head(calls))
  BY <1>1, <1>7, WriteIs
<1>11. CASE j = 0
  <2>1. /\ calls' = Tail(calls) /\ UNCHANGED <<kind, main, pageBuf>>
        /\ cmd' = "seqin" /\ busy' = "none" /\ latch' = Clear /\ UNCHANGED <<row, fail, cells, trouble>>
    BY <1>9, <1>11, CmdCall
  <2>2. Loaded({})' /\ latch' \in [Units -> Things]
    BY <2>1 DEF Loaded, Clear, Things, Content
  <2>3. LargeStage(1, done)'
    BY <1>11, <2>1, <2>2 DEF LargeStage
  <2> QED BY <1>1, <1>6, <1>11, <2>1, <2>2, <2>3 DEF WritingOn
<1>12. CASE j = 1
  <2>1. cmd = "seqin" /\ cmd \notin DOMAIN Pointer /\ Loaded({}) /\ done = {}
    BY <1>12 DEF LargeStage, Pointer
  <2>2. /\ calls' = Tail(calls) /\ UNCHANGED <<kind, main, pageBuf>>
        /\ row' = x /\ area' = 1 /\ busy' = "none" /\ UNCHANGED <<cmd, latch, fail, cells, trouble>>
    BY <1>8, <1>9, <1>12, <2>1, AddrCall
  <2>3. x' = x /\ Loaded({})'
    BY <2>1, <2>2 DEF Loaded, main
  <2>4. LargeStage(2, done)'
    BY <2>1, <2>2, <2>3 DEF LargeStage
  <2> QED BY <1>1, <1>6, <1>8, <1>12, <2>2, <2>4 DEF WritingOn
<1>13. CASE j = 2
  <2>1. cmd = "seqin" /\ Loaded({}) /\ area = 1 /\ row = x /\ done = {} /\ busy = "none"
    BY <1>13 DEF LargeStage
  <2>2. /\ calls' = Tail(calls) /\ UNCHANGED <<kind, main, pageBuf>>
        /\ latch' = [u \in Units |-> IF u - area + 1 \in DOMAIN pageBuf THEN pageBuf[u - area + 1] ELSE latch[u]]
        /\ UNCHANGED <<cmd, area, row, busy, fail, cells, trouble>>
    BY <1>9, <1>13, <2>1, PutCall
  <2>3. DOMAIN pageBuf = 1 .. 3
    BY <1>1
  <2>4. \A u \in Units : u - area + 1 = u /\ u \in DOMAIN pageBuf
    BY <2>1, <2>3 DEF Units
  <2>5. latch' = [u \in Units |-> pageBuf[u]]
    BY <2>2, <2>4
  <2>6. \A u \in Units : pageBuf[u] \in Things
    BY <1>1, <2>3, <2>4, ElementOfSeq DEF Units
  <2>7. Loaded(Units)' /\ latch' \in [Units -> Things]
    BY <2>2, <2>5, <2>6 DEF Loaded
  <2>8. x' = x
    BY <2>2 DEF main
  <2>9. LargeStage(3, done)'
    BY <2>1, <2>2, <2>7, <2>8 DEF LargeStage
  <2> QED BY <1>1, <1>6, <1>13, <2>2, <2>7, <2>9 DEF WritingOn
<1>14. CASE j = 3
  <2>1. cmd = "seqin" /\ row = x /\ Loaded(Units) /\ done = {}
    BY <1>14 DEF LargeStage
  <2>2. /\ calls' = Tail(calls) /\ UNCHANGED <<kind, main, pageBuf>>
        /\ busy' = "program" /\ UNCHANGED <<row, latch, fail, cells, trouble>>
    BY <1>9, <1>14, <2>1, CmdCall
  <2>3. x' = x /\ Loaded(Units)'
    BY <2>1, <2>2 DEF Loaded, main
  <2>4. LargeStage(4, done)'
    BY <2>1, <2>2, <2>3 DEF LargeStage
  <2> QED BY <1>1, <1>6, <1>14, <2>2, <2>4 DEF WritingOn
<1>15. CASE j = 4
  <2>1. busy = "none" /\ calls' = Tail(calls) /\ UNCHANGED <<kind, main, pageBuf, chip>>
    BY <1>9, <1>15, WaitCall
  <2>2. done = Units
    BY <1>15, <2>1 DEF LargeStage
  <2>3. LargeStage(5, done)'
    BY <2>1, <2>2 DEF LargeStage, chip
  <2> QED BY <1>1, <1>6, <1>15, <2>1, <2>3 DEF WritingOn, chip
<1>16. CASE j = 5
  <2>1. PICK b \in BOOLEAN : Head(calls) = Status(b)
    BY <1>10, <1>16 DEF Checks
  <2>2. /\ busy = "none" /\ calls' = Tail(calls) /\ UNCHANGED <<kind, main, pageBuf>>
        /\ UNCHANGED <<area, row, latch, busy, fail, cells, trouble>>
    BY <1>1, <2>1, StatusCall
  <2>3. done = Units
    BY <1>16 DEF LargeStage
  <2>4. LargeStage(6, done)'
    BY <2>2, <2>3 DEF LargeStage
  <2> QED BY <1>1, <1>6, <1>16, <2>2, <2>4 DEF WritingOn
<1> QED BY <1>5, <1>11, <1>12, <1>13, <1>14, <1>15, <1>16

\* The write, of small page chips.
LEMMA SmallWritingOn ==
  ASSUME Untroubled, Types, RangeOK, Addressable, pc = "write", Call, pageBuf # <<>>, Buffered,
         kind = "small", access = "both", calls # <<>>,
         NEW done \in SUBSET Units, NEW u \in 0 .. 3, NEW s \in 0 .. 5, u = 3 => s = 0,
         calls = After(Plan, EraseCalls + 6 * u + s), SmallStage(u, s, done)
  PROVE  /\ WritingOn
         /\ \E t \in 0 .. 3, r \in 0 .. 5 :
              (t = 3 => r = 0) /\ calls' = After(Plan, EraseCalls + 6 * t + r)' /\ SmallStage(t, r, done)'
<1>1. /\ x \in Nat /\ row \in Pages /\ latch \in [Units -> Things] /\ pageBuf \in Seq(Things) /\ ~fail
      /\ Len(pageBuf) = 3
  BY DEF Types, Buffered
<1>2. EraseCalls \in Nat /\ WriteCalls = 18
  BY DEF EraseCalls, WriteCalls
<1>3. Plan \in Seq(Calls) /\ Len(Plan) = EraseCalls + 18
  BY <1>1, <1>2, PlanIs
<1>4. u # 3
  <2>1. u = 3 => EraseCalls + 6 * u + s = EraseCalls + 18
    BY <1>2
  <2>2. u = 3 => calls = <<>>
    BY <1>3, <2>1, AfterEnds
  <2> QED BY <2>2
<1>5. u \in 0 .. 2 /\ 6 * u + s + 1 \in 1 .. WriteCalls
  BY <1>2, <1>4
<1>6. Head(calls) = Plan[EraseCalls + (6 * u + s + 1)]
      /\ (calls' = Tail(calls) /\ UNCHANGED <<kind, main, pageBuf>> => calls' = After(Plan, EraseCalls + (6 * u + s + 1))')
  <2>1. PICK k \in Nat : k = EraseCalls + 6 * u + s
    BY <1>2
  <2>2. k < EraseCalls + WriteCalls /\ calls = After(Plan, k) /\ k + 1 = EraseCalls + (6 * u + s + 1)
    BY <1>2, <1>5, <2>1
  <2>3. calls # <<>> /\ Head(calls) = Plan[k + 1]
        /\ (calls' = Tail(calls) /\ UNCHANGED <<kind, main, pageBuf>> => calls' = After(Plan, k + 1)')
    BY <1>1, <2>2, NextCall
  <2>4. UNCHANGED <<kind, main, pageBuf>> => EraseCalls' + (6 * u + s + 1) = k + 1
    BY <2>2, SameWrite
  <2> QED BY <2>2, <2>3, <2>4
<1>7. Head(calls) = writePage(pageBuf)[6 * u + s + 1]
  BY <1>1, <1>5, <1>6, PlanIs
<1>8. x \in Pages /\ x % NPages = x
  BY OnPage DEF Working
<1>9. /\ writePage(pageBuf)[6 * u + 1] = Cmd(PointerTo(u)) /\ writePage(pageBuf)[6 * u + 2] = Cmd("seqin")
      /\ writePage(pageBuf)[6 * u + 3] = Addr(x, 1) /\ writePage(pageBuf)[6 * u + 4] = Put(Unit(u))
      /\ writePage(pageBuf)[6 * u + 5] = Cmd("pageprog") /\ Checks(writePage(pageBuf)[6 * u + 6])
  BY <1>1, <1>5, WriteIs
<1>10. /\ s = 0 => Head(calls) = Cmd(PointerTo(u))
       /\ s = 1 => Head(calls) = Cmd("seqin")
       /\ s = 2 => Head(calls) = Addr(x, 1)
       /\ s = 3 => Head(calls) = Put(Unit(u))
       /\ s = 4 => Head(calls) = Cmd("pageprog")
       /\ s = 5 => Checks(Head(calls))
  <2>1. /\ s = 0 => 6 * u + s + 1 = 6 * u + 1
        /\ s = 1 => 6 * u + s + 1 = 6 * u + 2
        /\ s = 2 => 6 * u + s + 1 = 6 * u + 3
        /\ s = 3 => 6 * u + s + 1 = 6 * u + 4
        /\ s = 4 => 6 * u + s + 1 = 6 * u + 5
        /\ s = 5 => 6 * u + s + 1 = 6 * u + 6
    OBVIOUS
  <2> QED BY ONLY <1>7, <1>9, <2>1
<1> DEFINE GoesOn == \E t \in 0 .. 3, r \in 0 .. 5 :
             (t = 3 => r = 0) /\ calls' = After(Plan, EraseCalls + 6 * t + r)' /\ SmallStage(t, r, done)'
<1>11. ASSUME NEW n \in 1 .. 5, s + 1 = n, WritingOn, calls' = Tail(calls), SmallStage(u, n, done)'
       PROVE  GoesOn
  <2>1. calls' = After(Plan, EraseCalls + 6 * u + n)'
    <3>1. UNCHANGED <<kind, main, pageBuf>> /\ EraseCalls' = EraseCalls
      BY <1>11, SameWrite DEF WritingOn
    <3>2. EraseCalls + (6 * u + s + 1) = EraseCalls + 6 * u + n
      BY <1>2, <1>11
    <3> QED BY <1>6, <1>11, <3>1, <3>2
  <2>2. u \in 0 .. 3 /\ n \in 0 .. 5 /\ (u = 3 => n = 0)
    BY <1>4
  <2> QED BY <1>11, <2>1, <2>2
<1> HIDE DEF GoesOn
<1>12. ASSUME s = 0
       PROVE  WritingOn /\ GoesOn
  <2>1. PointerTo(u) \in DOMAIN Pointer /\ Pointer[PointerTo(u)] = u + 1 /\ PointerTo(u) \in {"read0", "read1", "readoob"}
    BY <1>5 DEF PointerTo, Pointer
  <2>2. /\ calls' = Tail(calls) /\ UNCHANGED <<kind, main, pageBuf, latch, row, fail, cells, trouble>>
        /\ area' = u + 1 /\ busy' = "none"
    BY <1>10, <1>12, <2>1, CmdCall
  <2>3. SmallStage(u, 1, done)'
    BY <1>12, <2>2 DEF SmallStage
  <2>4. WritingOn
    BY <1>1, <2>2 DEF WritingOn
  <2>5. s + 1 = 1
    BY <1>12
  <2> QED BY <1>11, <2>2, <2>3, <2>4, <2>5
<1>13. ASSUME s = 1
       PROVE  WritingOn /\ GoesOn
  <2>1. area = u + 1 /\ "seqin" \notin DOMAIN Pointer
    BY <1>13 DEF SmallStage, Pointer
  <2>2. /\ calls' = Tail(calls) /\ UNCHANGED <<kind, main, pageBuf, row, fail, cells, trouble>>
        /\ cmd' = "seqin" /\ latch' = Clear /\ area' = u + 1 /\ busy' = "none"
    BY <1>10, <1>13, <2>1, CmdCall
  <2>3. Loaded({})' /\ latch' \in [Units -> Things]
    BY <2>2 DEF Loaded, Clear, Things, Content
  <2>4. SmallStage(u, 2, done)'
    BY <1>13, <2>2, <2>3 DEF SmallStage
  <2>5. WritingOn
    BY <1>1, <2>2, <2>3 DEF WritingOn
  <2>6. s + 1 = 2
    BY <1>13
  <2> QED BY <1>11, <2>2, <2>4, <2>5, <2>6
<1>14. ASSUME s = 2
       PROVE  WritingOn /\ GoesOn
  <2>1. area = u + 1 /\ cmd = "seqin" /\ cmd \notin DOMAIN Pointer /\ Loaded({}) /\ done = 1 .. u
    BY <1>14 DEF SmallStage, Pointer
  <2>2. /\ calls' = Tail(calls) /\ UNCHANGED <<kind, main, pageBuf, cmd, latch, fail, cells, trouble>>
        /\ row' = x /\ area' = u + 1 /\ busy' = "none"
    BY <1>8, <1>10, <1>14, <2>1, AddrCall
  <2>3. x' = x /\ Loaded({})'
    BY <2>1, <2>2 DEF Loaded, main
  <2>4. SmallStage(u, 3, done)'
    BY <2>1, <2>2, <2>3 DEF SmallStage
  <2>5. WritingOn
    BY <1>1, <1>8, <2>2 DEF WritingOn
  <2>6. s + 1 = 3
    BY <1>14
  <2> QED BY <1>11, <2>2, <2>4, <2>5, <2>6
<1>15. ASSUME s = 3
       PROVE  WritingOn /\ GoesOn
  <2>1. area = u + 1 /\ cmd = "seqin" /\ Loaded({}) /\ row = x /\ done = 1 .. u /\ busy = "none"
    BY <1>15 DEF SmallStage
  <2>2. /\ calls' = Tail(calls) /\ UNCHANGED <<kind, main, pageBuf, cmd, area, row, busy, fail, cells, trouble>>
        /\ latch' = [w \in Units |-> IF w - area + 1 \in DOMAIN Unit(u) THEN Unit(u)[w - area + 1] ELSE latch[w]]
    BY <1>10, <1>15, <2>1, PutCall
  <2>3. DOMAIN Unit(u) = {1} /\ Unit(u)[1] = pageBuf[u + 1] /\ pageBuf[u + 1] \in Things
    <3>1. u + 1 \in 1 .. Len(pageBuf)
      BY <1>1, <1>5
    <3>2. pageBuf[u + 1] \in Things
      BY <1>1, <3>1, ElementOfSeq
    <3>3. Len(Unit(u)) = 1 /\ DOMAIN Unit(u) = 1 .. Len(Unit(u)) /\ Unit(u)[1] = pageBuf[u + 1]
      BY <1>1, <3>1 DEF Unit, UnitOf
    <3> QED BY <3>2, <3>3
  <2>4. \A w \in Units : w - area + 1 \in DOMAIN Unit(u) <=> w = u + 1
    BY <1>5, <2>1, <2>3 DEF Units
  <2>5. \A w \in Units : w = u + 1 => w - area + 1 = 1
    BY <2>1
  <2>6. \A w \in Units : latch[w] = Blank
    BY <2>1 DEF Loaded
  <2>7. latch' = [w \in Units |-> IF w = u + 1 THEN pageBuf[w] ELSE Blank]
    BY <2>2, <2>3, <2>4, <2>5, <2>6
  <2>8. latch' \in [Units -> Things]
    BY <2>3, <2>7 DEF Things, Content
  <2>9. Loaded({u + 1})' /\ x' = x
    BY <2>2, <2>7 DEF Loaded, main
  <2>10. SmallStage(u, 4, done)'
    BY <2>1, <2>2, <2>9 DEF SmallStage
  <2>11. WritingOn
    BY <1>1, <2>2, <2>8 DEF WritingOn
  <2>12. s + 1 = 4
    BY <1>15
  <2> QED BY <1>11, <2>2, <2>10, <2>11, <2>12
<1>16. ASSUME s = 4
       PROVE  WritingOn /\ GoesOn
  <2>1. cmd = "seqin" /\ row = x /\ Loaded({u + 1}) /\ done = 1 .. u
    BY <1>16 DEF SmallStage
  <2>2. /\ calls' = Tail(calls) /\ UNCHANGED <<kind, main, pageBuf, row, latch, fail, cells, trouble>>
        /\ busy' = "program"
    BY <1>10, <1>16, <2>1, CmdCall
  <2>3. x' = x /\ Loaded({u + 1})'
    BY <2>1, <2>2 DEF Loaded, main
  <2>4. SmallStage(u, 5, done)'
    BY <2>1, <2>2, <2>3 DEF SmallStage
  <2>5. WritingOn
    BY <1>1, <2>2 DEF WritingOn
  <2>6. s + 1 = 5
    BY <1>16
  <2> QED BY <1>11, <2>2, <2>4, <2>5, <2>6
<1>17. ASSUME s = 5
       PROVE  WritingOn /\ GoesOn
  <2>1. PICK b \in BOOLEAN : Head(calls) = Status(b)
    BY <1>10, <1>17 DEF Checks
  <2>2. /\ busy = "none" /\ calls' = Tail(calls) /\ UNCHANGED <<kind, main, pageBuf>>
        /\ UNCHANGED <<area, row, latch, busy, fail, cells, trouble>>
    BY <1>1, <2>1, StatusCall
  <2>3. done = 1 .. u + 1
    BY <1>17, <2>2 DEF SmallStage
  <2>4. SmallStage(u + 1, 0, done)'
    BY <2>2, <2>3 DEF SmallStage
  <2>5. WritingOn
    BY <1>1, <2>2 DEF WritingOn
  <2>6. calls' = After(Plan, EraseCalls + 6 * (u + 1) + 0)'
    <3>1. EraseCalls' = EraseCalls
      BY <2>2, SameWrite
    <3>2. EraseCalls + (6 * u + s + 1) = EraseCalls + 6 * (u + 1) + 0
      BY <1>2, <1>17
    <3> QED BY <1>6, <2>2, <3>1, <3>2
  <2>7. u + 1 \in 0 .. 3 /\ 0 \in 0 .. 5
    BY <1>5
  <2> QED BY <2>4, <2>5, <2>6, <2>7 DEF GoesOn
<1>18. s \in {0, 1, 2, 3, 4, 5}
  OBVIOUS
<1>19. WritingOn /\ GoesOn
  BY <1>12, <1>13, <1>14, <1>15, <1>16, <1>17, <1>18
<1> QED BY <1>19 DEF GoesOn

\* A call of a write keeps what has been erased and programmed, or gives up.
LEMMA WriteCall ==
  ASSUME Untroubled, Types, RangeOK, Addressable, pc = "write", Call,
         NEW erased \in BOOLEAN, NEW done \in SUBSET Units, Stage(erased, done)
  PROVE  \/ WritingOn /\ Stage(erased, done)'
         \/ pc' = "exit" /\ calls' = <<>>
            /\ UNCHANGED <<kind, line, x, file, at, verifyErrors, options, runs, pageBuf, chip>>
<1>1. calls # <<>>
  BY DEF Call, Send, Receive, Wait, CheckStatus, ExitCall
<1>2. EraseCalls \in {0, 5, 6}
  BY DEF EraseCalls
<1>3. UNCHANGED <<kind, main, pageBuf>> => UNCHANGED <<kind, access, x>> /\ EraseCalls' = EraseCalls /\ Buffered' = Buffered
  BY SameWrite
<1>4. ASSUME pageBuf # <<>>, Buffered, done = {}, NEW k \in 0 .. EraseCalls - 1,
             calls = After(Plan, k), EraseStage(k, erased)
      PROVE  WritingOn /\ Stage(erased, done)'
  <2>1. /\ WritingOn /\ calls' = After(Plan, k + 1)' /\ EraseStage(k + 1, erased)'
        /\ k + 1 = EraseCalls => busy' = "none" /\ erased
    BY <1>4, ErasingOn
  <2>2. UNCHANGED <<kind, main, pageBuf>>
    BY <2>1 DEF WritingOn
  <2>3. EraseCalls' = EraseCalls /\ Buffered' /\ pageBuf' # <<>> /\ access' = access /\ kind' = kind
    BY <1>3, <1>4, <2>2
  <2>4. CASE k + 1 < EraseCalls
    <3>1. k + 1 \in 0 .. EraseCalls' - 1
      BY <1>2, <2>3, <2>4
    <3> QED BY <1>4, <2>1, <2>3, <3>1 DEF Stage
  <2>5. CASE k + 1 = EraseCalls
    <3>1. busy' = "none" /\ erased /\ calls' = After(Plan, EraseCalls)'
      BY <2>1, <2>3, <2>5
    <3>2. CASE access # "both"
      BY <1>4, <2>1, <2>3, <3>1, <3>2 DEF Stage
    <3>3. CASE access = "both" /\ kind = "large"
      <4>1. EraseCalls + 0 = EraseCalls
        BY <1>2
      <4>2. 0 \in 0 .. 6 /\ calls' = After(Plan, EraseCalls + 0)'
        BY <2>3, <3>1, <4>1
      <4>3. LargeStage(0, done)'
        BY <1>4, <3>1 DEF LargeStage
      <4> QED BY <2>1, <2>3, <3>1, <3>3, <4>2, <4>3 DEF Stage
    <3>4. CASE access = "both" /\ kind = "small"
      <4>1. EraseCalls + 6 * 0 + 0 = EraseCalls
        BY <1>2
      <4>2. 0 \in 0 .. 3 /\ 0 \in 0 .. 5 /\ calls' = After(Plan, EraseCalls + 6 * 0 + 0)'
        BY <2>3, <3>1, <4>1
      <4>3. SmallStage(0, 0, done)'
        BY <1>4, <3>1 DEF SmallStage
      <4> QED BY <2>1, <2>3, <3>1, <3>4, <4>2, <4>3 DEF Stage
    <3> QED BY <3>2, <3>3, <3>4 DEF Types
  <2>6. k + 1 < EraseCalls \/ k + 1 = EraseCalls
    BY <1>2
  <2> QED BY <2>4, <2>5, <2>6
<1>5. ASSUME pageBuf # <<>>, Buffered, erased, access # "both", calls = After(Plan, EraseCalls)
      PROVE  pc' = "exit" /\ calls' = <<>>
             /\ UNCHANGED <<kind, line, x, file, at, verifyErrors, options, runs, pageBuf, chip>>
  <2>1. kind \in {"small", "large"} /\ access \in {"main", "oob", "both"} /\ x \in Nat /\ pageBuf \in Seq(Things)
    BY DEF Types
  <2>2. WriteCalls = 1
    BY <1>5 DEF WriteCalls
  <2>3. EraseCalls \in Nat /\ EraseCalls < EraseCalls + WriteCalls
    BY <1>2, <2>2
  <2>4. Head(calls) = Plan[EraseCalls + 1]
    <3>1. PICK k \in Nat : k = EraseCalls
      BY <2>3
    <3> QED BY <1>5, <2>3, <3>1, NextCall
  <2>5. Head(calls) = Exit
    <3>1. 1 \in 1 .. WriteCalls
      BY <2>2
    <3>2. Plan[EraseCalls + 1] = writePage(pageBuf)[1]
      BY <1>5, <2>1, <3>1, PlanIs
    <3>3. writePage(pageBuf)[1] = Exit
      BY <1>5, <2>1, WriteIs
    <3> QED BY <2>4, <3>2, <3>3
  <2> QED BY <2>5, ExitIs
<1>6. ASSUME pageBuf # <<>>, Buffered, erased, access = "both", kind = "large",
             NEW j \in 0 .. 6, calls = After(Plan, EraseCalls + j), LargeStage(j, done)
      PROVE  WritingOn /\ Stage(erased, done)'
  <2>1. WritingOn /\ j + 1 \in 0 .. 6 /\ calls' = After(Plan, EraseCalls + (j + 1))' /\ LargeStage(j + 1, done)'
    BY <1>1, <1>6, LargeWritingOn
  <2>2. UNCHANGED <<kind, main, pageBuf>>
    BY <2>1 DEF WritingOn
  <2>3. Buffered' /\ pageBuf' # <<>> /\ access' = "both" /\ kind' = "large"
    BY <1>3, <1>6, <2>2
  <2> QED BY <1>6, <2>1, <2>3 DEF Stage
<1>7. ASSUME pageBuf # <<>>, Buffered, erased, access = "both", kind = "small",
             NEW u \in 0 .. 3, NEW s \in 0 .. 5, u = 3 => s = 0,
             calls = After(Plan, EraseCalls + 6 * u + s), SmallStage(u, s, done)
      PROVE  WritingOn /\ Stage(erased, done)'
  <2>1. /\ WritingOn
        /\ \E t \in 0 .. 3, r \in 0 .. 5 :
             (t = 3 => r = 0) /\ calls' = After(Plan, EraseCalls + 6 * t + r)' /\ SmallStage(t, r, done)'
    BY <1>1, <1>7, SmallWritingOn
  <2>2. UNCHANGED <<kind, main, pageBuf>>
    BY <2>1 DEF WritingOn
  <2>3. Buffered' /\ pageBuf' # <<>> /\ access' = "both" /\ kind' = "small"
    BY <1>3, <1>7, <2>2
  <2> QED BY <1>7, <2>1, <2>3 DEF Stage
<1> QED BY <1>1, <1>4, <1>5, <1>6, <1>7 DEF Stage, Between

\* The erase of the block page x is in.
LEMMA EraseEnds ==
  ASSUME Types, RangeOK, pc = "write", ChipWorks, Untroubled', busy = "erase", row = x, Erasing,
         \A q \in start_pageno .. x - 1 : Kept(q),
         \A q \in x .. NPages - 1 : Ahead(q, FALSE, {})
  PROVE  /\ cells' \in [Pages -> [Units -> Things]] /\ ~fail'
         /\ \A q \in start_pageno .. x - 1 : Kept(q)'
         /\ \A q \in x .. NPages - 1 : Ahead(q, TRUE, {})'
<1>1. /\ cells' = [q \in Pages |-> IF SameBlock(q, x) THEN Clear ELSE cells[q]]
      /\ fail' = FALSE /\ UNCHANGED <<kind, main, pageBuf>>
  BY DEF ChipWorks, Untroubled
<1>2. UNCHANGED <<kind, x, start_pageno, file, pageBuf>>
  BY <1>1 DEF main, line
<1>3. x \in Nat /\ start_pageno \in Nat /\ start_pageno <= x /\ Pages = 0 .. NPages - 1 /\ NPages \in Nat
  BY DEF Types, RangeOK, Working, Pages
<1>4. Erases(x)
  BY <1>3 DEF Erases, Erasing
<1>5. Clear \in [Units -> Things] /\ cells \in [Pages -> [Units -> Things]]
  BY DEF Clear, Things, Content, Types
<1>6. cells' \in [Pages -> [Units -> Things]]
  BY <1>1, <1>5
<1>7. \A a, b : SameBlock(a, b)' = SameBlock(a, b) /\ (SameBlock(a, b) <=> SameBlock(b, a)) /\ Erases(a)' = Erases(a)
  BY <1>2 DEF SameBlock, Erases
<1>8. ASSUME NEW q \in start_pageno .. x - 1
      PROVE  Kept(q)'
  <2>1. Kept(q)
    OBVIOUS
  <2>2. CASE SameBlock(x, q)
    <3>1. x \in q + 1 .. x
      BY <1>3
    <3>2. ~ \A a \in q + 1 .. x : ~(Erases(a) /\ SameBlock(a, q))
      BY <1>4, <2>2, <3>1
    <3>3. ~ \A a \in q + 1 .. x' : ~(Erases(a)' /\ SameBlock(a, q)')
      BY <1>2, <1>7, <3>2
    <3> QED BY <3>3 DEF Kept
  <2>3. CASE ~SameBlock(x, q)
    <3>1. NPages \in Nat /\ x < NPages
      BY <1>1, <1>3 DEF Types, Pages
    <3>2. q \in Pages
      BY <1>3, <3>1
    <3>3. cells'[q] = cells[q]
      BY <1>1, <1>7, <2>3, <3>2
    <3> QED BY <1>2, <1>7, <2>1, <3>3 DEF Kept
  <2> QED BY <2>2, <2>3
<1>9. ASSUME NEW q \in x .. NPages - 1
      PROVE  Ahead(q, TRUE, {})'
  <2>1. q \in Pages
    BY <1>3
  <2>2. Ahead(q, FALSE, {})
    OBVIOUS
  <2>3. CASE SameBlock(x, q)
    <3>1. cells'[q] = Clear
      BY <1>1, <1>7, <2>1, <2>3
    <3> QED BY <3>1 DEF Ahead, Clear
  <2>4. CASE ~SameBlock(x, q)
    <3>1. cells'[q] = cells[q]
      BY <1>1, <1>7, <2>1, <2>4
    <3>2. ASSUME NEW a \in start_pageno' .. x', Erases(a)', SameBlock(a, q)'
          PROVE  cells[q] = Clear
      <4>1. a \in start_pageno .. x /\ Erases(a) /\ SameBlock(a, q) /\ a # x
        BY <1>2, <1>7, <2>4, <3>2
      <4>2. cells[q] = [w \in Units |-> IF q = x /\ w \in {} THEN pageBuf[w] ELSE Blank]
        BY <2>2, <4>1 DEF Ahead
      <4> QED BY <4>2 DEF Clear
    <3> QED BY <3>1, <3>2 DEF Ahead, Clear
  <2> QED BY <2>3, <2>4
<1> QED BY <1>1, <1>6, <1>8, <1>9

\* The program of the units S of page x.
LEMMA ProgramEnds ==
  ASSUME Types, RangeOK, pc = "write", ChipWorks, Untroubled', busy = "program", row = x,
         NEW S \in SUBSET Units, NEW done \in SUBSET Units, S \cap done = {}, Loaded(S),
         \A q \in start_pageno .. x - 1 : Kept(q),
         \A q \in x .. NPages - 1 : Ahead(q, TRUE, done)
  PROVE  /\ cells' \in [Pages -> [Units -> Things]] /\ ~fail'
         /\ \A q \in start_pageno .. x - 1 : Kept(q)'
         /\ \A q \in x .. NPages - 1 : Ahead(q, TRUE, done \cup S)'
<1>1. /\ cells' = [cells EXCEPT ![row] = [u \in Units |-> Merged(cells[row][u], latch[u])]]
      /\ fail' = FALSE /\ UNCHANGED <<kind, main, pageBuf>>
  <2>1. cells' =
          CASE busy = "program" -> [cells EXCEPT ![row] = [u \in Units |-> Merged(@[u], latch[u])]]
                   [] busy = "erase" -> [q \in Pages |-> IF SameBlock(q, row) THEN Clear ELSE cells[q]]
                   [] OTHER -> cells
    BY DEF ChipWorks, Untroubled
  <2>2. cells' = [cells EXCEPT ![row] = [u \in Units |-> Merged(cells[row][u], latch[u])]]
    BY <2>1
  <2>3. fail' = FALSE /\ UNCHANGED <<kind, main, pageBuf>>
    BY DEF ChipWorks, Untroubled
  <2> QED BY ONLY <2>2, <2>3
<1>2. UNCHANGED <<kind, x, start_pageno, file, pageBuf>>
  BY <1>1 DEF main, line
<1>3. x \in Pages /\ start_pageno \in Nat /\ Pages = 0 .. NPages - 1 /\ NPages \in Nat
      /\ latch \in [Units -> Things] /\ cells \in [Pages -> [Units -> Things]]
  BY DEF Types, RangeOK, Working, Pages
<1>4. \A u \in Units : Merged(cells[x][u], latch[u]) \in Things
  BY <1>3 DEF Merged, Things, Content
<1>5. /\ cells' \in [Pages -> [Units -> Things]] /\ \A q \in Pages : q # x => cells'[q] = cells[q]
      /\ \A u \in Units : cells'[x][u] = Merged(cells[x][u], latch[u])
  <2>1. /\ cells' \in [Pages -> [Units -> Things]] /\ \A q \in Pages : q # row => cells'[q] = cells[q]
        /\ cells'[row] = [u \in Units |-> Merged(cells[row][u], latch[u])]
    BY <1>1, <1>3, <1>4
  <2> QED BY <2>1
<1>6. \A a, b : SameBlock(a, b)' = SameBlock(a, b) /\ Erases(a)' = Erases(a)
  BY <1>2 DEF SameBlock, Erases
<1>7. ASSUME NEW q \in start_pageno .. x - 1
      PROVE  Kept(q)'
  <2>1. q \in Pages /\ q # x
    BY <1>3
  <2>2. cells'[q] = cells[q]
    BY <1>5, <2>1
  <2> QED BY <1>2, <1>6, <2>2 DEF Kept
<1>8. ASSUME NEW q \in x .. NPages - 1
      PROVE  Ahead(q, TRUE, done \cup S)'
  <2>1. q \in Pages
    BY <1>3
  <2>2. Ahead(q, TRUE, done)
    OBVIOUS
  <2>3. ASSUME NEW a \in start_pageno' .. x', Erases(a)', SameBlock(a, q)'
        PROVE  cells[q] = [w \in Units |-> IF q = x /\ w \in done THEN pageBuf[w] ELSE Blank]
    <3>1. a \in start_pageno .. x /\ Erases(a) /\ SameBlock(a, q)
      BY <1>2, <1>6, <2>3
    <3> QED BY <2>2, <3>1 DEF Ahead
  <2>4. ASSUME cells[q] = [w \in Units |-> IF q = x /\ w \in done THEN pageBuf[w] ELSE Blank]
        PROVE  cells'[q] = [w \in Units |-> IF q = x /\ w \in done \cup S THEN pageBuf[w] ELSE Blank]
    <3>1. CASE q # x
      BY <1>5, <2>1, <2>4, <3>1
    <3>2. CASE q = x
      <4>1. \A w \in Units : cells[x][w] = IF w \in done THEN pageBuf[w] ELSE Blank
        BY <2>4, <3>2
      <4>2. \A w \in Units : latch[w] = IF w \in S THEN pageBuf[w] ELSE Blank
        BY DEF Loaded
      <4>3. \A w \in Units : Merged(cells[x][w], latch[w]) = IF w \in done \cup S THEN pageBuf[w] ELSE Blank
        BY <4>1, <4>2 DEF Merged
      <4>4. cells'[x] \in [Units -> Things]
        BY <1>3, <1>5
      <4>5. cells'[x] = [w \in Units |-> IF w \in done \cup S THEN pageBuf[w] ELSE Blank]
        BY <1>5, <4>3, <4>4
      <4> QED BY <3>2, <4>5
    <3> QED BY <3>1, <3>2
  <2>5. ASSUME NEW a \in start_pageno' .. x', Erases(a)', SameBlock(a, q)'
        PROVE  cells'[q] = [w \in Units |-> IF q = x' /\ w \in done \cup S THEN pageBuf'[w] ELSE Blank]
    BY <1>2, <2>3, <2>4, <2>5
  <2> QED BY <2>5 DEF Ahead
<1> QED BY <1>1, <1>5, <1>7, <1>8

\* The chip finishes an erase or a program of a write.
LEMMA WriteEnds ==
  ASSUME Untroubled', Types, RangeOK, pc = "write", Writing, ChipWorks
  PROVE  /\ cells' \in [Pages -> [Units -> Things]] /\ ~fail' /\ latch' = latch
         /\ UNCHANGED <<kind, main, calls, pageBuf, row>> /\ Writing'
<1>1. PICK erased \in BOOLEAN, done \in SUBSET Units :
        Stage(erased, done) /\ \A q \in x .. NPages - 1 : Ahead(q, erased, done)
  BY DEF Writing
<1>2. busy # "none" /\ busy' = "none" /\ UNCHANGED <<kind, main, calls, pageBuf, cmd, area, row>>
  BY DEF ChipWorks
<1>3. UNCHANGED <<kind, access, x, start_pageno>> /\ Plan' = Plan /\ EraseCalls' = EraseCalls /\ Buffered' = Buffered
  BY <1>2, SameWrite DEF main, line
<1>4. (access # "both" => x = start_pageno) /\ \A q \in start_pageno .. x - 1 : Kept(q)
  BY DEF Writing
<1>5. ASSUME NEW e \in BOOLEAN, NEW d \in SUBSET Units, Stage(e, d)',
             \A q \in start_pageno .. x - 1 : Kept(q)', \A q \in x .. NPages - 1 : Ahead(q, e, d)'
      PROVE  Writing'
  BY <1>3, <1>4, <1>5 DEF Writing
<1>6. ASSUME busy \in {"erase", "program"}
      PROVE  latch' = latch
  BY <1>6 DEF ChipWorks
<1>7. ASSUME pageBuf # <<>>, Buffered, done = {}, NEW k \in 0 .. EraseCalls - 1,
             calls = After(Plan, k), EraseStage(k, erased)
      PROVE  /\ cells' \in [Pages -> [Units -> Things]] /\ ~fail' /\ Writing' /\ latch' = latch
  <2>1. EraseCalls \in {0, 5, 6} /\ k \in {0, 1, 2, 3, 4, 5}
    BY DEF EraseCalls
  <2>2. k = 3 /\ busy = "erase" /\ row = x /\ ~erased
    BY <1>2, <1>7, <2>1 DEF EraseStage
  <2>3. erased = FALSE
    BY <2>2
  <2>4. Erasing
    BY <2>2 DEF EraseCalls
  <2>5. \A q \in x .. NPages - 1 : Ahead(q, FALSE, {})
    BY <1>1, <1>7, <2>3
  <2>6. /\ cells' \in [Pages -> [Units -> Things]] /\ ~fail'
        /\ \A q \in start_pageno .. x - 1 : Kept(q)'
        /\ \A q \in x .. NPages - 1 : Ahead(q, TRUE, {})'
    BY ONLY <1>4, <2>2, <2>4, <2>5, EraseEnds, Types, RangeOK, pc = "write", ChipWorks, Untroubled', ToolAssumption
  <2> DEFINE e == TRUE
  <2>7. Stage(e, {})'
    <3>1. k \in 0 .. EraseCalls' - 1 /\ calls' = After(Plan, k)' /\ pageBuf' # <<>> /\ Buffered'
      BY <1>2, <1>3, <1>7 DEF After
    <3>2. EraseStage(k, e)'
      BY <1>2, <2>2 DEF EraseStage
    <3> HIDE DEF e
    <3> QED BY <3>1, <3>2 DEF Stage
  <2>8. Writing'
    <3>1. \A q \in x .. NPages - 1 : Ahead(q, e, {})'
      BY <2>6
    <3>2. e \in BOOLEAN
      OBVIOUS
    <3> HIDE DEF e
    <3> QED BY <1>5, <2>6, <2>7, <3>1, <3>2
  <2> QED BY <1>6, <2>2, <2>6, <2>8
<1>8. ASSUME pageBuf # <<>>, Buffered, erased, access = "both", busy = "program", row = x,
             NEW S \in SUBSET Units, S \cap done = {}, Loaded(S), Stage(erased, done \cup S)'
      PROVE  /\ cells' \in [Pages -> [Units -> Things]] /\ ~fail' /\ Writing' /\ latch' = latch
  <2>1. \A q \in x .. NPages - 1 : Ahead(q, TRUE, done)
    <3>1. erased = TRUE
      BY <1>8
    <3> QED BY <1>1, <3>1
  <2>2. /\ cells' \in [Pages -> [Units -> Things]] /\ ~fail'
        /\ \A q \in start_pageno .. x - 1 : Kept(q)'
        /\ \A q \in x .. NPages - 1 : Ahead(q, TRUE, done \cup S)'
    BY ONLY <1>4, <1>8, <2>1, ProgramEnds, Types, RangeOK, pc = "write", ChipWorks, Untroubled', ToolAssumption,
            done \in SUBSET Units
  <2>3. \A q \in x .. NPages - 1 : Ahead(q, erased, done \cup S)'
    <3>1. erased = TRUE
      BY <1>8
    <3> QED BY <2>2, <3>1
  <2>4. Writing'
    BY <1>5, <1>8, <2>2, <2>3
  <2> QED BY <1>6, <1>8, <2>2, <2>4
<1>9. ASSUME pageBuf # <<>>, Buffered, erased, access = "both", kind = "large",
             NEW j \in 0 .. 6, calls = After(Plan, EraseCalls + j), LargeStage(j, done)
      PROVE  /\ cells' \in [Pages -> [Units -> Things]] /\ ~fail' /\ Writing' /\ latch' = latch
  <2>1. j = 4 /\ busy = "program" /\ row = x /\ Loaded(Units) /\ done = {}
    BY <1>2, <1>9 DEF LargeStage
  <2>2. Units \cap done = {} /\ done \cup Units = Units
    BY <2>1
  <2>3. LargeStage(j, Units)'
    BY <1>2, <2>1 DEF LargeStage
  <2>4. Stage(erased, Units)'
    <3>1. calls' = After(Plan, EraseCalls + j)' /\ pageBuf' # <<>> /\ Buffered' /\ access' = "both" /\ kind' = "large"
      BY <1>2, <1>3, <1>9 DEF After
    <3> QED BY <1>9, <2>3, <3>1 DEF Stage
  <2> QED BY <1>8, <1>9, <2>1, <2>2, <2>4
<1>10. ASSUME pageBuf # <<>>, Buffered, erased, access = "both", kind = "small",
             NEW u \in 0 .. 3, NEW s \in 0 .. 5, u = 3 => s = 0,
             calls = After(Plan, EraseCalls + 6 * u + s), SmallStage(u, s, done)
      PROVE  /\ cells' \in [Pages -> [Units -> Things]] /\ ~fail' /\ Writing' /\ latch' = latch
  <2>1. s = 5 /\ busy = "program" /\ row = x /\ Loaded({u + 1}) /\ done = 1 .. u /\ u \in 0 .. 2
    BY <1>2, <1>10 DEF SmallStage
  <2>2. {u + 1} \cap done = {} /\ done \cup {u + 1} = 1 .. u + 1 /\ {u + 1} \in SUBSET Units
    BY <2>1 DEF Units
  <2>3. SmallStage(u, s, 1 .. u + 1)'
    BY <1>2, <2>1 DEF SmallStage
  <2>4. Stage(erased, 1 .. u + 1)'
    <3>1. calls' = After(Plan, EraseCalls + 6 * u + s)' /\ pageBuf' # <<>> /\ Buffered' /\ access' = "both" /\ kind' = "small"
      BY <1>2, <1>3, <1>10 DEF After
    <3> DEFINE d == 1 .. u + 1
    <3>2. SmallStage(u, s, d)'
      BY <2>3
    <3> HIDE DEF d
    <3>3. Stage(erased, d)'
      BY <1>10, <3>1, <3>2 DEF Stage
    <3> QED BY <3>3 DEF d
  <2> QED BY <1>8, <1>10, <2>1, <2>2, <2>4
<1>11. ~Between /\ (erased /\ calls = After(Plan, EraseCalls) /\ busy = "none" => FALSE)
  BY <1>2 DEF Between
<1>12. UNCHANGED <<kind, main, calls, pageBuf, row>>
  BY <1>2
<1>13. \/ pageBuf # <<>> /\ Buffered /\ done = {}
          /\ \E k \in 0 .. EraseCalls - 1 : calls = After(Plan, k) /\ EraseStage(k, erased)
       \/ pageBuf # <<>> /\ Buffered /\ erased /\ access = "both" /\ kind = "large"
          /\ \E j \in 0 .. 6 : calls = After(Plan, EraseCalls + j) /\ LargeStage(j, done)
       \/ pageBuf # <<>> /\ Buffered /\ erased /\ access = "both" /\ kind = "small"
          /\ \E u \in 0 .. 3, s \in 0 .. 5 :
               (u = 3 => s = 0) /\ calls = After(Plan, EraseCalls + 6 * u + s) /\ SmallStage(u, s, done)
  BY <1>1, <1>11 DEF Stage
<1> QED BY <1>7, <1>9, <1>10, <1>12, <1>13

-----------------------------------------------------------------------------
(***************************************************************************)
(* Each step keeps what is true of a chip that has kept up.                *)
(***************************************************************************)
\* What a verification has found stays found while pages and file stay.
LEMMA ComparedOn ==
  ASSUME UNCHANGED <<kind, main, cells>>, Compared
  PROVE  Compared'
<1>1. UNCHANGED <<access, x, at, file, start_pageno, verifyErrors, cells>> /\ Size' = Size
  BY SamePlan DEF main, line
<1>2. \A i : UnitAt(i)' = UnitAt(i)
  BY <1>1 DEF UnitAt
<1>3. SameAsFile' <=> SameAsFile
  BY <1>1, <1>2 DEF SameAsFile
<1> QED BY <1>1, <1>3 DEF Compared

\* The calls.
LEMMA CallSound ==
  ASSUME Sound, Untroubled, Addressable, Call
  PROVE  Sound' /\ UNCHANGED cells
<1>1. Types /\ RangeOK
  BY DEF Sound
<1>2. calls # <<>>
  BY DEF Call, Send, Receive, Wait, CheckStatus, ExitCall
<1>3. pc \in Working
  BY <1>1, <1>2 DEF RangeOK
<1>4. ASSUME UNCHANGED <<kind, main, fail, cells>>, row' \in Pages, latch' \in [Units -> Things], pageBuf' \in Seq(Things)
      PROVE  Types' /\ RangeOK' /\ pc' = pc
  <2>1. Types'
    BY <1>1, <1>4 DEF Types, main, line
  <2>2. x < end_pageno
    BY <1>1, <1>2, <1>3 DEF RangeOK
  <2>3. RangeOK'
    BY <1>1, <1>3, <1>4, <2>2 DEF RangeOK, main, line, Working
  <2> QED BY <1>4, <2>1, <2>3 DEF main
<1>5. CASE pc \in {"read", "verify"}
  <2>1. ReadingOn /\ Reading'
    BY <1>1, <1>5, ReadCall DEF Sound
  <2>2. Types' /\ RangeOK' /\ pc' = pc
    BY <1>1, <1>4, <2>1 DEF ReadingOn, Types
  <2>3. pc = "verify" => Compared'
    BY <2>1, ComparedOn DEF Sound, ReadingOn
  <2> QED BY <1>5, <2>1, <2>2, <2>3 DEF Sound, ReadingOn
<1>6. CASE pc = "write"
  <2>1. PICK erased \in BOOLEAN, done \in SUBSET Units :
          Stage(erased, done) /\ \A q \in x .. NPages - 1 : Ahead(q, erased, done)
    BY <1>6 DEF Sound, Writing
  <2>2. CASE WritingOn /\ Stage(erased, done)'
    <3>1. UNCHANGED <<kind, access, x, file, start_pageno, pageBuf, cells>>
      BY <2>2 DEF WritingOn, main, line
    <3>2. \A q : Kept(q)' = Kept(q)
      BY <3>1 DEF Kept, Erases, SameBlock
    <3>3. \A q : Ahead(q, erased, done)' = Ahead(q, erased, done)
      BY <3>1 DEF Ahead, Erases, SameBlock
    <3>4. Writing'
      BY <1>6, <2>1, <2>2, <3>1, <3>2, <3>3 DEF Sound, Writing
    <3>5. Types' /\ RangeOK' /\ pc' = pc
      BY <1>1, <1>4, <2>2 DEF WritingOn, Types
    <3> QED BY <1>6, <3>1, <3>4, <3>5 DEF Sound
  <2>3. CASE pc' = "exit" /\ calls' = <<>>
             /\ UNCHANGED <<kind, line, x, file, at, verifyErrors, options, runs, pageBuf, chip>>
    <3>1. Types'
      BY <1>1, <2>3 DEF Types, line, chip
    <3>2. RangeOK'
      BY <2>3 DEF RangeOK, Working
    <3> QED BY <2>3, <3>1, <3>2 DEF Sound, chip
  <2> QED BY <1>1, <1>6, <2>1, <2>2, <2>3, WriteCall
<1> QED BY <1>3, <1>5, <1>6 DEF Working

\* The chip's work.
LEMMA ChipSound ==
  ASSUME Sound, Untroubled, Untroubled', ChipWorks
  PROVE  Sound'
<1>1. Types /\ RangeOK
  BY DEF Sound
<1>2. UNCHANGED <<kind, main, calls, pageBuf, cmd, area, row>>
  BY DEF ChipWorks
<1>3. RangeOK'
  BY <1>1, <1>2 DEF RangeOK, main, line
<1>4. ASSUME cells' \in [Pages -> [Units -> Things]], ~fail', latch' \in [Units -> Things]
      PROVE  Types' /\ pc' = pc
  BY <1>1, <1>2, <1>4 DEF Types, main, line
<1>5. CASE pc \in {"read", "verify"}
  <2>1. /\ fail' = FALSE /\ latch' = cells[row] /\ UNCHANGED cells /\ Reading'
    BY <1>1, <1>5, ReadEnds DEF Sound
  <2>2. pc = "verify" => Compared'
    BY <1>2, <2>1, ComparedOn DEF Sound
  <2>3. Types' /\ pc' = pc
    BY <1>1, <1>4, <2>1 DEF Types
  <2> QED BY <1>3, <1>5, <2>1, <2>2, <2>3 DEF Sound
<1>6. CASE pc = "write"
  <2>1. /\ cells' \in [Pages -> [Units -> Things]] /\ ~fail' /\ latch' = latch /\ Writing'
    BY <1>1, <1>6, WriteEnds DEF Sound
  <2>2. Types' /\ pc' = pc
    BY <1>1, <1>4, <2>1 DEF Types
  <2> QED BY <1>3, <1>6, <2>1, <2>2 DEF Sound
<1>7. CASE pc \notin Working
  <2>1. row \in Pages /\ latch \in [Units -> Things] /\ cells \in [Pages -> [Units -> Things]]
    BY <1>1 DEF Types
  <2>2. /\ ~fail' /\ latch' = (IF busy = "read" THEN cells[row] ELSE latch)
        /\ cells' = CASE busy = "program" -> [cells EXCEPT ![row] = [u \in Units |-> Merged(@[u], latch[u])]]
                      [] busy = "erase" -> [q \in Pages |-> IF SameBlock(q, row) THEN Clear ELSE cells[q]]
                      [] OTHER -> cells
    BY DEF ChipWorks, Untroubled
  <2>3. latch' \in [Units -> Things]
    BY <2>1, <2>2
  <2>4. cells' \in [Pages -> [Units -> Things]]
    <3>1. CASE busy = "program"
      <4>1. cells' = [cells EXCEPT ![row] = [u \in Units |-> Merged(cells[row][u], latch[u])]]
        BY <2>2, <3>1
      <4>2. [u \in Units |-> Merged(cells[row][u], latch[u])] \in [Units -> Things]
        BY <2>1 DEF Merged, Things, Content
      <4> QED BY ONLY <2>1, <4>1, <4>2
    <3>2. CASE busy = "erase"
      <4>1. Clear \in [Units -> Things]
        BY DEF Clear, Things, Content
      <4>2. cells' = [q \in Pages |-> IF SameBlock(q, row) THEN Clear ELSE cells[q]]
        BY <2>2, <3>2
      <4> QED BY ONLY <2>1, <4>1, <4>2
    <3>3. CASE busy \notin {"program", "erase"}
      BY <2>1, <2>2, <3>3
    <3> QED BY <3>1, <3>2, <3>3
  <2>5. Types' /\ pc' = pc
    BY <1>4, <2>2, <2>3, <2>4
  <2> QED BY <1>3, <1>7, <2>5 DEF Sound, Working
<1> QED BY <1>5, <1>6, <1>7 DEF Working

\* Reading stops with nothing begun, or with the page in the buffer.
LEMMA ReadingStops ==
  ASSUME Types, Reading, calls = <<>>
  PROVE  busy = "none" /\ (pageBuf = <<>> \/ Got(Size))
<1>1. access \in {"main", "oob", "both"} /\ x \in Nat /\ Size \in 1 .. 3 /\ Fetches \in 1 .. 2
  BY SizeIs DEF Types, Fetches
<1>2. CASE Between
  BY <1>2 DEF Between
<1>3. CASE kind = "small" /\ ~Between
  <2>1. PICK l \in 0 .. Size, s \in 0 .. 2 : (l = Size => s = 0) /\ SmallFetch(l, s)
    BY <1>3 DEF Reading
  <2>2. readPage \in Seq(Calls) /\ Len(readPage) = 3 * Size
    BY <1>1, <1>3, SmallReadPlan
  <2>3. calls = After(readPage, 3 * l + s) /\ Got(l) /\ (s = 0 => busy = "none")
    BY <2>1 DEF SmallFetch
  <2>4. l # Size => 3 * l + s \in 0 .. Len(readPage) - 1
    BY <1>1, <2>2
  <2>5. l = Size
    BY <2>2, <2>3, <2>4, AfterNext
  <2> QED BY <2>1, <2>3, <2>5
<1>4. CASE kind = "large" /\ ~Between
  <2>1. PICK b \in 0 .. Fetches, s \in 0 .. 4 : (b = Fetches => s = 0) /\ LargeFetch(b, s)
    BY <1>4 DEF Reading
  <2>2. readPage \in Seq(Calls) /\ Len(readPage) = 5 * Fetches
    BY <1>1, <1>4, LargeReadPlan
  <2>3. calls = After(readPage, 5 * b + s) /\ Got(GotBy(b)) /\ (s = 0 => busy = "none")
    BY <2>1 DEF LargeFetch
  <2>4. b # Fetches => 5 * b + s \in 0 .. Len(readPage) - 1
    BY <1>1, <2>2
  <2>5. b = Fetches
    BY <2>2, <2>3, <2>4, AfterNext
  <2>6. GotBy(b) = Size
    BY <1>1, <2>5 DEF GotBy
  <2> QED BY <2>1, <2>3, <2>5, <2>6
<1> QED BY <1>2, <1>3, <1>4 DEF Types

\* Writing stops with nothing begun, or with the page written.
LEMMA WritingStops ==
  ASSUME Types, calls = <<>>, NEW erased \in BOOLEAN, NEW done \in SUBSET Units, Stage(erased, done)
  PROVE  /\ busy = "none"
         /\ pageBuf = <<>> => ~erased /\ done = {} /\ (access = "both" => at = 3 * (x - start_pageno))
         /\ pageBuf # <<>> => Buffered /\ access = "both" /\ erased /\ done = Units
<1>1. kind \in {"small", "large"} /\ access \in {"main", "oob", "both"} /\ x \in Nat /\ pageBuf \in Seq(Things)
  BY DEF Types
<1>2. Buffered => Plan \in Seq(Calls) /\ Len(Plan) = EraseCalls + WriteCalls /\ EraseCalls \in {0, 5, 6}
  BY <1>1, PlanIs DEF Buffered
<1>3. Buffered => \A k \in Nat : k < EraseCalls + WriteCalls => calls # After(Plan, k)
  <2> SUFFICES ASSUME Buffered, NEW k \in Nat, k < EraseCalls + WriteCalls
               PROVE  calls # After(Plan, k)
    OBVIOUS
  <2>1. WriteCalls \in Nat
    BY DEF WriteCalls
  <2>2. k \in 0 .. Len(Plan) - 1
    BY <1>2, <2>1
  <2> QED BY <1>2, <2>2, AfterNext
<1>4. WriteCalls = IF access # "both" THEN 1 ELSE IF kind = "large" THEN 6 ELSE 18
  BY DEF WriteCalls
<1>5. ASSUME Buffered, NEW k \in 0 .. EraseCalls - 1, calls = After(Plan, k)
      PROVE  FALSE
  <2>1. k \in Nat /\ k < EraseCalls + WriteCalls
    BY <1>2, <1>4, <1>5
  <2> QED BY <1>3, <1>5, <2>1
<1>6. ASSUME Buffered, access # "both", calls = After(Plan, EraseCalls)
      PROVE  FALSE
  <2>1. EraseCalls \in Nat /\ EraseCalls < EraseCalls + WriteCalls
    BY <1>2, <1>4, <1>6
  <2> QED BY <1>3, <1>6, <2>1
<1>7. ASSUME Buffered, access = "both", kind = "large", NEW j \in 0 .. 6,
             calls = After(Plan, EraseCalls + j), LargeStage(j, done)
      PROVE  busy = "none" /\ done = Units
  <2>1. j # 6 => EraseCalls + j \in Nat /\ EraseCalls + j < EraseCalls + WriteCalls
    BY <1>2, <1>4, <1>7
  <2>2. j = 6
    BY <1>3, <1>7, <2>1
  <2> QED BY <1>7, <2>2 DEF LargeStage
<1>8. ASSUME Buffered, access = "both", kind = "small", NEW u \in 0 .. 3, NEW s \in 0 .. 5, u = 3 => s = 0,
             calls = After(Plan, EraseCalls + 6 * u + s), SmallStage(u, s, done)
      PROVE  busy = "none" /\ done = Units
  <2>1. u # 3 => EraseCalls + 6 * u + s \in Nat /\ EraseCalls + 6 * u + s < EraseCalls + WriteCalls
    BY <1>2, <1>4, <1>8
  <2>2. u = 3 /\ s = 0
    BY <1>3, <1>8, <2>1
  <2> QED BY <1>8, <2>2 DEF SmallStage, Units
<1> QED BY <1>5, <1>6, <1>7, <1>8 DEF Stage, Between

\* Starting to read a page.
LEMMA ReadPageSound ==
  ASSUME Sound, ReadPage
  PROVE  Sound'
<1>1. /\ Types /\ RangeOK /\ pc \in {"read", "verify"} /\ x < end_pageno /\ calls = <<>> /\ pageBuf = <<>>
      /\ calls' = readPage /\ UNCHANGED <<kind, main, pageBuf, chip>>
  BY DEF Sound, ReadPage, Turn, FirstCalls
<1>2. Reading /\ (pc = "verify" => Compared)
  BY <1>1 DEF Sound
<1>3. UNCHANGED <<pc, line, x, at, verifyErrors, file, busy, access, cells>>
  BY <1>1 DEF main, line, chip
<1>4. Types'
  BY <1>1 DEF Types, main, line, chip
<1>5. RangeOK'
  BY <1>1, <1>3 DEF RangeOK, line, Working
<1>6. access \in {"main", "oob", "both"} /\ x \in Nat /\ busy = "none" /\ kind \in {"small", "large"}
  BY <1>1, <1>2, ReadingStops DEF Types
<1>7. readPage \in Seq(Calls)
  <2>1. CASE kind = "small"
    BY <1>6, <2>1, SmallReadPlan
  <2>2. CASE kind = "large"
    BY <1>6, <2>2, LargeReadPlan
  <2> QED BY <1>6, <2>1, <2>2
<1>8. readPage' = readPage /\ Size' = Size /\ Fetches' = Fetches
  BY <1>1, SamePlan
<1>9. calls' = After(readPage, 0)'
  BY <1>1, <1>7, <1>8, AfterEnds DEF After
<1>10. Got(0)'
  BY <1>1 DEF Got
<1>11. Reading'
  <2>1. CASE kind = "small"
    <3>1. 3 * 0 + 0 = 0
      OBVIOUS
    <3>2. SmallFetch(0, 0)'
      BY <1>3, <1>6, <1>9, <1>10, <3>1 DEF SmallFetch
    <3>3. 0 \in 0 .. Size' /\ 0 \in 0 .. 2 /\ kind' = "small"
      BY <1>1, <1>6, <1>8, <2>1, SizeIs
    <3> QED BY <3>2, <3>3 DEF Reading
  <2>2. CASE kind = "large"
    <3>1. 5 * 0 + 0 = 0
      OBVIOUS
    <3>2. GotBy(0)' = 0
      BY DEF GotBy
    <3>3. LargeFetch(0, 0)'
      BY <1>3, <1>6, <1>9, <1>10, <3>1, <3>2 DEF LargeFetch
    <3>4. 0 \in 0 .. Fetches' /\ 0 \in 0 .. 4 /\ kind' = "large"
      BY <1>1, <1>8, <2>2 DEF Fetches
    <3> QED BY <3>3, <3>4 DEF Reading
  <2> QED BY <1>6, <2>1, <2>2
<1>12. pc = "verify" => Compared'
  BY <1>1, <1>2, <1>3, ComparedOn
<1> QED BY <1>1, <1>3, <1>4, <1>5, <1>11, <1>12 DEF Sound

\* The page read goes to the file, or the program ends.
LEMMA KeepPageSound ==
  ASSUME Sound, KeepPage
  PROVE  Sound'
<1>1. /\ Types /\ RangeOK /\ Reading /\ pc = "read" /\ x < end_pageno /\ calls = <<>> /\ pageBuf # <<>>
      /\ pageBuf' = <<>> /\ UNCHANGED <<kind, line, at, verifyErrors, options, runs, calls, chip>>
  BY DEF Sound, KeepPage, Turn, FirstCalls
<1>2. busy = "none"
  BY <1>1, ReadingStops
<1>3. Between'
  BY <1>1, <1>2 DEF Between, chip
<1>4. CASE file' = file \o pageBuf /\ x' = x + 1 /\ UNCHANGED pc
  <2>1. file' \in Seq(Things) /\ pageBuf' \in Seq(Things) /\ x' \in Nat
    BY <1>1, <1>4 DEF Types
  <2>2. Types'
    BY <1>1, <1>4, <2>1 DEF Types, line, chip
  <2>3. x \in Nat /\ start_pageno \in Nat /\ end_pageno \in Nat /\ start_pageno <= x
    BY <1>1 DEF Types, RangeOK, Working
  <2>4. start_pageno <= x + 1 /\ x + 1 <= end_pageno
    BY <1>1, <2>3
  <2>5. RangeOK'
    BY <1>1, <1>4, <2>4 DEF RangeOK, line, Working
  <2> QED BY <1>1, <1>3, <1>4, <2>2, <2>5 DEF Sound, Reading
<1>5. CASE pc' = "exit" /\ UNCHANGED <<file, x>>
  <2>1. Types'
    BY <1>1, <1>5 DEF Types, line, chip
  <2>2. RangeOK'
    BY <1>1, <1>5 DEF RangeOK, Working
  <2> QED BY <1>5, <2>1, <2>2 DEF Sound
<1> QED BY <1>4, <1>5 DEF KeepPage

\* Units differ nowhere just when there are no differences.
LEMMA NoDifferences ==
  ASSUME NEW a, NEW b, NEW n \in Nat, DOMAIN a = 1 .. n
  PROVE  Differences(a, b) \in Nat /\ (Differences(a, b) = 0 <=> \A i \in 1 .. n : a[i] = b[i])
<1> DEFINE D == {i \in DOMAIN a : a[i] # b[i]}
<1>1. IsFiniteSet(1 .. n)
  BY FS_Interval
<1>2. D \subseteq 1 .. n
  OBVIOUS
<1>3. IsFiniteSet(D)
  BY <1>1, <1>2, FS_Subset
<1>4. Cardinality(D) \in Nat /\ (Cardinality(D) = 0 <=> D = {})
  BY <1>3, FS_CardinalityType, FS_EmptySet
<1>5. D = {} <=> \A i \in 1 .. n : a[i] = b[i]
  OBVIOUS
<1> QED BY <1>4, <1>5 DEF Differences

\* The units of the file that are for page x.
LEMMA ChunkIs ==
  ASSUME Types, at + Size <= Len(file)
  PROVE  /\ Chunk \in Seq(Things) /\ Len(Chunk) = Size /\ DOMAIN Chunk = 1 .. Size
         /\ \A i \in 1 .. Size : Chunk[i] = file[at + i]
<1>1. file \in Seq(Things) /\ at \in Nat /\ Size \in 1 .. 3 /\ Len(file) \in Nat
  BY SizeIs DEF Types
<1>2. at + 1 \in 1 .. Len(file) + 1 /\ at + Size \in 0 .. Len(file)
  BY <1>1
<1>3. /\ Chunk \in Seq(Things) /\ Len(Chunk) = Size
  BY <1>1, <1>2 DEF Chunk
<1>4. \A i \in 1 .. Size : Chunk[i] = file[at + i]
  <2> TAKE i \in 1 .. Size
  <2>1. Chunk[i] = file[at + 1 + i - 1]
    BY <1>1, <1>2 DEF Chunk
  <2>2. at + 1 + i - 1 = at + i
    BY <1>1
  <2> QED BY <2>1, <2>2
<1> QED BY <1>3, <1>4

\* The page read is compared.
LEMMA ComparePageSound ==
  ASSUME Sound, ComparePage
  PROVE  Sound'
<1>1. /\ Types /\ RangeOK /\ Reading /\ Compared /\ pc = "verify" /\ x < end_pageno /\ calls = <<>> /\ pageBuf # <<>>
      /\ ~(Len(file) - at < Size)
      /\ verifyErrors' = verifyErrors + Differences(pageBuf, Chunk)
      /\ at' = at + Size /\ x' = x + 1 /\ pageBuf' = <<>>
      /\ UNCHANGED <<kind, pc, line, file, options, runs, calls, chip>>
  BY DEF Sound, ComparePage, Turn, FirstCalls, Short
<1>2. busy = "none" /\ Got(Size)
  BY <1>1, ReadingStops
<1>3. Between'
  BY <1>1, <1>2 DEF Between, chip
<1>4. /\ x \in Nat /\ start_pageno \in Nat /\ end_pageno \in Nat /\ start_pageno <= x
      /\ at \in Nat /\ verifyErrors \in Nat /\ Size \in 1 .. 3 /\ Len(file) \in Nat /\ file \in Seq(Things)
  BY <1>1, SizeIs DEF Types, RangeOK, Working
<1>5. UNCHANGED <<access, start_pageno, end_pageno, cells>>
  BY <1>1 DEF line, chip
<1>6. at + Size <= Len(file)
  BY <1>1, <1>4
<1>7. pageBuf \in Seq(Things) /\ Len(pageBuf) = Size /\ DOMAIN pageBuf = 1 .. Size
  BY <1>1, <1>2, <1>4 DEF Types, Got
<1>8. Differences(pageBuf, Chunk) \in Nat
      /\ (Differences(pageBuf, Chunk) = 0 <=> \A i \in 1 .. Size : pageBuf[i] = Chunk[i])
  <2>1. Size \in Nat
    BY <1>4
  <2> QED BY ONLY <1>7, <2>1, NoDifferences
<1>9. \A i \in 1 .. Size : Chunk[i] = file[at + i] /\ pageBuf[i] = cells[x][UnitAt(i)]
  BY <1>1, <1>2, <1>6, ChunkIs DEF Got
<1>10. verifyErrors' \in Nat /\ (verifyErrors' = 0 <=> verifyErrors = 0 /\ \A i \in 1 .. Size : file[at + i] = cells[x][UnitAt(i)])
  BY <1>1, <1>4, <1>8, <1>9
<1>11. Size' = Size /\ \A i : UnitAt(i)' = UnitAt(i)
  BY <1>5 DEF Size, UnitAt
<1>12. at = Size * (x - start_pageno) /\ at + Size = Size * (x + 1 - start_pageno)
  <2>1. at = Size * (x - start_pageno)
    BY <1>1 DEF Compared
  <2>2. Size \in {1, 2, 3}
    BY <1>4
  <2> QED BY <1>4, <2>1, <2>2
<1>13. SameAsFile' <=> SameAsFile /\ \A i \in 1 .. Size : file[at + i] = cells[x][UnitAt(i)]
  <2>1. start_pageno .. x' - 1 = (start_pageno .. x - 1) \cup {x}
    BY <1>1, <1>4
  <2>2. SameAsFile' <=> \A q \in start_pageno .. x' - 1, i \in 1 .. Size :
                          file[Size * (q - start_pageno) + i] = cells[q][UnitAt(i)]
    BY <1>1, <1>5, <1>11 DEF SameAsFile
  <2> QED BY <1>12, <2>1, <2>2 DEF SameAsFile
<1>14. Compared'
  <2>1. verifyErrors' = 0 <=> SameAsFile'
    BY <1>1, <1>10, <1>13 DEF Compared
  <2>2. at' = Size' * (x' - start_pageno') /\ at' <= Len(file')
    <3>1. at' = Size * (x + 1 - start_pageno)
      BY <1>1, <1>12
    <3>2. Size' = Size /\ x' = x + 1 /\ start_pageno' = start_pageno /\ file' = file
      BY <1>1, <1>5, <1>11
    <3>3. at' <= Len(file)
      BY <1>1, <1>6
    <3>4. x' - start_pageno' = x + 1 - start_pageno
      BY <1>1, <1>4, <1>5
    <3>5. Size' * (x' - start_pageno') = Size * (x + 1 - start_pageno)
      BY ONLY <3>2, <3>4, Zenon
    <3> QED BY ONLY <3>1, <3>2, <3>3, <3>5, Zenon
  <2> QED BY <2>1, <2>2 DEF Compared
<1>15. Types'
  <2>1. x' = x + 1 /\ at' = at + Size /\ pageBuf' = <<>>
    BY <1>1
  <2>2. x' \in Nat /\ at' \in Nat
    BY ONLY <1>4, <2>1
  <2>3. verifyErrors' \in Nat /\ pageBuf' \in Seq(Things)
    BY ONLY <1>10, <2>1
  <2> QED BY <1>1, <2>2, <2>3 DEF Types, line, chip
<1>16. RangeOK'
  <2>1. start_pageno <= x + 1 /\ x + 1 <= end_pageno
    BY <1>1, <1>4
  <2> QED BY <1>1, <2>1 DEF RangeOK, line, Working
<1> QED BY <1>1, <1>3, <1>14, <1>15, <1>16 DEF Sound, Reading

\* Main ends, for one reason or another, or is interrupted.
LEMMA EndSound ==
  ASSUME Sound, GiveUp \/ OutOfFile \/ AllDone \/ Interrupt
  PROVE  Sound' /\ UNCHANGED cells
<1>1. Types /\ RangeOK
  BY DEF Sound
<1>2. pc' \in {"exit", "done"} /\ UNCHANGED <<kind, line, x, file, at, verifyErrors, pageBuf, row, latch, fail, cells>>
  BY DEF GiveUp, OutOfFile, AllDone, Interrupt, chip
<1>3. calls' = <<>>
  <2>1. CASE GiveUp
    BY <1>1, <2>1 DEF GiveUp, RangeOK, Working
  <2>2. CASE OutOfFile
    BY <2>2 DEF OutOfFile, Turn
  <2>3. CASE AllDone
    <3>1. x \in Nat /\ end_pageno \in Nat /\ ~(x < end_pageno)
      BY <1>1, <2>3 DEF AllDone, Types, RangeOK, Working
    <3> QED BY <1>1, <2>3, <3>1 DEF AllDone, RangeOK, Working
  <2>4. CASE Interrupt
    BY <2>4 DEF Interrupt
  <2> QED BY <2>1, <2>2, <2>3, <2>4
<1>4. Types'
  BY <1>1, <1>2 DEF Types, line
<1>5. RangeOK'
  BY <1>2, <1>3 DEF RangeOK, Working
<1> QED BY <1>2, <1>4, <1>5 DEF Sound

\* The command line.
LEMMA ParseSound ==
  ASSUME Sound, InChip, Parse
  PROVE  Sound' /\ UNCHANGED cells
<1>1. Types /\ RangeOK
  BY DEF Sound
<1>2. pc = "options" /\ UNCHANGED <<kind, pc, x, file, at, verifyErrors, calls, pageBuf, row, latch, fail, cells>>
  BY DEF Parse, ParseAction, ParseUsb, ParseAccess, ParsePages, Parses, chip
<1>3. access' \in {"main", "oob", "both"} /\ action' \in {"none", "id"} \cup Working
  BY <1>1 DEF Parse, ParseAction, ParseUsb, ParseAccess, ParsePages, Types, Working
<1>4. \/ UNCHANGED <<start_pageno, end_pageno>>
      \/ start_pageno' \in Nat /\ end_pageno' \in Nat /\ start_pageno' < end_pageno' /\ end_pageno' <= NPages
  <2>1. CASE \E a, b \in PageNos : a < b /\ ParsePages(a, b)
    <3>1. PICK a, b \in PageNos : a < b /\ ParsePages(a, b)
      BY <2>1
    <3>2. a \in Nat /\ b \in Nat /\ b <= NPages
      BY DEF InChip, ToolAssumption
    <3> QED BY <3>1, <3>2 DEF ParsePages
  <2>2. CASE ~ \E a, b \in PageNos : a < b /\ ParsePages(a, b)
    BY <2>2 DEF Parse, ParseAction, ParseUsb, ParseAccess
  <2> QED BY <2>1, <2>2
<1>5. Types'
  BY <1>1, <1>2, <1>3 DEF Types
<1>6. RangeOK'
  BY <1>1, <1>2, <1>4 DEF RangeOK, Working
<1> QED BY <1>2, <1>5, <1>6 DEF Sound

\* The next run.
LEMMA RerunSound ==
  ASSUME Sound, Rerun
  PROVE  Sound' /\ UNCHANGED cells
<1>1. Types /\ RangeOK
  BY DEF Sound
<1>2. /\ pc' = "options" /\ action' = "none" /\ access' = "both" /\ start_pageno' = -1 /\ end_pageno' = -1
      /\ x' = 0 /\ at' = 0 /\ verifyErrors' = 0 /\ calls' = <<>> /\ pageBuf' = <<>>
      /\ UNCHANGED <<kind, file, row, latch, fail, cells>>
  BY DEF Rerun, NewLine, chip
<1>3. Types'
  BY <1>1, <1>2 DEF Types
<1>4. RangeOK'
  BY <1>2 DEF RangeOK, Working
<1> QED BY <1>2, <1>3, <1>4 DEF Sound

\* A page of the file is taken to be written.
LEMMA WritePageSound ==
  ASSUME Sound, WritePage
  PROVE  Sound'
<1>1. /\ Types /\ RangeOK /\ Writing /\ pc = "write" /\ x < end_pageno /\ calls = <<>> /\ pageBuf = <<>>
      /\ ~(Len(file) - at < Size)
      /\ pageBuf' = Chunk /\ at' = at + Size /\ calls' = If(Erasing, eraseBlock) \o writePage(Chunk)
      /\ UNCHANGED <<kind, pc, line, x, file, verifyErrors, options, runs, chip>>
  BY DEF Sound, WritePage, Turn, FirstCalls, Short, Erasing
<1>2. PICK erased \in BOOLEAN, done \in SUBSET Units :
        Stage(erased, done) /\ \A q \in x .. NPages - 1 : Ahead(q, erased, done)
  BY <1>1 DEF Writing
<1>3. busy = "none" /\ erased = FALSE /\ done = {} /\ (access = "both" => at = 3 * (x - start_pageno))
  BY <1>1, <1>2, WritingStops
<1>4. /\ kind \in {"small", "large"} /\ access \in {"main", "oob", "both"} /\ x \in Nat /\ at \in Nat
      /\ Size \in 1 .. 3 /\ Len(file) \in Nat /\ start_pageno \in Nat
  BY <1>1, SizeIs DEF Types, RangeOK, Working
<1>5. /\ Chunk \in Seq(Things) /\ Len(Chunk) = Size /\ DOMAIN Chunk = 1 .. Size
      /\ \A i \in 1 .. Size : Chunk[i] = file[at + i]
  <2>1. at + Size <= Len(file)
    BY <1>1, <1>4
  <2> QED BY <1>1, <2>1, ChunkIs
<1>6. UNCHANGED <<kind, pc, access, start_pageno, end_pageno, x, file, busy, cells>>
  BY <1>1 DEF line, chip
<1>7. If(Erasing, eraseBlock)' = If(Erasing, eraseBlock) /\ EraseCalls' = EraseCalls /\ Erasing' = Erasing
  BY <1>6 DEF If, Erasing, EraseCalls, eraseBlock, LP_eraseBlock, SP_eraseBlock, Addr
<1>8. writePage(pageBuf)' = writePage(Chunk)
  BY <1>1, <1>6 DEF writePage, LP_writePage, SP_writePage, LargeRow, Addr, Put
<1>9. calls' = Plan'
  BY <1>1, <1>7, <1>8 DEF Plan
<1>10. access = "both" => Size = 3
  BY <1>4, SizeIs
<1>11. calls' \in Seq(Calls)
  <2>1. If(Erasing, eraseBlock) \in Seq(Calls)
    BY <1>4, EraseIs
  <2>2. writePage(Chunk) \in Seq(Calls)
    <3>1. access = "both" => Len(Chunk) = 3
      BY <1>5, <1>10
    <3> QED BY <1>4, <1>5, <3>1, WriteOf
  <2> QED BY ONLY <1>1, <2>1, <2>2, Joined
<1>12. calls' = After(Plan, 0)'
  BY <1>9, <1>11, AfterEnds DEF After
<1>13. pageBuf' # <<>> /\ pageBuf' \in Seq(Things)
  BY <1>1, <1>4, <1>5
<1>14. Buffered'
  <2> SUFFICES ASSUME access' = "both"
               PROVE  /\ Len(pageBuf') = 3 /\ at' = 3 * (x' - start_pageno') + 3
                      /\ \A w \in Units : pageBuf'[w] = file'[3 * (x' - start_pageno') + w]
    BY DEF Buffered
  <2>1. at = 3 * (x - start_pageno) /\ Size = 3
    BY <1>3, <1>6, <1>10
  <2> QED BY <1>1, <1>5, <1>6, <2>1 DEF Units
<1>15. \A q \in start_pageno' .. x' - 1 : Kept(q)'
  <2>1. \A a, b : SameBlock(a, b)' = SameBlock(a, b) /\ Erases(a)' = Erases(a)
    BY <1>6 DEF SameBlock, Erases
  <2> SUFFICES ASSUME NEW q \in start_pageno .. x - 1
               PROVE  Kept(q)'
    BY <1>6
  <2>2. Kept(q)
    BY <1>1 DEF Writing
  <2> QED BY <1>6, <2>1, <2>2 DEF Kept
<1>16. ASSUME Erasing
      PROVE  Writing'
  <2>1. EraseCalls \in {5, 6}
    BY <1>4, <1>16 DEF EraseCalls
  <2>2. 0 \in 0 .. EraseCalls' - 1
    BY <1>7, <2>1
  <2>3. ~erased
    BY <1>3
  <2>4. EraseStage(0, erased)'
    BY <1>3, <1>6, <2>3 DEF EraseStage
  <2>5. Stage(erased, done)'
    BY <1>3, <1>12, <1>13, <1>14, <2>2, <2>4 DEF Stage
  <2>6. \A q \in x' .. NPages - 1 : Ahead(q, erased, done)'
    BY <1>2, <1>3, <1>6 DEF Ahead, Erases, SameBlock
  <2>7. access' # "both" => x' = start_pageno'
    BY <1>1, <1>6 DEF Writing
  <2> QED BY <1>15, <2>5, <2>6, <2>7 DEF Writing
<1>17. ASSUME ~Erasing
      PROVE  Writing'
  <2> DEFINE e == TRUE
  <2>1. e /\ e \in BOOLEAN
    OBVIOUS
  <2>2. EraseCalls' = 0
    BY <1>7, <1>17 DEF EraseCalls
  <2>3. \A q \in x' .. NPages - 1 : Ahead(q, e, done)'
    <3> SUFFICES ASSUME NEW q \in x .. NPages - 1
                 PROVE  Ahead(q, e, done)'
      BY <1>6
    <3>1. \A a, b : SameBlock(a, b)' = SameBlock(a, b) /\ Erases(a)' = Erases(a)
      BY <1>6 DEF SameBlock, Erases
    <3>2. ASSUME NEW a \in start_pageno' .. x', Erases(a)', SameBlock(a, q)'
          PROVE  cells[q] = [w \in Units |-> IF q = x /\ w \in done THEN pageBuf[w] ELSE Blank]
      <4>1. a \in start_pageno .. x /\ Erases(a) /\ SameBlock(a, q)
        BY <1>6, <3>1, <3>2
      <4>2. a # x
        BY <1>17, <4>1 DEF Erases, Erasing
      <4> QED BY <1>2, <4>1, <4>2 DEF Ahead
    <3>3. [w \in Units |-> IF q = x /\ w \in done THEN pageBuf[w] ELSE Blank] = Clear
      BY <1>3 DEF Clear
    <3>4. [w \in Units |-> IF q = x' /\ w \in done THEN pageBuf'[w] ELSE Blank] = Clear
      BY <1>3 DEF Clear
    <3>5. ASSUME NEW a \in start_pageno' .. x', Erases(a)', SameBlock(a, q)'
          PROVE  cells'[q] = [w \in Units |-> IF q = x' /\ w \in done THEN pageBuf'[w] ELSE Blank]
      BY <1>6, <3>2, <3>3, <3>4, <3>5
    <3> QED BY <3>5 DEF Ahead
  <2> HIDE DEF e
  <2>4. Stage(e, done)'
    <3>1. CASE access # "both"
      <4>1. calls' = After(Plan, EraseCalls)'
        BY <1>12, <2>2
      <4> QED BY <1>3, <1>6, <1>13, <1>14, <2>1, <3>1, <4>1 DEF Stage
    <3>2. CASE access = "both" /\ kind = "large"
      <4>1. 0 \in 0 .. 6 /\ calls' = After(Plan, EraseCalls + 0)'
        BY <1>12, <2>2
      <4>2. LargeStage(0, done)'
        BY <1>3, <1>6 DEF LargeStage
      <4> QED BY <1>6, <1>13, <1>14, <2>1, <3>2, <4>1, <4>2 DEF Stage
    <3>3. CASE access = "both" /\ kind = "small"
      <4>1. 0 \in 0 .. 3 /\ 0 \in 0 .. 5 /\ calls' = After(Plan, EraseCalls + 6 * 0 + 0)'
        BY <1>12, <2>2
      <4>2. SmallStage(0, 0, done)'
        BY <1>3, <1>6 DEF SmallStage
      <4> QED BY <1>6, <1>13, <1>14, <2>1, <3>3, <4>1, <4>2 DEF Stage
    <3> QED BY <1>4, <3>1, <3>2, <3>3
  <2>5. access' # "both" => x' = start_pageno'
    BY <1>1, <1>6 DEF Writing
  <2> QED BY <1>15, <2>1, <2>3, <2>4, <2>5 DEF Writing
<1>18. Types'
  <2>1. at' \in Nat
    BY <1>1, <1>4
  <2> QED BY <1>1, <1>13, <2>1 DEF Types, line, chip
<1>19. RangeOK'
  BY <1>1, <1>6 DEF RangeOK, Working
<1> QED BY <1>1, <1>16, <1>17, <1>18, <1>19 DEF Sound

\* A page is written, and main goes on to the next.
LEMMA PageWrittenSound ==
  ASSUME Sound, PageWritten
  PROVE  Sound'
<1>1. /\ Types /\ RangeOK /\ Writing /\ pc = "write" /\ x < end_pageno /\ calls = <<>> /\ pageBuf # <<>>
      /\ x' = x + 1 /\ pageBuf' = <<>>
      /\ UNCHANGED <<kind, pc, line, file, at, verifyErrors, options, runs, calls, chip>>
  BY DEF Sound, PageWritten, Turn, FirstCalls
<1>2. PICK erased \in BOOLEAN, done \in SUBSET Units :
        Stage(erased, done) /\ \A q \in x .. NPages - 1 : Ahead(q, erased, done)
  BY <1>1 DEF Writing
<1>3. busy = "none" /\ Buffered /\ access = "both" /\ erased /\ done = Units
  BY <1>1, <1>2, WritingStops
<1>4. /\ x \in Nat /\ start_pageno \in Nat /\ end_pageno \in Nat /\ start_pageno <= x /\ end_pageno <= NPages
      /\ NPages \in Nat
  BY <1>1 DEF Types, RangeOK, Working
<1>5. UNCHANGED <<kind, pc, access, start_pageno, end_pageno, file, at, busy, calls, cells>>
  BY <1>1 DEF line, chip
<1>6. \A a, b : SameBlock(a, b)' = SameBlock(a, b) /\ Erases(a)' = Erases(a)
  BY <1>5 DEF SameBlock, Erases
<1>7. ASSUME NEW q \in start_pageno .. x - 1
      PROVE  Kept(q)'
  <2>1. Kept(q)
    BY <1>1 DEF Writing
  <2>2. q + 1 .. x \subseteq q + 1 .. x'
    BY <1>1, <1>4
  <2>3. (\A a \in q + 1 .. x' : ~(Erases(a)' /\ SameBlock(a, q)')) => \A a \in q + 1 .. x : ~(Erases(a) /\ SameBlock(a, q))
    BY <1>6, <2>2
  <2> QED BY <1>5, <1>6, <2>1, <2>3 DEF Kept
<1>8. ASSUME NEW q, q = x
      PROVE  Kept(q)'
  <2> SUFFICES ASSUME NEW a \in 0 .. q, Erases(a)', SameBlock(a, q)'
               PROVE  cells'[q] = [u \in Units |-> file'[3 * (q - start_pageno') + u]]
    BY DEF Kept
  <2>1. a \in Nat /\ a <= x
    BY <1>4, <1>8
  <2>2. Erases(a) /\ SameBlock(a, q)
    BY <1>6
  <2>3. a \in start_pageno .. x /\ q \in x .. NPages - 1
    BY <1>1, <1>4, <1>8, <2>1, <2>2 DEF Erases
  <2>4. cells[q] = [w \in Units |-> IF q = x /\ w \in done THEN pageBuf[w] ELSE Blank]
    BY <1>2, <1>3, <2>2, <2>3 DEF Ahead
  <2>5. \A w \in Units : pageBuf[w] = file[3 * (x - start_pageno) + w]
    BY <1>3 DEF Buffered
  <2>6. cells[q] = [u \in Units |-> file[3 * (q - start_pageno) + u]]
    BY <1>3, <1>8, <2>4, <2>5
  <2> QED BY <1>5, <2>6
<1>9. \A q \in start_pageno' .. x' - 1 : Kept(q)'
  <2>1. start_pageno' .. x' - 1 = (start_pageno .. x - 1) \cup {x}
    BY <1>1, <1>4, <1>5
  <2> QED BY <1>7, <1>8, <2>1
<1> DEFINE e == FALSE
<1>10. ~e /\ e \in BOOLEAN
  OBVIOUS
<1> HIDE DEF e
<1>11. \A q \in x' .. NPages - 1 : Ahead(q, e, {})'
  <2> SUFFICES ASSUME NEW q \in x + 1 .. NPages - 1, NEW a \in start_pageno' .. x',
                      Erases(a)', SameBlock(a, q)', a = x' => e
               PROVE  cells'[q] = [w \in Units |-> IF q = x' /\ w \in {} THEN pageBuf'[w] ELSE Blank]
    BY <1>1 DEF Ahead
  <2>1. a \in start_pageno .. x /\ Erases(a) /\ SameBlock(a, q) /\ q \in x .. NPages - 1 /\ q # x
    BY <1>1, <1>4, <1>5, <1>6, <1>10
  <2>2. cells[q] = [w \in Units |-> IF q = x /\ w \in done THEN pageBuf[w] ELSE Blank]
    BY <1>2, <1>3, <2>1 DEF Ahead
  <2>3. [w \in Units |-> IF q = x /\ w \in done THEN pageBuf[w] ELSE Blank] = Clear
    BY <2>1 DEF Clear
  <2>4. [w \in Units |-> IF q = x' /\ w \in {} THEN pageBuf'[w] ELSE Blank] = Clear
    BY DEF Clear
  <2> QED BY <1>5, <2>2, <2>3, <2>4
<1>12. Stage(e, {})'
  <2>1. Between'
    BY <1>1, <1>3, <1>5 DEF Between
  <2>2. at = 3 * (x - start_pageno) + 3
    BY <1>3 DEF Buffered
  <2>3. at' = 3 * (x' - start_pageno')
    BY <1>1, <1>4, <1>5, <2>2
  <2> QED BY <1>10, <2>1, <2>3 DEF Stage
<1>13. Writing'
  <2>1. access' = "both"
    BY <1>3, <1>5
  <2> QED BY <1>9, <1>10, <1>11, <1>12, <2>1 DEF Writing
<1>14. Types'
  <2>1. x' \in Nat /\ pageBuf' \in Seq(Things)
    BY <1>1, <1>4
  <2> QED BY <1>1, <2>1 DEF Types, line, chip
<1>15. RangeOK'
  <2>1. start_pageno <= x + 1 /\ x + 1 <= end_pageno
    BY <1>1, <1>4
  <2> QED BY <1>1, <1>5, <2>1 DEF RangeOK, Working
<1> QED BY <1>1, <1>13, <1>14, <1>15 DEF Sound

\* Main enters one of its loops.
LEMMA OpenSound ==
  ASSUME Sound, Open
  PROVE  Sound' /\ UNCHANGED cells
<1>1. /\ Types /\ RangeOK /\ pc = "options" /\ action # "none" /\ busy = "none"
      /\ pc' = (IF action = "id" THEN "done" ELSE action)
      /\ start_pageno' = (IF start_pageno = -1 THEN 0 ELSE start_pageno)
      /\ end_pageno' = (IF end_pageno = -1 THEN NPages ELSE end_pageno)
      /\ x' = start_pageno' /\ file' = (IF action = "read" THEN <<>> ELSE file)
      /\ UNCHANGED <<kind, action, access, at, verifyErrors, calls, pageBuf, row, latch, busy, fail, cells>>
  BY DEF Sound, Open
<1>2. calls = <<>> /\ pageBuf = <<>> /\ at = 0 /\ verifyErrors = 0
  BY <1>1 DEF RangeOK, Working
<1>3. /\ start_pageno' \in Nat /\ end_pageno' \in 0 .. NPages /\ start_pageno' <= end_pageno'
      /\ x' \in Nat /\ x' = start_pageno' /\ start_pageno' <= x' /\ x' <= end_pageno'
  <2>1. \/ start_pageno = -1 /\ end_pageno = -1
        \/ start_pageno \in Nat /\ end_pageno \in Nat /\ start_pageno < end_pageno /\ end_pageno <= NPages
    BY <1>1 DEF RangeOK
  <2>2. NPages \in Nat
    OBVIOUS
  <2>3. CASE start_pageno = -1 /\ end_pageno = -1
    <3>1. start_pageno' = 0 /\ end_pageno' = NPages /\ x' = 0
      BY <1>1, <2>3
    <3> QED BY <2>2, <3>1
  <2>4. CASE start_pageno \in Nat /\ end_pageno \in Nat /\ start_pageno < end_pageno /\ end_pageno <= NPages
    <3>1. start_pageno' = start_pageno /\ end_pageno' = end_pageno /\ x' = start_pageno
      BY <1>1, <2>4
    <3> QED BY <2>2, <2>4, <3>1
  <2> QED BY <2>1, <2>3, <2>4
<1>4. pc' \in {"done"} \cup Working
  BY <1>1 DEF Types, Working
<1>5. Types'
  <2>1. file' \in Seq(Things)
    BY <1>1 DEF Types
  <2> QED BY <1>1, <1>3, <1>4, <2>1 DEF Types
<1>6. RangeOK'
  BY <1>1, <1>2, <1>3, <1>4 DEF RangeOK, Working
<1>7. Between'
  BY <1>1, <1>2 DEF Between
<1>8. start_pageno' .. x' - 1 = {}
  <2>1. PICK n \in Nat : x' = n /\ start_pageno' = n
    BY <1>3
  <2>2. n .. n - 1 = {}
    OBVIOUS
  <2> QED BY <2>1, <2>2
<1>9. pc' = "verify" => Compared'
  <2>1. at' = Size' * (x' - start_pageno')
    <3>1. Size' \in Nat /\ x' - start_pageno' = 0 /\ at' = 0
      <4>1. Size' = Size
        BY <1>1 DEF Size
      <4> QED BY <1>1, <1>2, <1>3, <4>1, SizeIs DEF Types
    <3> QED BY <3>1
  <2>2. SameAsFile'
    BY <1>8 DEF SameAsFile
  <2>3. file' \in Seq(Things) /\ verifyErrors' = 0 /\ at' = 0
    BY <1>1, <1>2, <1>5 DEF Types
  <2> QED BY <2>1, <2>2, <2>3 DEF Compared
<1>10. Writing'
  <2> DEFINE e == FALSE
  <2>1. ~e /\ e \in BOOLEAN
    OBVIOUS
  <2> HIDE DEF e
  <2>2. Stage(e, {})'
    BY <1>1, <1>2, <1>3, <1>7, <2>1 DEF Stage
  <2>3. \A q \in x' .. NPages - 1 : Ahead(q, e, {})'
    <3>1. \A a \in start_pageno' .. x' : a = x'
      BY <1>3
    <3> QED BY <2>1, <3>1 DEF Ahead
  <2> QED BY <1>3, <1>8, <2>1, <2>2, <2>3 DEF Writing
<1> QED BY <1>1, <1>5, <1>6, <1>7, <1>9, <1>10 DEF Sound, Reading

\* While main works, the chip's work changes no page but those it should.
LEMMA ChipPages ==
  ASSUME Sound, pc \in Working, ChipWorks, NEW q \in Pages, cells'[q] # cells[q]
  PROVE  pc = "write" /\ (IF busy = "erase" THEN SameBlock(q, x) ELSE q = x)
<1>1. Types /\ busy # "none" /\ kind \in {"small", "large"} /\ cells \in [Pages -> [Units -> Things]]
  BY DEF Sound, Types, ChipWorks
<1>2. busy \in {"program", "erase"}
  BY <1>1 DEF ChipWorks
<1>3. CASE pc \in {"read", "verify"}
  <2>1. Reading
    BY <1>3 DEF Sound
  <2>2. kind = "small" => busy = "read"
    BY <1>1, <2>1 DEF Reading, Between, SmallFetch, Latched
  <2>3. kind = "large" => busy = "read"
    BY <1>1, <2>1 DEF Reading, Between, LargeFetch, Latched
  <2> QED BY <1>1, <1>2, <2>2, <2>3
<1>4. CASE pc = "write"
  <2>1. PICK erased \in BOOLEAN, done \in SUBSET Units : Stage(erased, done)
    BY <1>4 DEF Sound, Writing
  <2>2. row = x
    <3>1. ASSUME NEW k \in 0 .. EraseCalls - 1, EraseStage(k, erased)
          PROVE  row = x
      <4>1. k \in {0, 1, 2, 3, 4, 5}
        BY DEF EraseCalls
      <4> QED BY <1>1, <3>1, <4>1 DEF EraseStage
    <3>2. ASSUME NEW j \in 0 .. 6, LargeStage(j, done)
          PROVE  row = x
      BY <1>1, <3>2 DEF LargeStage
    <3>3. ASSUME NEW u \in 0 .. 3, NEW s \in 0 .. 5, SmallStage(u, s, done)
          PROVE  row = x
      BY <1>1, <3>3 DEF SmallStage
    <3> QED BY <1>1, <2>1, <3>1, <3>2, <3>3 DEF Stage, Between
  <2>3. CASE busy = "erase"
    <3>1. SameBlock(row, row)
      BY DEF SameBlock
    <3>2. SameBlock(q, row)
      <4>1. CASE cells' = [r \in Pages |-> IF SameBlock(r, row) THEN Clear ELSE cells[r]]
        BY <4>1
      <4>2. CASE cells' = [r \in Pages |-> [u \in Units |->
                   IF r = row /\ (busy = "erase" \/ latch[u] # Blank) THEN Junk ELSE cells[r][u]]]
        <5>1. ASSUME q # row
              PROVE  cells'[q] = cells[q]
          <6>1. cells'[q] = [u \in Units |-> cells[q][u]]
            BY <4>2, <5>1
          <6> QED BY <1>1, <6>1
        <5> QED BY <3>1, <5>1
      <4> QED BY <2>3, <4>1, <4>2 DEF ChipWorks
    <3> QED BY <1>4, <2>2, <2>3, <3>2
  <2>4. CASE busy = "program"
    <3>1. q = row
      <4>1. CASE cells' = [cells EXCEPT ![row] = [u \in Units |-> Merged(@[u], latch[u])]]
        BY <1>1, <4>1
      <4>2. CASE cells' = [r \in Pages |-> [u \in Units |->
                   IF r = row /\ (busy = "erase" \/ latch[u] # Blank) THEN Junk ELSE cells[r][u]]]
        <5>1. ASSUME q # row
              PROVE  cells'[q] = cells[q]
          <6>1. cells'[q] = [u \in Units |-> cells[q][u]]
            BY <4>2, <5>1
          <6> QED BY <1>1, <6>1
        <5> QED BY <5>1
      <4> QED BY <2>4, <4>1, <4>2 DEF ChipWorks
    <3> QED BY <1>4, <2>2, <2>4, <3>1
  <2> QED BY <1>2, <2>3, <2>4
<1> QED BY <1>3, <1>4 DEF Working

\* Nothing happens.
LEMMA StutterSound ==
  ASSUME Sound, UNCHANGED toolVars
  PROVE  Sound'
<1>1. UNCHANGED <<kind, main, calls, pageBuf, chip>>
  BY DEF toolVars
<1>2. UNCHANGED <<pc, action, access, start_pageno, end_pageno, x, file, at, verifyErrors, cmd, area, row, latch, busy,
                  fail, cells, kind, calls, pageBuf>>
  BY <1>1 DEF main, line, chip
<1>3. Types' /\ RangeOK'
  BY <1>2 DEF Sound, Types, RangeOK
<1>4. Reading' <=> Reading
  <2>1. /\ readPage' = readPage /\ Size' = Size /\ Fetches' = Fetches
        /\ (\A i \in Nat : UnitAt(i)' = UnitAt(i)) /\ \A b \in Nat : FetchAt(b)' = FetchAt(b)
    BY <1>1, SamePlan
  <2>2. \A n : Got(n)' <=> Got(n)
    BY <1>2 DEF Got, UnitAt
  <2>3. \A b : GotBy(b)' = GotBy(b)
    BY <2>1 DEF GotBy
  <2>4. (Latched' <=> Latched) /\ (Between' <=> Between) /\ \A k : After(readPage, k)' = After(readPage, k)
    BY <1>2, <2>1 DEF Latched, Between, After
  <2>5. \A l \in 0 .. Size, s \in 0 .. 2 : SmallFetch(l, s)' <=> SmallFetch(l, s)
    BY <1>2, <2>2, <2>4 DEF SmallFetch, UnitAt
  <2>6. \A b \in 0 .. Fetches, s \in 0 .. 4 : LargeFetch(b, s)' <=> LargeFetch(b, s)
    BY <1>2, <2>2, <2>3, <2>4 DEF LargeFetch, FetchAt
  <2> QED BY <1>2, <2>1, <2>4, <2>5, <2>6 DEF Reading
<1>5. Writing' <=> Writing
  <2>1. Plan' = Plan /\ EraseCalls' = EraseCalls /\ (Buffered' <=> Buffered)
    BY <1>1, SameWrite
  <2>2. (Between' <=> Between) /\ (\A k : After(Plan, k)' = After(Plan, k)) /\ \A S : Loaded(S)' <=> Loaded(S)
    BY <1>2, <2>1 DEF Between, After, Loaded
  <2>3. \A k, e : EraseStage(k, e)' <=> EraseStage(k, e)
    BY <1>2 DEF EraseStage
  <2>4. \A j, d : LargeStage(j, d)' <=> LargeStage(j, d)
    BY <1>2, <2>2 DEF LargeStage
  <2>5. \A u, s, d : SmallStage(u, s, d)' <=> SmallStage(u, s, d)
    BY <1>2, <2>2 DEF SmallStage
  <2>6. \A e, d : Stage(e, d)' <=> Stage(e, d)
    BY <1>2, <2>1, <2>2, <2>3, <2>4, <2>5 DEF Stage
  <2>7. \A a, b : SameBlock(a, b)' = SameBlock(a, b) /\ Erases(a)' = Erases(a)
    BY <1>2 DEF SameBlock, Erases
  <2>8. (\A q : Kept(q)' <=> Kept(q)) /\ \A q, e, d : Ahead(q, e, d)' <=> Ahead(q, e, d)
    BY <1>2, <2>7 DEF Kept, Ahead
  <2> QED BY <1>2, <2>6, <2>8 DEF Writing
<1>6. Compared => Compared'
  BY <1>1, ComparedOn DEF chip
<1> QED BY <1>2, <1>3, <1>4, <1>5, <1>6 DEF Sound

-----------------------------------------------------------------------------
(***************************************************************************)
(* The inductive invariant.                                                *)
(***************************************************************************)
LEMMA InitSound ==
  ASSUME Init
  PROVE  IInv /\ ImageOK
<1>1. Sound
  <2>1. Types
    <3>1. file \in Seq(Things)
      <4>1. file \in Seq(Content) /\ Content \subseteq Things
        BY DEF Init, ToolInit, ToolAssumption, Things
      <4> QED BY <4>1
    <3>2. Clear \in [Units -> Things] /\ [u \in Units |-> Junk] \in [Units -> Things]
      BY DEF Clear, Things, Content
    <3>3. cells \in [Pages -> [Units -> Things]] /\ latch \in [Units -> Things] /\ 0 \in Pages
      BY <3>2 DEF Init, ToolInit, Pages, ToolAssumption
    <3> QED BY <3>1, <3>3 DEF Init, ToolInit, Types
  <2>2. RangeOK
    BY DEF Init, ToolInit, RangeOK, Working
  <2> QED BY <2>1, <2>2 DEF Init, ToolInit, Sound
<1>2. ImageOK
  <2>1. infile \in Seq([kind : Kinds, full : BOOLEAN])
    BY ImageAssumption DEF ImageAssumption, Init, ImageInit, Kinds
  <2>2. p \in Params /\ image = <<>> /\ building # "loop"
    BY DEF Init, ImageInit
  <2> QED BY <2>1, <2>2 DEF ImageOK
<1> QED BY <1>1, <1>2 DEF IInv, Init, ToolInit

LEMMA MarkedInit == ASSUME Init PROVE MarkedOK
<1>1. image = <<>> /\ page = 0 /\ p \in Params /\ p_spare_jffs2_cleanmarker = p.cleanmarker
  BY DEF Init, ImageInit
<1>2. p.pages_per_block \in Nat /\ p.cleanmarker \in BOOLEAN
  BY <1>1, ImageAssumption DEF ImageAssumption
<1>3. p.pages_per_block > 1 => 0 % p.pages_per_block = 0
  BY <1>2
<1>4. Len(image) = 0 /\ DOMAIN image = {}
  BY <1>1
<1>5. p_spare_jffs2_cleanmarker <=> p.cleanmarker
  BY <1>1, <1>2
<1> QED BY <1>1, <1>3, <1>4, <1>5 DEF MarkedOK

\* A chip that has failed or has been late stays so.
LEMMA UntroubledBefore ==
  ASSUME ToolNext, Untroubled'
  PROVE  Untroubled
<1>1. CASE UNCHANGED trouble
  BY <1>1 DEF Untroubled
<1>2. CASE ChipWorks
  BY <1>2 DEF ChipWorks, Untroubled
<1>3. CASE ChipLate
  BY <1>3 DEF ChipLate, Untroubled
<1>4. CASE Interrupt
  BY <1>4 DEF Interrupt, Untroubled
<1>5. CASE Call
  <2>1. UNCHANGED trouble
    <3>1. CASE Send
      BY <3>1 DEF Send, Command, Address, DataIn, chip
    <3>2. CASE Wait \/ Receive \/ CheckStatus \/ ExitCall
      BY <3>2 DEF Wait, Receive, CheckStatus, ExitCall, chip
    <3> QED BY <1>5, <3>1, <3>2 DEF Call
  <2> QED BY <1>1, <2>1
<1>6. CASE Parse
  BY <1>1, <1>6 DEF Parse, ParseAction, ParseUsb, ParseAccess, ParsePages, Parses, chip
<1>7. CASE Step
  BY <1>1, <1>7 DEF Step, GiveUp, Open, ReadPage, KeepPage, OutOfFile, ComparePage, WritePage, PageWritten, AllDone, chip
<1>8. CASE Rerun
  BY <1>1, <1>8 DEF Rerun, chip
<1> QED BY <1>2, <1>3, <1>4, <1>5, <1>6, <1>7, <1>8 DEF ToolNext

\* Every step of the program or the chip.
LEMMA ToolSound ==
  ASSUME Sound, ToolNext, Untroubled', InChip, Addressable
  PROVE  Sound' /\ (~ChipWorks => UNCHANGED cells)
<1>1. Untroubled
  BY UntroubledBefore
<1>2. CASE Call
  BY <1>1, <1>2, CallSound
<1>3. CASE ChipWorks
  BY <1>1, <1>3, ChipSound
<1>4. CASE ChipLate
  BY <1>4 DEF ChipLate, Untroubled
<1>5. CASE Parse
  BY <1>5, ParseSound
<1>6. CASE Rerun
  BY <1>6, RerunSound
<1>7. CASE Interrupt
  BY <1>7, EndSound
<1>8. CASE Step
  <2>1. CASE GiveUp \/ OutOfFile \/ AllDone
    BY <2>1, EndSound
  <2>2. CASE Open
    BY <2>2, OpenSound
  <2>3. CASE ReadPage \/ KeepPage \/ ComparePage \/ WritePage \/ PageWritten
    <3>1. UNCHANGED cells
      BY <2>3 DEF ReadPage, KeepPage, ComparePage, WritePage, PageWritten, chip
    <3>2. Sound'
      BY <2>3, ReadPageSound, KeepPageSound, ComparePageSound, WritePageSound, PageWrittenSound
    <3> QED BY <3>1, <3>2
  <2> QED BY <1>8, <2>1, <2>2, <2>3 DEF Step
<1> QED BY <1>2, <1>3, <1>4, <1>5, <1>6, <1>7, <1>8 DEF ToolNext

\* While main works on an untroubled chip, no step but the chip's changes a page.
LEMMA ToolPages ==
  ASSUME Sound, ToolNext, Untroubled, pc \in Working, InChip, Addressable, ~ChipWorks
  PROVE  UNCHANGED cells
<1>1. CASE ChipLate
  BY <1>1 DEF ChipLate
<1>2. CASE Call
  BY <1>2, CallSound
<1>3. CASE Parse \/ Rerun
  BY <1>3, ParseSound, RerunSound
<1>4. CASE Interrupt
  BY <1>4, EndSound
<1>5. CASE Step
  BY <1>5 DEF Step, GiveUp, Open, ReadPage, KeepPage, OutOfFile, ComparePage, WritePage, PageWritten, AllDone, chip
<1> QED BY <1>1, <1>2, <1>3, <1>4, <1>5 DEF ToolNext

\* The image is as it should be after every step.
LEMMA ImageStep ==
  ASSUME ImageOK, [Next]_vars
  PROVE  ImageOK'
<1>1. CASE ImageNext
  BY <1>1, BuildSound
<1>2. CASE UNCHANGED imageVars
  BY <1>2 DEF imageVars, ImageOK, Offsets, OOB_SIZE, partial_pages_per_page, GoodSpare, Matching, v
<1> QED BY <1>1, <1>2 DEF Next, Build, Built, UseTool, Finished, ImageNext, vars

LEMMA MarkedStep ==
  ASSUME ImageOK, MarkedOK, [Next]_vars
  PROVE  MarkedOK'
<1>1. CASE WriteOut
  BY <1>1, MarkedWriteOut
<1>2. CASE UNCHANGED <<p, infile, p_spare_jffs2_cleanmarker, page, image>>
  <2>1. Offsets' = Offsets /\ OOB_SIZE' = OOB_SIZE /\ Matching' = Matching
    BY <1>2 DEF Offsets, OOB_SIZE, partial_pages_per_page, Matching
  <2>2. Free' = Free
    BY <2>1 DEF Free, Reserved
  <2>3. FirstFree' = FirstFree /\ (\A o : Markers(o)' = Markers(o)) /\ \A i : ShouldMark(i)' <=> ShouldMark(i)
    BY <1>2, <2>1, <2>2 DEF FirstFree, Markers, ShouldMark
  <2> QED BY <1>2, <2>1, <2>3 DEF MarkedOK
<1> QED BY <1>1, <1>2 DEF Next, Build, Built, UseTool, Finished, CheckOptions, EndOfFile, vars, imageVars

\* A step of createnfimg or of nothing.
LEMMA BuildStep ==
  ASSUME IInv, ImageOK, [Next]_vars, ~UseTool
  PROVE  IInv' /\ UNCHANGED cells
<1>1. CASE UNCHANGED toolVars
  <2>1. UNCHANGED <<pc, busy, trouble, cells>>
    BY <1>1 DEF toolVars, main, chip
  <2>2. building' # "done" => building # "done"
    BY DEF Next, Build, Built, Finished, CheckOptions, WriteOut, EndOfFile, vars, imageVars
  <2>3. Untroubled' => Sound'
    BY <1>1, <2>1, StutterSound DEF IInv, Untroubled
  <2> QED BY <2>1, <2>2, <2>3 DEF IInv
<1>2. CASE Built
  <2>1. building = "loop" /\ building' = "done" /\ (file' = AsFile \/ file' = file)
        /\ UNCHANGED <<kind, pc, line, x, at, verifyErrors, options, runs, calls, pageBuf, chip>>
    BY <1>2 DEF Built, EndOfFile
  <2>2. pc = "options" /\ pc' = "options" /\ UNCHANGED cells
    BY <2>1 DEF IInv, chip
  <2>3. ASSUME Untroubled'
        PROVE  Sound'
    <3>1. Types /\ RangeOK
      BY <2>1, <2>3 DEF IInv, Sound, Untroubled, chip
    <3>2. file' \in Seq(Things)
      BY <2>1, <3>1, AsFileType DEF Types
    <3>3. Types'
      BY <2>1, <3>1, <3>2 DEF Types, line, chip
    <3>4. RangeOK'
      BY <2>1, <2>2, <3>1 DEF RangeOK, line, Working
    <3> QED BY <2>2, <3>3, <3>4 DEF Sound
  <2> QED BY <2>1, <2>2, <2>3 DEF IInv
<1> QED BY <1>1, <1>2 DEF Next, Build, Finished, vars

\* The invariant is inductive.
LEMMA StepSound ==
  ASSUME IInv, ImageOK, [Next]_vars, InChip, Addressable
  PROVE  IInv' /\ ImageOK'
<1>1. ImageOK'
  BY ImageStep
<1>2. CASE UseTool
  <2>1. building = "done" /\ building' = "done" /\ ToolNext
    BY <1>2 DEF UseTool, imageVars
  <2>2. ASSUME Untroubled'
        PROVE  Sound'
    BY <2>1, <2>2, UntroubledBefore, ToolSound DEF IInv
  <2> QED BY <1>1, <2>1, <2>2 DEF IInv
<1>3. CASE ~UseTool
  BY <1>1, <1>3, BuildStep
<1> QED BY <1>2, <1>3

-----------------------------------------------------------------------------
\* The file offset never passes the end of the file.
Within == Untroubled => at <= Len(file)

LEMMA WithinStep ==
  ASSUME IInv, ImageOK, Within, [Next]_vars, IInv', InChip, Addressable
  PROVE  Within'
<1> SUFFICES ASSUME Untroubled'
             PROVE  at' <= Len(file')
  BY DEF Within
<1>1. Untroubled
  <2>1. CASE UseTool
    BY <2>1, UntroubledBefore DEF UseTool
  <2>2. CASE ~UseTool
    <3>1. UNCHANGED trouble
      BY <2>2 DEF Next, Build, Built, Finished, vars, toolVars, chip
    <3> QED BY <3>1 DEF Untroubled
  <2> QED BY <2>1, <2>2
<1>2. /\ Sound /\ Types /\ RangeOK /\ Types' /\ at <= Len(file)
  BY <1>1 DEF IInv, Sound, Within
<1>3. /\ at \in Nat /\ file \in Seq(Things) /\ file' \in Seq(Things) /\ Len(file) \in Nat /\ Len(file') \in Nat
      /\ pageBuf \in Seq(Things) /\ Len(pageBuf) \in Nat
      /\ pc = "options" => at = 0
  BY <1>2 DEF Types, RangeOK
<1>4. CASE UNCHANGED <<at, file>>
  BY <1>2, <1>4
<1>5. CASE at' = 0
  BY <1>3, <1>5
<1>6. CASE pc = "options" /\ at' = at
  BY <1>3, <1>6
<1>7. CASE at' = at /\ file' = file \o pageBuf
  <2>1. Len(file') = Len(file) + Len(pageBuf)
    BY <1>3, <1>7
  <2> QED BY <1>2, <1>3, <1>7, <2>1
<1>8. CASE file' = file /\ at' = at + Size /\ ~(Len(file) - at < Size)
  <2>1. Size \in Nat
    BY <1>2, SizeIs DEF Types
  <2> QED BY <1>3, <1>8, <2>1
<1>9. CASE UseTool
  <2>1. CASE Call
    <3>1. UNCHANGED <<at, file>>
      BY <2>1 DEF Call, Send, Wait, Receive, CheckStatus, ExitCall, main
    <3> QED BY <1>4, <3>1
  <2>2. CASE ChipWorks \/ ChipLate \/ Interrupt
    BY <1>4, <2>2 DEF ChipWorks, ChipLate, Interrupt, main
  <2>3. CASE Parse
    BY <1>4, <2>3 DEF Parse, ParseAction, ParseUsb, ParseAccess, ParsePages, Parses
  <2>4. CASE Rerun
    BY <1>5, <2>4 DEF Rerun, NewLine
  <2>5. CASE Step
    <3>1. CASE Open
      BY <1>6, <3>1 DEF Open
    <3>2. CASE KeepPage
      BY <1>4, <1>7, <3>2 DEF KeepPage
    <3>3. CASE ComparePage \/ WritePage
      BY <1>8, <3>3 DEF ComparePage, WritePage, Short
    <3>4. CASE GiveUp \/ ReadPage \/ OutOfFile \/ PageWritten \/ AllDone
      BY <1>4, <3>4 DEF GiveUp, ReadPage, OutOfFile, PageWritten, AllDone, main
    <3> QED BY <2>5, <3>1, <3>2, <3>3, <3>4 DEF Step
  <2> QED BY <1>9, <2>1, <2>2, <2>3, <2>4, <2>5 DEF UseTool, ToolNext
<1>10. CASE Built
  BY <1>6, <1>10 DEF Built, EndOfFile, IInv
<1>11. CASE UNCHANGED toolVars
  BY <1>4, <1>11 DEF toolVars, main
<1> QED BY <1>9, <1>10, <1>11 DEF Next, Build, Finished, vars

\* The spare area of page i of the image, as the file has it.
LEMMA SpareUnit ==
  ASSUME ImageOK, NEW i \in Nat, i < Len(image)
  PROVE  /\ i + 1 \in DOMAIN image
         /\ AsFile[3 * i + 3] = Spared(image[i + 1].oob)
<1>1. i + 1 \in DOMAIN image /\ Len(image) \in Nat
  BY DEF ImageOK
<1>2. 3 * i + 3 \in 1 .. 3 * Len(image) /\ (3 * i + 3 + 2) \div 3 = i + 1 /\ (3 * i + 3) % 3 = 0
  BY <1>1
<1> QED BY <1>1, <1>2 DEF AsFile

\* A page has a marker, or it is none of those that begin a block.
LEMMA MarkedUnit ==
  ASSUME MarkedOK, ImageOK, p.order = MIN_FIELD_ORDER, p.level < 16, Matching # {}, NEW i \in DOMAIN image
  PROVE  Spared(image[i].oob) \in {"marker", "marker+ecc"} <=> ShouldMark(i)
<1>1. image[i] \in [main : Kinds, oob : [Offsets -> {"ff", "marker", "ecc"}]]
  <2>1. image \in Seq([main : Kinds, oob : [Offsets -> {"ff", "marker", "ecc"}]]) /\ DOMAIN image = 1 .. Len(image)
    BY DEF ImageOK
  <2> QED BY <2>1, ElementOfSeq
<1>2. DOMAIN image[i].oob = Offsets
  BY <1>1
<1>3. Markers(image[i].oob) = IF ShouldMark(i) THEN FirstFree ELSE {}
  BY DEF MarkedOK
<1>4. FirstFree # {}
  <2>1. Cardinality(FirstFree) = 8
    BY MarkersFit DEF CLEANMARKER_SIZE, MarkedOK
  <2> QED BY ONLY <2>1, FS_EmptySet
<1>5. (\E k \in DOMAIN image[i].oob : image[i].oob[k] = "marker") <=> ShouldMark(i)
  BY <1>2, <1>3, <1>4 DEF Markers
<1>6. Blank \notin {"marker", "marker+ecc"}
  BY FlowAssumption DEF FlowAssumption
<1> QED BY <1>5, <1>6 DEF Spared

\* Of a block of d pages, the first page is the only multiple of d.
LEMMA FirstOfBlock ==
  ASSUME NEW d \in Nat \ {0}, NEW q \in Nat
  PROVE  /\ \E a \in 0 .. q : a % d = 0 /\ a \div d = q \div d
         /\ \A a \in Nat : a % d = 0 /\ a \div d = q \div d => a <= q
<1>1. q \div d \in Nat /\ q % d \in 0 .. d - 1 /\ q = d * (q \div d) + (q % d)
  OBVIOUS
<1>2. \A m \in Nat : (d * m) % d = 0 /\ (d * m) \div d = m
  OBVIOUS
<1>3. d * (q \div d) \in 0 .. q
  BY <1>1
<1>4. ASSUME NEW a \in Nat, a % d = 0, a \div d = q \div d
      PROVE  a <= q
  <2>1. a = d * (a \div d) + (a % d)
    OBVIOUS
  <2>2. a = d * (q \div d) + 0
    BY ONLY <1>4, <2>1, Zenon
  <2> QED BY <1>3, <2>2
<1> QED BY <1>1, <1>2, <1>3, <1>4

-----------------------------------------------------------------------------
(***************************************************************************)
(* The theorems.                                                           *)
(***************************************************************************)
\* Whatever the size of the chip and of its erase blocks, and whatever image is
\* written, a chip that has kept up and has not failed is at the call that the
\* drivers' position says, with the pages read, compared and written so far.
THEOREM Steps ==
  ASSUME InChip, Addressable
  PROVE  Spec => [](IInv /\ ImageOK)
<1>1. Init => IInv /\ ImageOK
  BY InitSound
<1>2. IInv /\ ImageOK /\ [Next]_vars => IInv' /\ ImageOK'
  BY StepSound
<1> QED BY <1>1, <1>2, PTL DEF Spec

\* Of what the write loop has written, what main erased beforehand and does not
\* erase again holds its part of the file.
THEOREM WritesHold ==
  ASSUME InChip, Addressable
  PROVE  Spec => []WrittenHeld
<1>1. IInv => WrittenHeld
  <2> SUFFICES ASSUME Sound, pc = "write", Untroubled, NEW q \in start_pageno .. x - 1,
                      \E a \in 0 .. q : Erases(a) /\ SameBlock(a, q),
                      \A a \in q + 1 .. x : ~(Erases(a) /\ SameBlock(a, q))
               PROVE  cells[q % NPages] = [u \in Units |-> file[3 * (q - start_pageno) + u]]
    BY DEF IInv, WrittenHeld
  <2>1. Kept(q)
    BY DEF Sound, Writing
  <2>2. start_pageno \in Nat /\ x \in Nat /\ end_pageno \in 0 .. NPages /\ x <= end_pageno
    BY DEF Sound, Types, RangeOK, Working
  <2>3. q \in Nat /\ q < NPages /\ NPages \in Nat
    BY <2>2 DEF ToolAssumption
  <2>4. q % NPages = q
    BY <2>3
  <2> QED BY <2>1, <2>4 DEF Kept
<1> QED BY <1>1, Steps, PTL

\* A verification reports no difference exactly when chip and file agree on every
\* page it has been through.
THEOREM VerifiesAll ==
  ASSUME InChip, Addressable
  PROVE  Spec => []VerifyExact
<1>1. IInv => VerifyExact
  <2> SUFFICES ASSUME Sound, pc = "verify"
               PROVE  (verifyErrors = 0) =
                        (\A q \in start_pageno .. x - 1, i \in 1 .. Size :
                           file[Size * (q - start_pageno) + i]
                             = cells[q % NPages][IF access = "oob" THEN 3 ELSE i])
    BY DEF IInv, VerifyExact
  <2>1. verifyErrors = 0 <=> SameAsFile
    BY DEF Sound, Compared
  <2>2. start_pageno \in Nat /\ x \in Nat /\ end_pageno \in 0 .. NPages /\ x <= end_pageno
    BY DEF Sound, Types, RangeOK, Working
  <2>3. ASSUME NEW q \in start_pageno .. x - 1
        PROVE  q % NPages = q
    <3>1. q \in Nat /\ q < NPages /\ NPages \in Nat
      BY <2>2 DEF ToolAssumption
    <3> QED BY <3>1
  <2> DEFINE agree == \A q \in start_pageno .. x - 1, i \in 1 .. Size :
                        file[Size * (q - start_pageno) + i]
                          = cells[q % NPages][IF access = "oob" THEN 3 ELSE i]
  <2>4. SameAsFile <=> agree
    BY <2>3 DEF SameAsFile, UnitAt
  <2>5. agree \in BOOLEAN
    OBVIOUS
  <2> HIDE DEF agree
  <2>6. (verifyErrors = 0) = agree
    BY ONLY <2>1, <2>4, <2>5
  <2> QED BY <2>6 DEF agree
<1> QED BY <1>1, Steps, PTL

\* Main's loops change no page of the chip but the one they write and the block
\* they erase for it.
THEOREM KeepsToItsPage ==
  ASSUME InChip, Addressable
  PROVE  Spec => OnlyItsPage
<1> DEFINE A == Untroubled /\ pc \in {"read", "verify", "write"} =>
                  \A q \in Pages : cells'[q] # cells[q] =>
                    pc = "write" /\ (IF busy = "erase" THEN SameBlock(q, x) ELSE q = x)
<1>1. IInv /\ ImageOK /\ [Next]_vars => [A]_toolVars
  <2> SUFFICES ASSUME IInv, ImageOK, [Next]_vars, Untroubled, pc \in Working,
                      NEW q \in Pages, cells'[q] # cells[q]
               PROVE  pc = "write" /\ (IF busy = "erase" THEN SameBlock(q, x) ELSE q = x)
    BY DEF Working
  <2>1. UseTool
    BY BuildStep
  <2>2. Sound /\ ToolNext
    BY <2>1 DEF IInv, UseTool
  <2>3. ChipWorks
    BY <2>2, ToolPages
  <2> QED BY <2>2, <2>3, ChipPages
<1>2. OnlyItsPage <=> [][A]_toolVars
  BY DEF OnlyItsPage
<1> HIDE DEF A
<1> QED BY <1>1, <1>2, Steps, PTL DEF Spec

\* No image that createnfimg builds declares a block bad: with a layout of the
\* table, selected rightly or by a level cut to four bits, neither clean marker nor ECC falls on a bad block indicator.
THEOREM BlocksGood == Spec => []GoodBlocks
<1>1. Init => ImageOK
  BY InitSound
<1>2. ImageOK /\ [Next]_vars => ImageOK'
  BY ImageStep
<1>3. ImageOK => GoodBlocks
  BY DEF ImageOK, GoodSpare, GoodBlocks
<1> QED BY <1>1, <1>2, <1>3, PTL DEF Spec

\* With the default field order, a level below 16 and a known layout every page that begins a block
\* before the split marker has the eight bytes of the clean marker, and no other page has
\* one of them.
THEOREM MarkersComplete == Spec => []MarkersWhole
<1>1. Init => ImageOK /\ MarkedOK
  BY InitSound, MarkedInit
<1>2. ImageOK /\ MarkedOK /\ [Next]_vars => ImageOK' /\ MarkedOK'
  BY ImageStep, MarkedStep
<1>3. MarkedOK => MarkersWhole
  <2> SUFFICES ASSUME MarkedOK, p.order = MIN_FIELD_ORDER, p.level < 16, Matching # {}, NEW i \in DOMAIN image
               PROVE  Cardinality({k \in Offsets : image[i].oob[k] = "marker"})
                        = IF ShouldMark(i) THEN CLEANMARKER_SIZE ELSE 0
    BY DEF MarkersWhole, MarkersKept
  <2>1. {k \in Offsets : image[i].oob[k] = "marker"} = IF ShouldMark(i) THEN FirstFree ELSE {}
    BY DEF MarkedOK, Markers
  <2>2. Cardinality(FirstFree) = CLEANMARKER_SIZE
    BY MarkersFit DEF MarkedOK
  <2> QED BY <2>1, <2>2, FS_EmptySet
<1> QED BY <1>1, <1>2, <1>3, PTL DEF Spec

\* An image of the chip's block size, written from the chip's first page on, puts a clean
\* marker on the first page of every erase block and on no other.
THEOREM MarksEveryBlock ==
  ASSUME InChip, Addressable
  PROVE  Spec => []BlocksMarked
<1>1. Init => IInv /\ ImageOK /\ MarkedOK /\ Within
  <2>1. ASSUME Init
        PROVE  Within
    <3>1. at = 0 /\ file \in Seq(Things)
      BY <2>1, InitSound DEF Init, ToolInit, IInv, Sound, Types, Untroubled
    <3> QED BY <3>1 DEF Within
  <2> QED BY <2>1, InitSound, MarkedInit
<1>2. IInv /\ ImageOK /\ MarkedOK /\ Within /\ [Next]_vars => IInv' /\ ImageOK' /\ MarkedOK' /\ Within'
  BY StepSound, MarkedStep, WithinStep
<1>3. IInv /\ ImageOK /\ MarkedOK /\ Within => BlocksMarked
  <2> SUFFICES ASSUME IInv, ImageOK, MarkedOK, Within,
                      pc = "write", Untroubled, EraseEvery = PagesPerBlock[kind],
                      p.pages_per_block = PagesPerBlock[kind], start_pageno = 0, file = AsFile,
                      p.cleanmarker, p.order = MIN_FIELD_ORDER, p.level < 16, Matching # {},
                      \A i \in DOMAIN image : image[i].main # "ubifs", NEW q \in 0 .. x - 1
               PROVE  cells[q][3] \in {"marker", "marker+ecc"} <=> q % PagesPerBlock[kind] = 0
    BY DEF BlocksMarked
  <2> DEFINE d == PagesPerBlock[kind]
  <2>1. Sound /\ Types /\ Writing /\ at <= Len(file)
    BY DEF IInv, Sound, Within
  <2>2. q \in Nat /\ x \in Nat /\ q < x /\ d \in Nat \ {0} /\ at \in Nat /\ Len(image) \in Nat
    <3>1. x \in Nat /\ at \in Nat /\ kind \in {"small", "large"}
      BY <2>1 DEF Types
    <3>2. d \in Nat \ {0}
      BY <3>1, ToolAssumption DEF ToolAssumption
    <3>3. Len(image) \in Nat
      BY DEF ImageOK
    <3>4. q \in Nat /\ q < x
      BY <3>1
    <3> QED BY <3>1, <3>2, <3>3, <3>4
  <2>3. access = "both"
    BY <2>1, <2>2 DEF Writing
  <2>4. at >= 3 * x
    <3>1. PICK erased \in BOOLEAN, done \in SUBSET Units : Stage(erased, done)
      BY <2>1 DEF Writing
    <3>2. at = 3 * (x - start_pageno) \/ at = 3 * (x - start_pageno) + 3
      BY <2>3, <3>1 DEF Stage, Buffered
    <3> QED BY <2>2, <3>2
  <2>5. q < Len(image)
    <3>1. Len(AsFile) = 3 * Len(image)
      <4>1. AsFile \in Seq(Things) /\ DOMAIN AsFile = 1 .. 3 * Len(image)
        BY AsFileType DEF AsFile
      <4> QED BY <2>2, <4>1
    <3> QED BY <2>1, <2>2, <2>4, <3>1
  <2>6. cells[q] = [u \in Units |-> file[3 * (q - start_pageno) + u]]
    <3>1. Kept(q)
      BY <2>1 DEF Writing
    <3>2. \E a \in 0 .. q : Erases(a) /\ SameBlock(a, q)
      <4>1. PICK a \in 0 .. q : a % d = 0 /\ a \div d = q \div d
        BY <2>2, FirstOfBlock
      <4> QED BY <2>2, <4>1 DEF Erases, SameBlock
    <3>3. \A a \in q + 1 .. x : ~(Erases(a) /\ SameBlock(a, q))
      <4> SUFFICES ASSUME NEW a \in q + 1 .. x, Erases(a), SameBlock(a, q)
                   PROVE  FALSE
        OBVIOUS
      <4>1. a \in Nat /\ ~(a <= q)
        BY <2>2
      <4>2. a % d = 0 /\ a \div d = q \div d
        BY DEF Erases, SameBlock
      <4> QED BY <2>2, <4>1, <4>2, FirstOfBlock
    <3> QED BY <3>1, <3>2, <3>3 DEF Kept
  <2>7. cells[q][3] = Spared(image[q + 1].oob) /\ q + 1 \in DOMAIN image
    <3>1. cells[q][3] = file[3 * (q - start_pageno) + 3]
      BY <2>6 DEF Units
    <3>2. 3 * (q - start_pageno) + 3 = 3 * q + 3
      BY <2>2
    <3>3. cells[q][3] = AsFile[3 * q + 3]
      BY <3>1, <3>2
    <3> QED BY <2>2, <2>5, <3>3, SpareUnit
  <2>8. cells[q][3] \in {"marker", "marker+ecc"} <=> ShouldMark(q + 1)
    BY <2>7, MarkedUnit
  <2>9. ShouldMark(q + 1) <=> q % d = 0
    <3>1. q + 1 - 1 = q
      BY <2>2
    <3>2. \A j \in 1 .. q : image[j].main # "ubifs"
      BY <2>2, <2>5 DEF ImageOK
    <3>3. ~(d > 1) => d = 1 /\ q % d = 0
      BY <2>2
    <3> QED BY <3>1, <3>2, <3>3 DEF ShouldMark
  <2> QED BY <2>8, <2>9
<1> QED BY <1>1, <1>2, <1>3, PTL DEF Spec

\* A chip of at most half as many pages as an int shifted by 16 tells apart, and
\* of no more than the row bytes do, is addressed page by page.
THEOREM RowsDistinct ==
  ASSUME NPages <= IntPages \div 2, NPages <= RowSpan
  PROVE  Addressable
<1> SUFFICES ASSUME NEW q \in Pages
             PROVE  LargeRow(q) % NPages = q
  BY DEF Addressable
<1>1. /\ q \in Nat /\ q < NPages /\ NPages \in Nat \ {0} /\ IntPages \in Nat \ {0, 1} /\ RowSpan \in Nat \ {0}
      /\ q < IntPages \div 2 /\ q < IntPages /\ q < RowSpan
  BY DEF Pages, ToolAssumption
<1>2. q % IntPages = q /\ q % RowSpan = q /\ q % NPages = q
  BY <1>1
<1> QED BY <1>1, <1>2 DEF LargeRow

=============================================================================
