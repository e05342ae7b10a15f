--------------------------- MODULE NandReader_proofs ---------------------------
(***************************************************************************)
(* What holds of every run of the command, for chips, files, budgets and   *)
(* command lines of any size.                                              *)
(***************************************************************************)
EXTENDS NandReader, SequenceTheorems, TLAPS

(***************************************************************************)
(* The inductive invariant, a part for each thing the loops keep together. *)
(***************************************************************************)
PageLoop == pc \in {"read", "write", "program", "compare"}
Ended(a) == pc = "done" /\ action = a

\* What Open has checked still holds where the loops run and when they end.
Opened ==
  /\ pc \in {"read", "write", "erase"} => action = pc
  /\ pc \in {"program", "compare"} => action = "write"
  /\ pc = "done" => action \in {"read", "write", "erase"}
  /\ PageLoop \/ pc \in {"erase", "done"} => Opens
  /\ pc = "compare" => Writable
  /\ pc = "open" => action # "none"
  /\ pc = "parse" => store = initial

\* The address is that of a page of the range, or of its end, and the file has
\* been read up to the chunk of that page.
InPlace ==
  /\ PageLoop \/ Ended("read") \/ Ended("write") =>
       /\ address % MainLen = 0
       /\ args.from <= address /\ (address <= endAddress \/ address = args.from)
  /\ pc \in {"program", "compare"} => address < endAddress
  /\ pc = "write" => pos = Ordinal(Row) * filePageSize /\ pos <= Len(args.file)
  /\ pc \in {"program", "compare"} =>
       pos = (Ordinal(Row) + 1) * filePageSize /\ pos <= Len(args.file)

\* An erase counts blocks.
BlockInPlace ==
  pc = "erase" \/ Ended("erase") =>
    /\ StartAddress <= address
    /\ pc = "done" => EndBlock <= address

\* What is about to be written keeps the bits the chunk keeps, and is the chunk
\* as long as no page has differed.
BufferKept ==
  /\ pc = "program" =>
       /\ pageBuf \in [1 .. filePageSize -> Byte]
       /\ verifyErrors = MaxVerifyErrors => pageBuf = Part(Row, filePageSize)
       /\ ~noisy => \A c \in Cols :
            initial[Row][c] \cap Register(Part(Row, filePageSize))[c] \subseteq Register(pageBuf)[c]
  /\ pc = "compare" /\ verifyErrors = MaxVerifyErrors => tmpBuf = Part(Row, filePageSize)

\* The loop is left when the budget is spent.
VerifyBudget == pc \in {"write", "program", "compare"} => verifyErrors # 0

\* CleanRunMatches and FileHoldsRange on the way.
MatchesSoFar ==
  /\ pc \in {"write", "program", "compare", "done"} /\ action = "write"
  /\ verifyErrors = MaxVerifyErrors /\ ~noisy
  => \A p \in Pages :
       LET part == Part(p, filePageSize) IN
         Passed(p) /\ part # FF(filePageSize) => Prefix(store[p], filePageSize) = part

WantedLen == Len(Wanted(Blank))

HoldsSoFar ==
  /\ pc = "read" \/ (Ended("read") /\ address >= endAddress)
  /\ ~noisy
  => /\ Len(out) = Ordinal(Row) * WantedLen
     /\ \A p \in Pages :
          InRange(p) /\ p < Row =>
            SubSeq(out, Ordinal(p) * WantedLen + 1, (Ordinal(p) + 1) * WantedLen) = Wanted(store[p])

ErasedSoFar ==
  pc = "erase" \/ Ended("erase") =>
    \A p \in Pages :
      StartAddress <= BlockOf(p) /\ BlockOf(p) < address =>
        store[p] = Blank \/ BlockOf(p) \in notErased

IInv ==
  /\ TypeOK /\ Opened /\ InPlace /\ BlockInPlace /\ BufferKept /\ VerifyBudget
  /\ OnlyRange /\ ClearsOnlyItsChunk /\ MatchesSoFar /\ HoldsSoFar /\ ErasedSoFar

-----------------------------------------------------------------------------
(***************************************************************************)
(* Multiples of a page or block size.                                      *)
(***************************************************************************)
LEMMA Multiple ==
  ASSUME NEW a \in Nat, NEW m \in Nat \ {0}, a % m = 0
  PROVE  /\ a \div m \in Nat /\ a = (a \div m) * m
         /\ (a + m) % m = 0 /\ (a + m) \div m = (a \div m) + 1
  BY SMTT(30)

LEMMA MultipleOrder ==
  ASSUME NEW a \in Nat, NEW b \in Nat, NEW m \in Nat \ {0}, a % m = 0, b % m = 0
  PROVE  /\ a < b => a + m <= b
         /\ a <= b <=> a \div m <= b \div m
         /\ a < b <=> a \div m < b \div m
<1> DEFINE i == a \div m
           j == b \div m
<1>1. i \in Nat /\ j \in Nat /\ a = i * m /\ b = j * m
  BY Multiple
<1> HIDE DEF i, j
<1>2. /\ i < j => i * m + m <= j * m
      /\ i <= j <=> i * m <= j * m
      /\ i < j <=> i * m < j * m
  BY <1>1, SMTT(30)
<1> QED BY <1>1, <1>2 DEF i, j

\* x lies in the n-th interval of length m.
LEMMA Interval ==
  ASSUME NEW x \in Nat, NEW n \in Nat, NEW m \in Nat \ {0}
  PROVE  x \div m = n <=> n * m <= x /\ x < (n + 1) * m
  BY SMTT(30)

LEMMA Product ==
  ASSUME NEW a \in Nat, NEW b \in Nat, NEW c \in Nat
  PROVE  /\ a * b \in Nat /\ a * b = b * a /\ (a + 1) * b = a * b + b
         /\ (a * b) * c = a * (b * c) /\ a <= b => a * c <= b * c
         /\ (c # 0 /\ a * c < b * c) => a < b
         /\ (c # 0 /\ a * c <= b * c) => a <= b
  BY SMTT(30)

-----------------------------------------------------------------------------
(***************************************************************************)
(* The constants, the command line and what NandChip derives from them.    *)
(***************************************************************************)
LEMMA Sizes ==
  /\ MainLen \in Nat \ {0} /\ PageLen \in Nat \ {0} /\ MainLen <= PageLen
  /\ NPages \in Nat \ {0} /\ PagesPerBlock \in Nat \ {0}
  /\ EraseSize \in Nat \ {0} /\ ChipSize \in Nat /\ ChipSize = NPages * MainLen
<1>1. /\ MainLen \in Nat \ {0} /\ PageLen \in Nat \ {0} /\ MainLen <= PageLen
      /\ NPages \in Nat \ {0} /\ PagesPerBlock \in Nat \ {0}
  BY TypesAssumption, ReaderAssumption
<1>2. \A a \in Nat \ {0}, b \in Nat \ {0} : a * b \in Nat \ {0} /\ a * b = b * a
  BY SMTT(30)
<1> QED BY <1>1, <1>2 DEF EraseSize, ChipSize

LEMMA CommandLine ==
  ASSUME args \in Arguments
  PROVE  /\ args.access \in AccessTypes /\ args.from \in Nat /\ args.from <= ChipSize
         /\ args.file \in Seq(Byte) /\ endAddress \in Nat /\ endAddress <= ChipSize
         /\ filePageSize \in Nat \ {0} /\ filePageSize <= PageLen
         /\ fileOffset \in Nat /\ fileOffset <= filePageSize
<1>1. args \in [access : AccessTypes, from : 0 .. ChipSize, to : 0 .. ChipSize, file : Seq(Byte)]
  BY ReaderAssumption
<1> QED BY <1>1, Sizes DEF endAddress, filePageSize, fileOffset

LEMMA Written ==
  ASSUME args \in Arguments, pageBuf \in [1 .. filePageSize -> Byte]
  PROVE  pageWritten = pageBuf /\ Register(pageBuf) \in Content /\ Len(pageBuf) = filePageSize
<1>1. pageWritten = pageBuf
  BY DEF pageWritten, brcm_nand
<1>2. Len(pageBuf) = filePageSize /\ \A c \in 1 .. filePageSize : pageBuf[c] \in Byte
  BY CommandLine
<1>3. Bits \in Byte
  BY DEF Byte
<1> QED BY <1>1, <1>2, <1>3, Sizes, CommandLine DEF Register, Content, Cols

LEMMA BlankSpare ==
  ASSUME NEW n \in Nat
  PROVE  FF(n) \in [1 .. n -> Byte] /\ FF(n) \in Seq(Byte) /\ Len(FF(n)) = n
  BY DEF FF, Byte

\* A page that arrived fills the buffer up to filePageSize, but for spare areas.
LEMMA PrefixType ==
  ASSUME NEW x \in Content, NEW n \in 0 .. PageLen
  PROVE  Prefix(x, n) \in [1 .. n -> Byte] /\ Prefix(x, n) \in Seq(Byte) /\ Len(Prefix(x, n)) = n
  BY Sizes DEF Prefix, Content, Cols

LEMMA RecalculatedType ==
  ASSUME NEW main \in [1 .. MainLen -> Byte]
  PROVE  /\ (main \o IF main = FF(MainLen) THEN FF(PageLen - MainLen) ELSE Ecc(main)) \in [1 .. PageLen -> Byte]
         /\ brcm_nand("0", main \o FF(PageLen - MainLen))
              = main \o IF main = FF(MainLen) THEN FF(PageLen - MainLen) ELSE Ecc(main)
<1> DEFINE n == PageLen - MainLen
           spare == IF main = FF(MainLen) THEN FF(n) ELSE Ecc(main)
<1>1. n \in Nat
  BY Sizes
<1>2. main \in Seq(Byte) /\ Len(main) = MainLen
  BY Sizes
<1>3. spare \in Seq(Byte) /\ Len(spare) = n
  <2>1. Ecc(main) \in [1 .. n -> Byte]
    BY ReaderAssumption
  <2> HIDE DEF n
  <2>2. Ecc(main) \in Seq(Byte) /\ Len(Ecc(main)) = n
    BY <1>1, <2>1
  <2> QED BY <1>1, <2>2, BlankSpare
<1>4. main \o spare \in Seq(Byte) /\ Len(main \o spare) = PageLen
  <2> HIDE DEF spare
  <2>1. main \o spare \in Seq(Byte) /\ Len(main \o spare) = Len(main) + Len(spare)
    BY <1>2, <1>3, ConcatProperties
  <2> QED BY <1>2, <1>3, <2>1, Sizes
<1>5. SubSeq(main \o FF(n), 1, MainLen) = main
  <2>1. \A i \in 1 .. MainLen : (main \o FF(n))[i] = main[i] /\ main[i] \in Byte
    BY <1>1, <1>2, BlankSpare, ConcatProperties
  <2> HIDE DEF n
  <2>2. /\ SubSeq(main \o FF(n), 1, MainLen) \in Seq(Byte)
        /\ Len(SubSeq(main \o FF(n), 1, MainLen)) = MainLen
        /\ \A i \in 1 .. MainLen : SubSeq(main \o FF(n), 1, MainLen)[i] = main[i]
    BY <2>1, Sizes, SubSeqProperties
  <2> QED BY <1>2, <2>2, SeqEqual
<1>6. brcm_nand("0", main \o FF(n)) = main \o spare
  BY <1>5 DEF brcm_nand
<1> QED BY <1>4, <1>6, LenProperties

LEMMA ReadsType ==
  ASSUME args \in Arguments, NEW x \in Content
  PROVE  /\ pageRead(x) \in [1 .. filePageSize -> Byte]
         /\ args.access # "r-oob" => pageRead(x) = Prefix(x, filePageSize)
<1>1. CASE args.access = "main"
  BY <1>1, PrefixType, Sizes DEF pageRead, filePageSize
<1>2. CASE args.access = "r-oob"
  <2>1. Prefix(x, MainLen) \in [1 .. MainLen -> Byte]
    BY PrefixType, Sizes
  <2>2. pageRead(x) = brcm_nand("0", Prefix(x, MainLen) \o FF(PageLen - MainLen))
    BY <1>2 DEF pageRead
  <2>3. pageRead(x) \in [1 .. PageLen -> Byte]
    BY <2>1, <2>2, RecalculatedType
  <2> QED BY <1>2, <2>3 DEF filePageSize
<1>3. CASE args.access \notin {"main", "r-oob"}
  BY <1>3, PrefixType, Sizes DEF pageRead, filePageSize
<1> QED BY <1>1, <1>2, <1>3

-----------------------------------------------------------------------------
(***************************************************************************)
(* Where the loops are: page rows, chunks and blocks.                      *)
(***************************************************************************)
LEMMA PageAt ==
  ASSUME address \in Nat, address % MainLen = 0
  PROVE  /\ Row \in Nat /\ address = Row * MainLen
         /\ address + MainLen \in Nat /\ (address + MainLen) % MainLen = 0
         /\ (address + MainLen) \div MainLen = Row + 1
<1>1. MainLen \in Nat \ {0}
  BY Sizes
<1>2. /\ Row \in Nat /\ address = Row * MainLen
      /\ (address + MainLen) % MainLen = 0
      /\ (address + MainLen) \div MainLen = Row + 1
  BY <1>1, Multiple, Zenon DEF Row
<1> QED BY <1>1, <1>2

\* Where a page loop may work: the page is one of the range.
LEMMA InRangeHere ==
  ASSUME args \in Arguments, action # "erase", Opens, address \in Nat, address % MainLen = 0,
         args.from <= address, address < endAddress
  PROVE  /\ Row \in Pages /\ InRange(Row) /\ Ordinal(Row) \in Nat
         /\ address + MainLen <= endAddress
<1>1. args.from % MainLen = 0 /\ endAddress % MainLen = 0
  BY DEF Opens, Aligned
<1>2. address + MainLen <= endAddress /\ args.from \div MainLen <= Row
  BY <1>1, Sizes, CommandLine, MultipleOrder DEF Row
<1>3. args.from \div MainLen \in Nat
  BY <1>1, Sizes, CommandLine, Multiple
<1>4. Row * MainLen < NPages * MainLen
  BY Sizes, CommandLine, PageAt
<1>5. Row \in Nat /\ Row < NPages
  BY <1>4, Sizes, PageAt, Product
<1> QED BY <1>2, <1>3, <1>5, Sizes, PageAt DEF Pages, InRange, Ordinal

LEMMA SubSeqIs ==
  ASSUME NEW s, NEW a \in Nat, NEW n \in Nat, \A i \in 1 .. n : s[a + i] \in Byte
  PROVE  SubSeq(s, a + 1, a + n) = [i \in 1 .. n |-> s[a + i]]
<1>1. \A i \in a + 1 .. a + n : i - a \in 1 .. n /\ a + (i - a) = i
  OBVIOUS
<1>2. \A i \in a + 1 .. a + n : s[i] \in Byte
  BY <1>1
<1>3. a + 1 \in Int /\ a + n \in Int /\ a + n - (a + 1) + 1 = n
  OBVIOUS
<1>4. SubSeq(s, a + 1, a + n) \in Seq(Byte)
  BY <1>2, <1>3, SubSeqProperties
<1>5. Len(SubSeq(s, a + 1, a + n)) = n
  BY <1>2, <1>3, SubSeqProperties
<1>6. \A i \in 1 .. n : SubSeq(s, a + 1, a + n)[i] = s[a + i]
  <2>1. \A i \in 1 .. n : SubSeq(s, a + 1, a + n)[i] = s[a + 1 + i - 1]
    BY <1>2, <1>3, SubSeqProperties
  <2> QED BY <2>1
<1>7. [i \in 1 .. n |-> s[a + i]] \in Seq(Byte) /\ Len([i \in 1 .. n |-> s[a + i]]) = n
  OBVIOUS
<1> QED BY <1>4, <1>5, <1>6, <1>7, SeqEqual

\* The next chunk of the file is the one that belongs on the page.
LEMMA ChunkIsPart ==
  ASSUME args \in Arguments, Ordinal(Row) \in Nat, pos = Ordinal(Row) * filePageSize,
         pos + filePageSize <= Len(args.file)
  PROVE  /\ Chunk = Part(Row, filePageSize) /\ Chunk \in [1 .. filePageSize -> Byte]
         /\ pos + filePageSize = (Ordinal(Row) + 1) * filePageSize
<1> DEFINE k == Ordinal(Row)
           n == filePageSize
           f == args.file
<1>1. k \in Nat /\ n \in Nat \ {0} /\ f \in Seq(Byte) /\ Len(f) \in Nat
  BY CommandLine
<1>2. k * n \in Nat /\ (k + 1) * n = k * n + n
  BY <1>1, Product
<1> HIDE DEF k, n, f
<1>3. pos = k * n /\ pos + n <= Len(f)
  BY DEF k, n, f
<1>4. \A i \in pos + 1 .. pos + n : f[i] \in Byte
  BY <1>1, <1>2, <1>3, ElementOfSeq
<1>5. \A i \in 1 .. n : f[k * n + i] \in Byte
  BY <1>1, <1>2, <1>3, <1>4
<1>6. [i \in 1 .. n |-> f[k * n + i]] \in [1 .. n -> Byte]
  BY <1>5
<1>7. SubSeq(f, pos + 1, pos + n) = [i \in 1 .. n |-> f[k * n + i]]
  BY <1>1, <1>2, <1>3, <1>5, SubSeqIs
<1> QED BY <1>2, <1>3, <1>6, <1>7 DEF Chunk, Part, k, n, f

LEMMA BlockOfPage ==
  ASSUME NEW p \in Nat, NEW b \in Nat
  PROVE  BlockOf(p) = b <=> b * EraseSize <= p * MainLen /\ p * MainLen < (b + 1) * EraseSize
<1> DEFINE m == MainLen
           n == PagesPerBlock
<1>1. BlockOf(p) = b <=> b * n <= p /\ p < (b + 1) * n
  BY Sizes, Interval DEF BlockOf
<1>2. m \in Nat \ {0} /\ n \in Nat \ {0}
  BY Sizes
<1> HIDE DEF m, n
<1>3. \A x \in Nat : x * (m * n) = (x * n) * m /\ x * n \in Nat
  BY <1>2, SMTT(30)
<1>4. \A x \in Nat, y \in Nat : (x <= y <=> x * m <= y * m) /\ (x < y <=> x * m < y * m)
  BY <1>2, SMTT(30)
<1>5. b * (m * n) <= p * m <=> b * n <= p
  BY <1>3, <1>4
<1>6. p * m < (b + 1) * (m * n) <=> p < (b + 1) * n
  BY <1>3, <1>4
<1> QED BY <1>1, <1>5, <1>6 DEF EraseSize, m, n

\* An erase works on the blocks of the range, and those are whole blocks of the
\* chip.
LEMMA BlockHere ==
  ASSUME args \in Arguments, action = "erase", Opens
  PROVE  /\ StartAddress \in Nat /\ EndBlock \in Nat
         /\ StartAddress <= ChipSize /\ EndBlock <= ChipSize
         /\ \A b \in Nat : b < EndBlock => b \in Blocks
         /\ \A p \in Pages : InRange(p) <=> StartAddress <= BlockOf(p) /\ BlockOf(p) < EndBlock
<1> DEFINE E == EraseSize
           s == args.from \div E
           e == endAddress \div E
<1>1. args.from % E = 0 /\ endAddress % E = 0
  BY DEF Opens, Aligned
<1>2. s \in Nat /\ e \in Nat /\ args.from = s * E /\ endAddress = e * E
  BY <1>1, Sizes, CommandLine, Multiple
<1>3. StartAddress = s /\ EndBlock = e
  BY DEF StartAddress, EndBlock
<1>4. E \in Nat \ {0}
  BY Sizes
<1> HIDE DEF s, e, E
<1>5. s <= s * E /\ e <= e * E
  BY <1>2, <1>4, SMTT(30)
<1>6. ASSUME NEW b \in Nat, b < e
      PROVE  b \in Blocks
  <2> DEFINE p == b * PagesPerBlock
  <2>1. p \in Nat
    BY Sizes, Product
  <2>2. BlockOf(p) = b
    <3>1. p \div PagesPerBlock = b
      BY Sizes, SMTT(30)
    <3> QED BY <3>1 DEF BlockOf
  <2>3. p * MainLen < (b + 1) * E
    BY <2>1, <2>2, BlockOfPage DEF E
  <2>4. (b + 1) * E <= e * E
    BY <1>2, <1>4, <1>6, Product
  <2>5. p * MainLen < NPages * MainLen
    <3>1. p * MainLen \in Nat /\ (b + 1) * E \in Nat
      BY <1>4, <2>1, Sizes, Product
    <3> QED BY <1>2, <2>3, <2>4, <3>1, Sizes, CommandLine
  <2>6. p < NPages
    BY <2>1, <2>5, Sizes, Product
  <2> QED BY <2>1, <2>2, <2>6, Sizes DEF Pages, Blocks
<1>7. ASSUME NEW p \in Pages
      PROVE  InRange(p) <=> s <= BlockOf(p) /\ BlockOf(p) < e
  <2> DEFINE b == BlockOf(p)
             x == p * MainLen
  <2>1. p \in Nat /\ b \in Nat /\ x \in Nat
    <3>1. p \in Nat
      BY Sizes DEF Pages
    <3>2. p \div PagesPerBlock \in Nat
      BY <3>1, Sizes
    <3> QED BY <3>1, <3>2, Sizes, Product DEF BlockOf
  <2>2. b * E <= x /\ x < (b + 1) * E
    BY <2>1, BlockOfPage DEF E
  <2> HIDE DEF b, x
  <2>3. (s * E <= x <=> s <= b) /\ (x < e * E <=> b < e)
    <3>1. \A i \in Nat, j \in Nat : i <= j => i * E <= j * E
      BY <1>4, Product
    <3>2. \A i \in Nat : i * E \in Nat
      BY <1>4, Product
    <3>3. s <= b => s * E <= b * E
      BY <1>2, <2>1, <3>1
    <3>4. b + 1 <= s => (b + 1) * E <= s * E
      BY <1>2, <2>1, <3>1
    <3>5. b + 1 <= e => (b + 1) * E <= e * E
      BY <1>2, <2>1, <3>1
    <3>6. e <= b => e * E <= b * E
      BY <1>2, <2>1, <3>1
    <3> QED BY <1>2, <2>1, <2>2, <3>2, <3>3, <3>4, <3>5, <3>6
  <2> QED BY <1>2, <2>3 DEF InRange, b, x
<1>8. s <= ChipSize /\ e <= ChipSize
  BY <1>2, <1>5, Sizes, CommandLine
<1> QED BY <1>2, <1>3, <1>6, <1>7, <1>8

-----------------------------------------------------------------------------
(***************************************************************************)
(* What no step changes: the command line and what follows from it.        *)
(***************************************************************************)
LEMMA CommandKept ==
  ASSUME [Next]_vars
  PROVE  /\ args' = args /\ initial' = initial /\ noisy' = noisy
         /\ pc # "parse" => action' = action
<1> USE DEF Next, Parse, Step, ParseAction, ParseUsb, ParseUnknown, Parsed, ParseRest, fixed
<1>1. CASE Parse
  BY <1>1
<1>2. CASE Step
  BY <1>2 DEF Open, ReadPage, WriteFileFails, NextChunk, OutOfData, Program, CannotWrite, PageEqual,
       PageDiffers, EraseBlock, RangeDone, Verify
<1>3. CASE Interrupt \/ Rerun \/ Finished \/ UNCHANGED vars
  BY <1>3 DEF Interrupt, Rerun, Finished, vars
<1> QED BY <1>1, <1>2, <1>3

LEMMA DerivedKept ==
  ASSUME args' = args
  PROVE  /\ filePageSize' = filePageSize /\ fileOffset' = fileOffset /\ endAddress' = endAddress
         /\ Writable' = Writable
         /\ \A p : (InRange(p))' = InRange(p) /\ (Ordinal(p))' = Ordinal(p)
         /\ \A p, n : (Part(p, n))' = Part(p, n) /\ (HasPart(p, n))' = HasPart(p, n)
         /\ \A x : (Wanted(x))' = Wanted(x)
         /\ WantedLen' = WantedLen
         /\ action' = action => Opens' = Opens /\ StartAddress' = StartAddress /\ EndBlock' = EndBlock
  BY DEF filePageSize, fileOffset, endAddress, Writable, InRange, Ordinal, Part, HasPart, Wanted,
         WantedLen, Opens, Aligned, StartAddress, EndBlock, Blank

(***************************************************************************)
(* The page loops at work: reading, writing, programming and comparing.    *)
(***************************************************************************)
LEMMA AtPage ==
  ASSUME TypeOK, Opened, InPlace, PageLoop
  PROVE  /\ args \in Arguments /\ action # "erase" /\ Opens
         /\ address \in Nat /\ address % MainLen = 0 /\ args.from <= address
         /\ Row \in Nat /\ address = Row * MainLen
         /\ (address + MainLen) % MainLen = 0 /\ (address + MainLen) \div MainLen = Row + 1
         /\ address < endAddress =>
              /\ Row \in Pages /\ InRange(Row) /\ Ordinal(Row) \in Nat
              /\ address + MainLen <= endAddress /\ address + MainLen <= ChipSize
<1>1. /\ args \in Arguments /\ action # "erase" /\ Opens
      /\ address \in Nat /\ address % MainLen = 0 /\ args.from <= address
  BY Sizes DEF TypeOK, Opened, InPlace, PageLoop
<1>2. /\ Row \in Nat /\ address = Row * MainLen
      /\ (address + MainLen) % MainLen = 0 /\ (address + MainLen) \div MainLen = Row + 1
  BY <1>1, PageAt
<1>3. address < endAddress =>
        Row \in Pages /\ InRange(Row) /\ Ordinal(Row) \in Nat /\ address + MainLen <= endAddress
  BY <1>1, InRangeHere
<1>4. endAddress <= ChipSize /\ endAddress \in Nat /\ ChipSize \in Nat /\ MainLen \in Nat
  BY <1>1, CommandLine, Sizes
<1> QED BY <1>1, <1>2, <1>3, <1>4

\* A read fills the buffer.
LEMMA ReadsHere ==
  ASSUME TypeOK, Row \in Pages, NEW b \in Reads
  PROVE  /\ b \in [1 .. filePageSize -> Byte] /\ b \in Buffers
         /\ ~noisy => b = pageRead(store[Row])
<1>1. PICK x \in Content : b = pageRead(x) /\ (~noisy => x = store[Row])
  <2>1. store[Row] \in Content /\ Misreads \subseteq Content
    BY ReaderAssumption DEF TypeOK
  <2> QED BY <2>1 DEF Reads
<1>2. b \in [1 .. filePageSize -> Byte]
  BY <1>1, ReadsType DEF TypeOK
<1> QED BY <1>1, <1>2 DEF Buffers, filePageSize

LEMMA Stored ==
  ASSUME store \in [Pages -> Content], NEW x \in Content, NEW p \in Pages
  PROVE  [store EXCEPT ![p] = x] \in [Pages -> Content]
  OBVIOUS

LEMMA ProgramType ==
  ASSUME NEW s \in [Pages -> Content], NEW p \in Pages, NEW d \in Content
  PROVE  /\ Programmed(s[p], d) \in Content
         /\ \A c \in Cols : Programmed(s[p], d)[c] = s[p][c] \cap d[c]
         /\ \A r \in ProgramResults(s, p, d) : \E x \in Between(Programmed(s[p], d), s[p]) :
              r.pages = [s EXCEPT ![p] = x]
<1>1. Programmed(s[p], d) \in Content /\ \A c \in Cols : Programmed(s[p], d)[c] = s[p][c] \cap d[c]
  BY DEF Programmed, Content, Byte
<1>2. Programmed(s[p], d) \in Between(Programmed(s[p], d), s[p])
  BY <1>1 DEF Between
<1> QED BY <1>1, <1>2 DEF ProgramResults, Outcome

LEMMA EraseType ==
  ASSUME NEW s \in [Pages -> Content], NEW b
  PROVE  /\ Erased(s, b) \in [Pages -> Content]
         /\ \A p \in Pages : Erased(s, b)[p] = IF BlockOf(p) = b THEN Blank ELSE s[p]
         /\ \A r \in EraseResults(s, b) :
              r.pages = Erased(s, b) \/ (r.pages = s /\ ~r.ok)
<1>1. Blank \in Content
  BY DEF Blank, Content, Byte
<1>2. /\ Erased(s, b) \in [Pages -> Content]
      /\ \A p \in Pages : Erased(s, b)[p] = IF BlockOf(p) = b THEN Blank ELSE s[p]
  BY <1>1 DEF Erased
<1> QED BY <1>2 DEF EraseResults, Outcome

\* What a program leaves of the chip, whether it ends or is cut short: at most
\* its page, whose bits lie between those before and those asked for.
Reprogrammed ==
  \E x \in Content :
    /\ store' = [store EXCEPT ![Row] = x]
    /\ \A c \in Cols : store[Row][c] \cap Register(pageBuf)[c] \subseteq x[c] /\ x[c] \subseteq store[Row][c]

LEMMA ProgramChanges ==
  ASSUME TypeOK, Opened, InPlace, BufferKept, pc = "program",
         Program \/ (Interrupt /\ Writable)
  PROVE  Row \in Pages /\ Reprogrammed
<1> DEFINE d == Register(pageBuf)
           new == Programmed(store[Row], d)
<1>1. Row \in Pages /\ args \in Arguments
  BY AtPage DEF PageLoop, InPlace
<1>2. pageWritten = pageBuf /\ d \in Content
  BY <1>1, Written DEF BufferKept
<1>3. /\ new \in Content
      /\ \A c \in Cols : new[c] = store[Row][c] \cap d[c]
  BY <1>1, <1>2, ProgramType DEF TypeOK
<1>4. \E x \in Between(new, store[Row]) : store' = [store EXCEPT ![Row] = x]
  <2>1. CASE Program
    <3>1. PICK r \in ProgramResults(store, Row, Register(pageWritten)) : store' = r.pages
      BY <2>1 DEF Program
    <3>2. Register(pageWritten) = d
      BY <1>2
    <3>3. store \in [Pages -> Content]
      BY DEF TypeOK
    <3> HIDE DEF d
    <3>4. \A res \in ProgramResults(store, Row, d) :
            \E x \in Between(new, store[Row]) : res.pages = [store EXCEPT ![Row] = x]
      BY <1>1, <1>2, <3>3, ProgramType
    <3> QED BY <3>1, <3>2, <3>4
  <2>2. CASE Interrupt
    BY <1>2, <2>2 DEF Interrupt, Interrupted
  <2> QED BY <2>1, <2>2
<1>5. PICK x \in Between(new, store[Row]) : store' = [store EXCEPT ![Row] = x]
  BY <1>4
<1>6. x \in Content /\ \A c \in Cols : new[c] \subseteq x[c] /\ x[c] \subseteq store[Row][c]
  BY DEF Between
<1> HIDE DEF new
<1> QED BY <1>1, <1>3, <1>5, <1>6 DEF Reprogrammed

\* And an erase: at most the pages of its block, which are blank or as before.
ErasedOrNot ==
  store' = store \/ store' = Erased(store, address)

LEMMA EraseChanges ==
  ASSUME pc = "erase", TypeOK, EraseBlock \/ Interrupt
  PROVE  ErasedOrNot /\ (store' # store => address < EndBlock)
<1>1. CASE EraseBlock
  <2>1. address < EndBlock /\ \E r \in EraseResults(store, address) : store' = r.pages
    BY <1>1 DEF EraseBlock
  <2> QED BY <2>1, EraseType DEF ErasedOrNot, TypeOK
<1>2. CASE Interrupt
  BY <1>2 DEF Interrupt, Interrupted, ErasedOrNot
<1> QED BY <1>1, <1>2

-----------------------------------------------------------------------------
(***************************************************************************)
(* Each part of the invariant is kept by every step.                       *)
(***************************************************************************)
LEMMA TypeStep ==
  ASSUME IInv, [Next]_vars
  PROVE  TypeOK'
<1> USE DEF IInv, fixed, files, buffer
<1>t. /\ args \in Arguments /\ filePageSize \in Nat /\ filePageSize <= PageLen
      /\ endAddress <= ChipSize /\ endAddress \in Nat /\ ChipSize \in Nat /\ address \in Nat
      /\ <<>> \in Buffers /\ MaxVerifyErrors \in Nat \ {0}
      /\ PageLen * NPages \in Nat
  <2>1. <<>> \in Buffers
    <3>1. <<>> \in [1 .. 0 -> Byte]
      OBVIOUS
    <3> QED BY <3>1 DEF Buffers
  <2>2. PageLen * NPages \in Nat
    BY Sizes, Product
  <2> QED BY <2>1, <2>2, Sizes, CommandLine, ReaderAssumption DEF TypeOK
<1>1. CASE Parse
  BY <1>1 DEF Parse, ParseAction, ParseUsb, ParseUnknown, Parsed, ParseRest, TypeOK, Actions
<1>2. CASE Open
  <2>1. StartAddress \in 0 .. ChipSize \/ action = "verify" \/ ~Opens
    <3>1. CASE action = "erase" /\ Opens
      BY <1>t, <3>1, BlockHere
    <3>2. CASE action # "erase"
      BY <1>t, <3>2, CommandLine DEF StartAddress
    <3> QED BY <3>1, <3>2
  <2>2. address' \in 0 .. ChipSize
    BY <1>2, <1>t, <2>1 DEF Open
  <2>3. pc' \in Actions \cup {"exited"}
    BY <1>2 DEF Open, Opened, TypeOK
  <2> QED BY <1>2, <1>t, <2>2, <2>3, EmptySeq DEF Open, TypeOK, Actions
<1>3. CASE ReadPage \/ WriteFileFails
  <2>1. pageBuf' \in Reads /\ address < endAddress /\ pc = "read"
    BY <1>3 DEF ReadPage, WriteFileFails
  <2>2. Row \in Pages /\ address + MainLen \in 0 .. ChipSize
    BY <2>1, <1>t, AtPage, Sizes DEF PageLoop
  <2>3. pageBuf' \in [1 .. filePageSize -> Byte] /\ pageBuf' \in Buffers
    BY <2>1, <2>2, ReadsHere
  <2>4. \A n \in fileOffset .. filePageSize : SubSeq(pageBuf', fileOffset + 1, n) \in Seq(Byte)
    <3>1. \A n \in fileOffset .. filePageSize : \A i \in fileOffset + 1 .. n : pageBuf'[i] \in Byte
      BY <1>t, <2>3, CommandLine
    <3>2. \A n \in fileOffset .. filePageSize : n \in Int /\ fileOffset + 1 \in Int
      BY <1>t, CommandLine
    <3> QED BY <3>1, <3>2, SubSeqProperties
  <2>5. \E n \in fileOffset .. filePageSize : out' = out \o SubSeq(pageBuf', fileOffset + 1, n)
    <3>1. fileOffset \in Nat /\ fileOffset <= filePageSize
      BY <1>t, CommandLine
    <3>2. /\ filePageSize \in fileOffset .. filePageSize
          /\ \A n \in fileOffset .. filePageSize - 1 : n \in fileOffset .. filePageSize
      BY <1>t, <3>1
    <3>3. CASE ReadPage
      BY <3>2, <3>3, Zenon DEF ReadPage
    <3>4. CASE WriteFileFails
      BY <3>2, <3>4, Zenon DEF WriteFileFails
    <3> QED BY <1>3, <3>3, <3>4
  <2>6. out' \in Seq(Byte)
    BY <2>4, <2>5, ConcatProperties DEF TypeOK
  <2> QED BY <1>3, <2>2, <2>3, <2>6 DEF ReadPage, WriteFileFails, TypeOK
<1>4. CASE NextChunk \/ OutOfData
  <2>1. pc = "write" /\ address < endAddress
    BY <1>4 DEF NextChunk, OutOfData
  <2>2. Row \in Pages /\ address + MainLen \in 0 .. ChipSize /\ Ordinal(Row) \in Nat /\ Ordinal(Row) + 1 <= NPages
    <3>1. args.from \div MainLen \in Nat
      BY <1>t, AtPage, CommandLine, Sizes, Multiple, <2>1 DEF PageLoop, Opens, Aligned
    <3>2. /\ Row \in Pages /\ Ordinal(Row) \in Nat /\ address + MainLen <= ChipSize
          /\ address + MainLen \in Nat
      BY <2>1, <1>t, AtPage, Sizes DEF PageLoop
    <3> QED BY <1>t, <3>1, <3>2, Sizes DEF Pages, Ordinal
  <2>3. pos + filePageSize <= PageLen * NPages
    <3> DEFINE k == Ordinal(Row)
               n == filePageSize
    <3>1. pos = k * n
      BY <2>1 DEF InPlace
    <3>2. k \in Nat /\ k + 1 <= NPages /\ n \in Nat /\ n <= PageLen
      BY <1>t, <2>2
    <3> HIDE DEF k, n
    <3>3. (k + 1) * n <= NPages * n /\ NPages * n <= NPages * PageLen /\ NPages * PageLen = PageLen * NPages
      BY <3>2, Sizes, SMTT(30)
    <3>4. (k + 1) * n = k * n + n /\ NPages * n \in Nat /\ k * n \in Nat
      BY <3>2, Sizes, Product
    <3> QED BY <1>t, <3>1, <3>3, <3>4 DEF n
  <2>4. pos \in Nat /\ Len(args.file) \in Nat
    BY <1>t, CommandLine DEF TypeOK
  <2>5. CASE OutOfData
    <3>1. pos' \in 0 .. PageLen * NPages
      BY <1>t, <2>3, <2>4, <2>5 DEF OutOfData, Remaining
    <3> QED BY <2>5, <3>1 DEF OutOfData, TypeOK
  <2>6. CASE NextChunk
    <3>1. Chunk \in Buffers
      <4>1. Chunk \in [1 .. filePageSize -> Byte]
        BY <1>t, <2>1, <2>2, <2>4, <2>6, ChunkIsPart DEF NextChunk, Remaining, InPlace
      <4> QED BY <4>1 DEF Buffers, filePageSize
    <3>2. FF(filePageSize) \in Buffers
      BY <1>t, BlankSpare DEF Buffers, filePageSize
    <3>3. pos' \in 0 .. PageLen * NPages
      BY <1>t, <2>3, <2>4, <2>6 DEF NextChunk
    <3>4. pc' \in {"program", "write"} /\ address' \in 0 .. ChipSize
      BY <2>1, <2>2, <2>6 DEF NextChunk, TypeOK
    <3> QED BY <2>6, <3>1, <3>2, <3>3, <3>4 DEF NextChunk, TypeOK
  <2> QED BY <1>4, <2>5, <2>6
<1>5. CASE Program \/ (Interrupt /\ pc = "program")
  <2>1. Reprogrammed /\ pc = "program" /\ Row \in Pages
    BY <1>5, ProgramChanges DEF Program, Interrupt
  <2>2. store' \in [Pages -> Content]
    BY <2>1, Stored DEF Reprogrammed, TypeOK
  <2>3. pageWritten = pageBuf
    BY <1>t, <2>1, Written DEF BufferKept
  <2> QED BY <1>5, <2>2, <2>3 DEF Program, Interrupt, TypeOK
<1>6. CASE PageEqual \/ PageDiffers
  <2>1. pc = "compare" /\ pageBuf' \in Reads
    BY <1>6 DEF PageEqual, PageDiffers
  <2>2. Row \in Pages /\ address + MainLen \in 0 .. ChipSize
    BY <2>1, <1>t, AtPage, Sizes DEF PageLoop, InPlace
  <2>3. pageBuf' \in Buffers
    BY <2>1, <2>2, ReadsHere
  <2>4. CASE PageEqual
    BY <2>2, <2>3, <2>4 DEF PageEqual, TypeOK
  <2>5. CASE PageDiffers
    <3>1. verifyErrors # 0
      BY <2>1 DEF VerifyBudget
    <3> QED BY <1>t, <2>3, <2>5, <3>1 DEF PageDiffers, TypeOK
  <2> QED BY <1>6, <2>4, <2>5
<1>7. CASE EraseBlock \/ (Interrupt /\ pc = "erase")
  <2>1. ErasedOrNot /\ pc = "erase"
    BY <1>7, EraseChanges DEF EraseBlock
  <2>2. store' \in [Pages -> Content]
    BY <2>1, EraseType DEF ErasedOrNot, TypeOK
  <2>3. CASE EraseBlock
    <3>1. action = "erase" /\ Opens /\ address < EndBlock
      BY <2>1, <2>3 DEF EraseBlock, Opened
    <3>2. address \in Blocks /\ address + 1 \in 0 .. ChipSize
      BY <1>t, <3>1, BlockHere
    <3> QED BY <2>2, <2>3, <3>2 DEF EraseBlock, TypeOK
  <2> QED BY <1>7, <2>2, <2>3 DEF Interrupt, TypeOK
<1>8. CASE CannotWrite \/ RangeDone \/ Verify
  BY <1>8 DEF CannotWrite, RangeDone, Verify, TypeOK
<1>9. CASE Interrupt /\ pc \notin {"program", "erase"}
  BY <1>9 DEF Interrupt, Interrupted, TypeOK
<1>10. CASE Rerun
  BY <1>10, ReaderAssumption DEF Rerun, TypeOK
<1>11. CASE Finished \/ UNCHANGED vars
  BY <1>11 DEF Finished, vars, TypeOK
<1> QED BY <1>1, <1>2, <1>3, <1>4, <1>5, <1>6, <1>7, <1>8, <1>9, <1>10, <1>11 DEF Next, Step

LEMMA OpenedStep ==
  ASSUME IInv, [Next]_vars
  PROVE  Opened'
<1>1. TypeOK /\ Opened
  BY DEF IInv
<1>2. CASE Parse
  BY <1>1, <1>2 DEF Parse, ParseAction, ParseUsb, ParseUnknown, Parsed, ParseRest, Opened, PageLoop
<1>3. CASE UNCHANGED vars
  <2>1. args' = args /\ action' = action /\ pc' = pc /\ store' = store /\ initial' = initial
    BY <1>3 DEF vars, fixed
  <2>2. Opens' = Opens /\ Writable' = Writable
    BY <2>1, DerivedKept
  <2> QED BY <1>1, <2>1, <2>2 DEF Opened, PageLoop
<1>4. ASSUME pc # "parse", Step \/ Interrupt \/ Rerun
      PROVE  Opened'
  <2>1. action' = action /\ Opens' = Opens /\ Writable' = Writable
    BY <1>4, CommandKept, DerivedKept
  <2>2. CASE Open
    <3>1. action \in Actions
      BY <1>1, <2>2 DEF TypeOK, Opened, Open
    <3> QED BY <2>1, <2>2, <3>1 DEF Open, Opened, PageLoop, Actions
  <2>3. CASE ReadPage \/ WriteFileFails \/ NextChunk \/ OutOfData \/ Program \/ CannotWrite
    BY <1>1, <2>1, <2>3 DEF ReadPage, WriteFileFails, NextChunk, OutOfData, Program, CannotWrite, Opened, PageLoop
  <2>4. CASE PageEqual \/ PageDiffers
    BY <1>1, <2>1, <2>4 DEF PageEqual, PageDiffers, Opened, PageLoop
  <2>5. CASE EraseBlock \/ RangeDone \/ Verify
    BY <1>1, <2>1, <2>5 DEF EraseBlock, RangeDone, Verify, Opened, PageLoop
  <2>6. CASE Interrupt \/ Rerun
    BY <1>1, <2>1, <2>6 DEF Interrupt, Rerun, Opened, PageLoop
  <2> QED BY <1>4, <2>2, <2>3, <2>4, <2>5, <2>6 DEF Step
<1>5. Step \/ Interrupt \/ Rerun => pc # "parse"
  BY DEF Step, Open, ReadPage, WriteFileFails, NextChunk, OutOfData, Program, CannotWrite, PageEqual,
     PageDiffers, EraseBlock, RangeDone, Verify, Interrupt, Rerun
<1> QED BY <1>2, <1>3, <1>4, <1>5 DEF Next, Finished

LEMMA RowKept ==
  ASSUME address' = address
  PROVE  Row' = Row
  BY DEF Row

LEMMA InPlaceStep ==
  ASSUME IInv, [Next]_vars
  PROVE  InPlace'
<1> USE DEF PageLoop, Ended
<1>1. TypeOK /\ Opened /\ InPlace
  BY DEF IInv
<1>2. /\ args' = args /\ (pc # "parse" => action' = action) /\ filePageSize' = filePageSize
      /\ endAddress' = endAddress /\ \A p : (Ordinal(p))' = Ordinal(p)
  BY CommandKept, DerivedKept
<1>3. /\ filePageSize \in Nat /\ endAddress \in Nat /\ args.from \in Nat /\ address \in Nat
      /\ pos \in Nat /\ Len(args.file) \in Nat
  BY <1>1, CommandLine DEF TypeOK
<1>4. CASE Parse
  BY <1>2, <1>4 DEF Parse, ParseAction, ParseUsb, ParseUnknown, Parsed, InPlace
<1>5. CASE Open
  <2>1. CASE pc' \in {"read", "write"}
    <3>1. Opens /\ action \in {"read", "write"} /\ address' = args.from /\ pos' = 0
      BY <1>1, <1>5, <2>1 DEF Open, StartAddress
    <3>2. args.from % MainLen = 0
      BY <3>1 DEF Opens, Aligned
    <3>3. pos' = (Ordinal(Row))' * filePageSize'
      <4>1. (Ordinal(Row))' = 0
        <5>1. args.from \div MainLen \in Nat
          BY <1>3, <3>2, Sizes, Multiple
        <5>2. (Ordinal(Row))' = args.from \div MainLen - args.from \div MainLen
          BY <1>2, <3>1 DEF Ordinal, Row
        <5> QED BY <5>1, <5>2
      <4> QED BY <1>2, <1>3, <3>1, <4>1
    <3> QED BY <1>2, <1>3, <1>5, <2>1, <3>1, <3>2, <3>3 DEF InPlace, Open
  <2>2. CASE pc' \notin {"read", "write"}
    BY <1>1, <1>2, <1>5, <2>2 DEF Open, InPlace, TypeOK, Actions
  <2> QED BY <2>1, <2>2
<1>6. CASE ReadPage \/ PageEqual \/ NextChunk
  <2>1. pc \in {"read", "write", "compare"} /\ address < endAddress
    BY <1>1, <1>6 DEF ReadPage, PageEqual, NextChunk, InPlace
  <2>2. /\ Row \in Nat /\ Ordinal(Row) \in Nat
        /\ (address + MainLen) % MainLen = 0 /\ (address + MainLen) \div MainLen = Row + 1
        /\ address + MainLen <= endAddress /\ args.from <= address /\ address % MainLen = 0
    BY <1>1, <2>1, AtPage
  <2>3. MainLen \in Nat
    BY Sizes
  <2>4. CASE ReadPage
    BY <1>2, <1>3, <2>1, <2>2, <2>3, <2>4 DEF ReadPage, InPlace
  <2>5. address' = address + MainLen => (Ordinal(Row))' = Ordinal(Row) + 1
    <3>1. args.from \div MainLen \in Nat
      BY <1>1, <1>3, <2>1, Sizes, Multiple DEF Opened, Opens, Aligned
    <3> QED BY <1>2, <2>2, <3>1 DEF Ordinal, Row
  <2>6. CASE PageEqual
    <3>1. pc = "compare" /\ pc' = "write" /\ address' = address + MainLen /\ pos' = pos
      BY <2>6 DEF PageEqual, files
    <3>2. pos' = (Ordinal(Row))' * filePageSize' /\ pos' <= Len(args'.file)
      BY <1>1, <1>2, <2>5, <3>1 DEF InPlace
    <3> QED BY <1>2, <1>3, <2>2, <2>3, <3>1, <3>2 DEF InPlace
  <2>7. CASE NextChunk
    <3>1. pos = Ordinal(Row) * filePageSize /\ pos + filePageSize <= Len(args.file)
      BY <1>1, <1>3, <2>7 DEF NextChunk, InPlace, Remaining
    <3>2. pos + filePageSize = (Ordinal(Row) + 1) * filePageSize
      BY <1>1, <2>2, <3>1, ChunkIsPart DEF TypeOK
    <3>3. address' = address => (Ordinal(Row))' = Ordinal(Row)
      BY <1>2, RowKept
    <3>4. CASE pc' = "write"
      <4>1. address' = address + MainLen /\ pos' = pos + filePageSize
        BY <2>7, <3>4 DEF NextChunk
      <4>2. pos' = (Ordinal(Row))' * filePageSize' /\ pos' <= Len(args'.file)
        BY <1>2, <2>5, <3>1, <3>2, <4>1
      <4> QED BY <1>2, <1>3, <2>2, <2>3, <3>4, <4>1, <4>2 DEF InPlace
    <3>5. CASE pc' = "program"
      <4>1. address' = address /\ pos' = pos + filePageSize
        BY <2>7, <3>5 DEF NextChunk
      <4>2. pos' = ((Ordinal(Row))' + 1) * filePageSize' /\ pos' <= Len(args'.file)
        BY <1>2, <3>1, <3>2, <3>3, <4>1
      <4> QED BY <1>2, <1>3, <2>1, <2>2, <3>5, <4>1, <4>2 DEF InPlace
    <3> QED BY <2>7, <3>4, <3>5 DEF NextChunk
  <2> QED BY <1>6, <2>4, <2>6, <2>7
<1>7. CASE WriteFileFails \/ OutOfData \/ Program \/ CannotWrite \/ PageDiffers \/ RangeDone \/ Interrupt
  <2>1. address' = address /\ pc # "parse"
    BY <1>7 DEF WriteFileFails, OutOfData, Program, CannotWrite, PageDiffers, RangeDone, Interrupt
  <2>2. (Ordinal(Row))' = Ordinal(Row)
    BY <1>2, <2>1, RowKept
  <2> QED BY <1>1, <1>2, <1>7, <2>1, <2>2
       DEF WriteFileFails, OutOfData, Program, CannotWrite, PageDiffers, RangeDone, Interrupt, InPlace, Opened, files
<1>8. CASE EraseBlock \/ Verify \/ Rerun
  BY <1>2, <1>8 DEF EraseBlock, Verify, Rerun, InPlace
<1>9. CASE Finished \/ UNCHANGED vars
  <2>1. UNCHANGED vars
    BY <1>9 DEF Finished
  <2>2. (Ordinal(Row))' = Ordinal(Row)
    BY <1>2, <2>1, RowKept DEF vars
  <2> QED BY <1>1, <1>2, <2>1, <2>2 DEF vars, files, fixed, InPlace
<1> QED BY <1>4, <1>5, <1>6, <1>7, <1>8, <1>9 DEF Next, Step

\* The steps that leave the pages as they are.
LEMMA StoreKept ==
  ASSUME [Next]_vars, store' # store
  PROVE  \/ pc = "program" /\ (Program \/ (Interrupt /\ Writable))
         \/ pc = "erase" /\ (EraseBlock \/ Interrupt)
<1> USE DEF Next, Step, fixed
<1>1. CASE Parse
  BY <1>1 DEF Parse, ParseAction, ParseUsb, ParseUnknown, Parsed, ParseRest
<1>2. CASE Interrupt
  BY <1>2 DEF Interrupt, Interrupted
<1>3. CASE Step
  BY <1>3 DEF Open, ReadPage, WriteFileFails, NextChunk, OutOfData, Program, CannotWrite, PageEqual,
       PageDiffers, EraseBlock, RangeDone, Verify
<1> QED BY <1>1, <1>2, <1>3 DEF Rerun, Finished, vars

LEMMA BlockInPlaceStep ==
  ASSUME IInv, [Next]_vars
  PROVE  BlockInPlace'
<1> USE DEF Ended
<1>1. TypeOK /\ Opened /\ BlockInPlace
  BY DEF IInv
<1>2. pc # "parse" /\ action = "erase" /\ Opens => StartAddress \in Nat /\ EndBlock \in Nat
  BY <1>1, BlockHere DEF TypeOK
<1>3. args' = args /\ (pc # "parse" => action' = action)
  BY CommandKept
<1>4. address \in Nat
  BY <1>1, Sizes DEF TypeOK
<1>5. CASE pc = "parse" \/ UNCHANGED vars
  <2>1. CASE pc = "parse" /\ Parse
    BY <2>1 DEF Parse, ParseAction, ParseUsb, ParseUnknown, Parsed, ParseRest, BlockInPlace
  <2>2. CASE UNCHANGED vars
    <3>1. pc' = pc /\ action' = action /\ address' = address
      BY <2>2 DEF vars, fixed
    <3> QED BY <1>1, <1>3, <3>1, DerivedKept DEF BlockInPlace
  <2> QED BY <1>5, <2>1, <2>2 DEF Next, Step, Open, ReadPage, WriteFileFails, NextChunk, OutOfData,
       Program, CannotWrite, PageEqual, PageDiffers, EraseBlock, RangeDone, Verify, Interrupt, Rerun, Finished
<1>6. ASSUME pc # "parse", Step \/ Interrupt \/ Rerun
      PROVE  BlockInPlace'
  <2>1. action' = action /\ StartAddress' = StartAddress /\ EndBlock' = EndBlock
    BY <1>3, <1>6, DerivedKept
  <2>2. CASE Open
    BY <1>2, <1>3, <2>1, <2>2, <1>6, <1>1 DEF Open, BlockInPlace, TypeOK, Actions, StartAddress
  <2>3. CASE EraseBlock
    BY <1>1, <1>2, <1>4, <2>1, <2>3, <1>6 DEF EraseBlock, BlockInPlace, Opened
  <2>4. CASE RangeDone
    BY <1>1, <1>2, <1>4, <2>1, <2>4, <1>6 DEF RangeDone, BlockInPlace, Opened
  <2>5. CASE ReadPage \/ WriteFileFails \/ NextChunk \/ OutOfData \/ Program \/ CannotWrite
    BY <1>1, <2>1, <2>5 DEF ReadPage, WriteFileFails, NextChunk, OutOfData, Program, CannotWrite,
         BlockInPlace, Opened
  <2>6. CASE PageEqual \/ PageDiffers \/ Verify \/ Interrupt \/ Rerun
    BY <1>1, <2>1, <2>6 DEF PageEqual, PageDiffers, Verify, Interrupt, Rerun, BlockInPlace, Opened
  <2> QED BY <1>6, <2>2, <2>3, <2>4, <2>5, <2>6 DEF Step
<1> QED BY <1>5, <1>6 DEF Next, Finished, Parse, ParseAction, ParseUsb, ParseUnknown, Parsed

LEMMA VerifyBudgetStep ==
  ASSUME IInv, [Next]_vars
  PROVE  VerifyBudget'
<1>1. TypeOK /\ VerifyBudget /\ MaxVerifyErrors # 0
  BY ReaderAssumption DEF IInv
<1>2. CASE Parse
  BY <1>2 DEF Parse, ParseAction, ParseUsb, ParseUnknown, Parsed, VerifyBudget
<1>3. CASE Step
  BY <1>1, <1>3 DEF Step, Open, ReadPage, WriteFileFails, NextChunk, OutOfData, Program, CannotWrite,
       PageEqual, PageDiffers, EraseBlock, RangeDone, Verify, VerifyBudget
<1>4. CASE Interrupt \/ Rerun
  BY <1>4 DEF Interrupt, Rerun, VerifyBudget
<1>5. CASE UNCHANGED vars
  BY <1>1, <1>5 DEF vars, VerifyBudget
<1> QED BY <1>2, <1>3, <1>4, <1>5 DEF Next, Finished

LEMMA OnlyRangeStep ==
  ASSUME IInv, [Next]_vars
  PROVE  OnlyRange'
<1>1. TypeOK /\ Opened /\ InPlace /\ BlockInPlace /\ BufferKept /\ OnlyRange
  BY DEF IInv
<1>2. /\ initial' = initial /\ \A p : (InRange(p))' = InRange(p)
      /\ pc # "parse" => action' = action
  BY CommandKept, DerivedKept
<1>3. CASE store' = store
  <2>1. CASE pc = "parse"
    BY <1>1, <1>2, <1>3, <2>1 DEF Opened, OnlyRange
  <2>2. CASE pc # "parse"
    BY <1>1, <1>2, <1>3, <2>2 DEF OnlyRange
  <2> QED BY <2>1, <2>2
<1>4. CASE pc = "program" /\ store' # store
  <2>1. Reprogrammed /\ Row \in Pages /\ InRange(Row) /\ action = "write"
    BY <1>1, <1>4, StoreKept, ProgramChanges, AtPage DEF PageLoop, InPlace, Opened
  <2>2. \A p \in Pages : p # Row => store'[p] = store[p]
    BY <1>1, <2>1 DEF Reprogrammed, TypeOK
  <2> QED BY <1>1, <1>2, <1>4, <2>1, <2>2 DEF OnlyRange
<1>5. CASE pc = "erase" /\ store' # store
  <2>1. ErasedOrNot /\ address < EndBlock /\ action = "erase" /\ Opens /\ StartAddress <= address
    BY <1>1, <1>5, StoreKept, EraseChanges DEF Opened, BlockInPlace
  <2>2. \A p \in Pages : store'[p] # store[p] => BlockOf(p) = address
    BY <1>1, <2>1, EraseType DEF ErasedOrNot, TypeOK
  <2>3. \A p \in Pages : BlockOf(p) = address => InRange(p)
    BY <1>1, <2>1, BlockHere DEF TypeOK
  <2> QED BY <1>1, <1>2, <1>5, <2>1, <2>2, <2>3 DEF OnlyRange
<1> QED BY <1>3, <1>4, <1>5, StoreKept

LEMMA ErasedStep ==
  ASSUME IInv, [Next]_vars
  PROVE  ErasedSoFar'
<1> USE DEF Ended
<1>1. TypeOK /\ Opened /\ ErasedSoFar /\ BlockInPlace
  BY DEF IInv
<1>2. args' = args /\ (pc # "parse" => action' = action)
  BY CommandKept
<1>3. \A p \in Pages : BlockOf(p) \in Int
  BY Sizes DEF Pages, BlockOf
<1>4. address \in Nat
  BY <1>1, Sizes DEF TypeOK
<1>5. CASE EraseBlock
  <2>1. /\ pc = "erase" /\ action = "erase" /\ Opens /\ pc' = pc /\ address' = address + 1
    BY <1>1, <1>5 DEF EraseBlock, Opened
  <2>2. StartAddress' = StartAddress
    BY <1>2, <2>1, DerivedKept
  <2>3. PICK r \in EraseResults(store, address) :
          store' = r.pages /\ notErased' = IF r.ok THEN notErased ELSE notErased \cup {address}
    BY <1>5 DEF EraseBlock
  <2>4. ASSUME NEW p \in Pages, StartAddress <= BlockOf(p), BlockOf(p) < address + 1
        PROVE  store'[p] = Blank \/ BlockOf(p) \in notErased'
    <3>1. CASE BlockOf(p) = address
      BY <1>1, <2>3, <2>4, <3>1, EraseType DEF TypeOK
    <3>2. CASE BlockOf(p) # address
      <4>1. store[p] = Blank \/ BlockOf(p) \in notErased
        BY <1>1, <1>3, <1>4, <2>1, <2>4, <3>2 DEF ErasedSoFar
      <4>2. store'[p] = store[p]
        BY <1>1, <2>3, <3>2, EraseType DEF TypeOK
      <4> QED BY <2>3, <4>1, <4>2
    <3> QED BY <3>1, <3>2
  <2> QED BY <2>1, <2>2, <2>4 DEF ErasedSoFar
<1>6. CASE RangeDone
  <2>1. pc # "parse" /\ (pc' = "done" /\ action = "erase" => pc = "erase")
    BY <1>1, <1>6 DEF RangeDone, Opened
  <2>2. UNCHANGED <<store, address, notErased, action>> /\ StartAddress' = StartAddress
    BY <1>2, <1>6, <2>1, DerivedKept DEF RangeDone, fixed
  <2> QED BY <1>1, <1>6, <2>1, <2>2 DEF RangeDone, ErasedSoFar
<1>7. CASE Open
  <2>1. pc' = "erase" => address' = StartAddress /\ StartAddress' = StartAddress
    BY <1>1, <1>2, <1>7, DerivedKept DEF Open, Opened
  <2>2. pc' # "done"
    BY <1>1, <1>7 DEF Open, Opened, TypeOK, Actions
  <2> HIDE DEF Ended
  <2>3. CASE pc' = "erase"
    <3>1. StartAddress \in Int
      <4>1. pc = "open" /\ action = "erase" /\ Opens
        BY <1>1, <1>7, <2>3 DEF Open, Opened, TypeOK
      <4> QED BY <1>1, <4>1, BlockHere DEF TypeOK
    <3> QED BY <1>3, <2>1, <2>3, <3>1 DEF ErasedSoFar
  <2> QED BY <2>2, <2>3 DEF ErasedSoFar, Ended
<1>8. CASE Parse \/ ReadPage \/ WriteFileFails \/ NextChunk \/ OutOfData \/ Program
  BY <1>1, <1>2, <1>8 DEF Parse, ParseAction, ParseUsb, ParseUnknown, Parsed, ReadPage, WriteFileFails,
       NextChunk, OutOfData, Program, Opened, ErasedSoFar
<1>9. CASE CannotWrite \/ PageEqual \/ PageDiffers \/ Verify \/ Interrupt \/ Rerun
  BY <1>1, <1>2, <1>9 DEF CannotWrite, PageEqual, PageDiffers, Verify, Interrupt, Rerun, Opened, ErasedSoFar
<1>10. CASE UNCHANGED vars
  <2>1. UNCHANGED <<store, address, notErased, action, pc>>
    BY <1>10 DEF vars, fixed
  <2> QED BY <1>1, <1>2, <2>1, DerivedKept DEF ErasedSoFar
<1> QED BY <1>5, <1>6, <1>7, <1>8, <1>9, <1>10 DEF Next, Step, Finished

LEMMA RegisterIs ==
  ASSUME NEW n \in 0 .. PageLen, NEW b \in [1 .. n -> Byte], NEW c \in Cols
  PROVE  Register(b)[c] = (IF c <= n THEN b[c] ELSE Bits) /\ Register(b)[c] \subseteq Bits
<1>1. n \in Nat /\ Len(b) = n
  BY Sizes
<1>2. c <= n => b[c] \in Byte
  BY Sizes DEF Cols
<1> QED BY <1>1, <1>2 DEF Register, Byte

LEMMA BufferStep ==
  ASSUME IInv, [Next]_vars
  PROVE  BufferKept'
<1>1. TypeOK /\ Opened /\ InPlace /\ BufferKept /\ ClearsOnlyItsChunk
  BY DEF IInv
<1>2. /\ args' = args /\ initial' = initial /\ noisy' = noisy /\ filePageSize' = filePageSize
      /\ \A p, n : (Part(p, n))' = Part(p, n)
      /\ address' = address => Row' = Row
  BY CommandKept, DerivedKept, RowKept
<1>3. args \in Arguments /\ filePageSize \in Nat \ {0} /\ filePageSize <= PageLen
  BY <1>1, CommandLine DEF TypeOK
<1>4. CASE NextChunk
  <2>1. /\ pc = "write" /\ address < endAddress /\ pageBuf' = Chunk /\ Remaining >= filePageSize
        /\ pc' = "program" => address' = address
        /\ pc' # "compare"
    BY <1>4 DEF NextChunk
  <2>2. Ordinal(Row) \in Nat /\ pos = Ordinal(Row) * filePageSize
    BY <1>1, <2>1, AtPage DEF PageLoop, InPlace
  <2>3. pos + filePageSize <= Len(args.file)
    BY <1>1, <1>3, <2>1, CommandLine DEF Remaining, TypeOK
  <2>4. Chunk = Part(Row, filePageSize) /\ Chunk \in [1 .. filePageSize -> Byte]
    BY <1>3, <2>2, <2>3, ChunkIsPart
  <2>5. pc' = "program" =>
          pageBuf' = (Part(Row, filePageSize))' /\ (pageBuf \in [1 .. filePageSize -> Byte])'
    BY <1>2, <2>1, <2>4
  <2>6. (Register(Part(Row, filePageSize)))' = (Register(pageBuf))' \/ pc' # "program"
    BY <2>5 DEF Register
  <2> QED BY <2>1, <2>5, <2>6 DEF BufferKept
<1>5. CASE Program
  <2>1. pc = "program" /\ pc' = "compare" /\ tmpBuf' = pageBuf /\ UNCHANGED <<address, verifyErrors>>
    BY <1>1, <1>3, <1>5, Written DEF Program, BufferKept
  <2> QED BY <1>1, <1>2, <2>1 DEF BufferKept
<1>6. CASE PageDiffers
  <2>1. /\ pc = "compare" /\ Writable /\ pageBuf' \in Reads /\ action = "write"
        /\ address' = address /\ pc' # "compare"
    BY <1>1, <1>6 DEF PageDiffers, Opened
  <2>2. verifyErrors' # MaxVerifyErrors
    BY <1>1, <1>6, ReaderAssumption DEF PageDiffers, TypeOK
  <2>3. Row \in Pages /\ address < endAddress /\ InRange(Row)
    BY <1>1, <2>1, AtPage DEF PageLoop, InPlace
  <2>4. pageBuf' \in [1 .. filePageSize -> Byte] /\ (~noisy => pageBuf' = pageRead(store[Row]))
    BY <1>1, <2>1, <2>3, ReadsHere
  <2>5. pageRead(store[Row]) = Prefix(store[Row], filePageSize)
    BY <1>1, <1>3, <2>1, <2>3, ReadsType DEF Writable, TypeOK
  <2>6. ASSUME NEW c \in Cols, ~noisy
        PROVE  initial[Row][c] \cap Register(Part(Row, filePageSize))[c] \subseteq Register(pageBuf')[c]
    <3>1. HasPart(Row, filePageSize)
      BY <1>1, <2>1, <2>3 DEF InPlace, HasPart
    <3>2. initial[Row][c] \cap Register(Part(Row, filePageSize))[c] \subseteq store[Row][c]
      BY <1>1, <2>1, <2>3, <2>6, <3>1 DEF ClearsOnlyItsChunk
    <3>3. initial[Row][c] \subseteq Bits
      BY <1>1, <2>3, ReaderAssumption DEF TypeOK, Content, Byte
    <3>4. Register(pageBuf')[c] = IF c <= filePageSize THEN pageBuf'[c] ELSE Bits
      BY <1>3, <2>4, Sizes, RegisterIs
    <3>5. c <= filePageSize => pageBuf'[c] = store[Row][c]
      BY <1>3, <2>4, <2>5, <2>6 DEF Prefix, Cols
    <3> QED BY <3>2, <3>3, <3>4, <3>5
  <2>7. /\ Row' = Row
        /\ (Part(Row, filePageSize))' = Part(Row, filePageSize)
        /\ (Register(Part(Row, filePageSize)))' = Register(Part(Row, filePageSize))
        /\ (Register(pageBuf))' = Register(pageBuf')
    BY <1>2, <2>1 DEF Register
  <2> QED BY <1>2, <2>1, <2>2, <2>4, <2>6, <2>7 DEF BufferKept
<1>7. CASE UNCHANGED vars
  <2>1. UNCHANGED <<pc, address, pageBuf, tmpBuf, verifyErrors>>
    BY <1>7 DEF vars, buffer
  <2>2. /\ (Part(Row, filePageSize))' = Part(Row, filePageSize)
        /\ (Register(Part(Row, filePageSize)))' = Register(Part(Row, filePageSize))
        /\ (Register(pageBuf))' = Register(pageBuf)
    BY <1>2, <2>1 DEF Register
  <2> QED BY <1>1, <1>2, <2>1, <2>2 DEF BufferKept
<1>8. CASE Parse \/ Open \/ ReadPage \/ WriteFileFails \/ OutOfData \/ CannotWrite
  BY <1>1, <1>8 DEF Parse, ParseAction, ParseUsb, ParseUnknown, Parsed, Open, ReadPage, WriteFileFails,
       OutOfData, CannotWrite, BufferKept, TypeOK, Actions
<1>9. CASE PageEqual \/ EraseBlock \/ RangeDone \/ Verify \/ Interrupt \/ Rerun
  BY <1>9 DEF PageEqual, EraseBlock, RangeDone, Verify, Interrupt, Rerun, BufferKept
<1> QED BY <1>4, <1>5, <1>6, <1>7, <1>8, <1>9 DEF Next, Step, Finished

LEMMA ClearsStep ==
  ASSUME IInv, [Next]_vars
  PROVE  ClearsOnlyItsChunk'
<1>1. TypeOK /\ Opened /\ InPlace /\ BufferKept /\ ClearsOnlyItsChunk
  BY DEF IInv
<1>2. /\ args' = args /\ initial' = initial /\ noisy' = noisy /\ filePageSize' = filePageSize
      /\ pc # "parse" => action' = action
      /\ \A p, n : (Part(p, n))' = Part(p, n) /\ (HasPart(p, n))' = HasPart(p, n)
  BY CommandKept, DerivedKept
<1>3. \A p : (Register(Part(p, filePageSize)))' = Register(Part(p, filePageSize))
  BY <1>2 DEF Register
<1>4. CASE store' = store
  <2>1. CASE pc = "parse"
    <3>1. store = initial /\ store' = initial'
      BY <1>1, <1>2, <1>4, <2>1 DEF Opened
    <3> QED BY <3>1 DEF ClearsOnlyItsChunk
  <2>2. CASE pc # "parse"
    BY <1>1, <1>2, <1>3, <1>4, <2>2 DEF ClearsOnlyItsChunk
  <2> QED BY <2>1, <2>2
<1>5. CASE pc = "program" /\ store' # store
  <2>1. Reprogrammed /\ Row \in Pages /\ InRange(Row) /\ address < endAddress /\ action = "write" /\ action' = action
    BY <1>1, <1>2, <1>5, StoreKept, ProgramChanges, AtPage DEF PageLoop, InPlace, Opened
  <2>2. HasPart(Row, filePageSize)
    BY <1>1, <1>5, <2>1 DEF InPlace, HasPart
  <2>3. ASSUME NEW p \in Pages, NEW c \in Cols, ~noisy
        PROVE  (IF HasPart(p, filePageSize)
                THEN initial[p][c] \cap Register(Part(p, filePageSize))[c]
                ELSE initial[p][c]) \subseteq store'[p][c]
    <3>1. (IF HasPart(p, filePageSize)
           THEN initial[p][c] \cap Register(Part(p, filePageSize))[c]
           ELSE initial[p][c]) \subseteq store[p][c]
      BY <1>1, <2>1, <2>3 DEF ClearsOnlyItsChunk
    <3>2. CASE p = Row
      <4>1. store[Row][c] \cap Register(pageBuf)[c] \subseteq store'[Row][c]
        BY <1>1, <2>1, Stored DEF Reprogrammed, TypeOK
      <4>2. initial[Row][c] \cap Register(Part(Row, filePageSize))[c] \subseteq Register(pageBuf)[c]
        BY <1>1, <1>5, <2>3 DEF BufferKept
      <4> QED BY <2>2, <3>1, <3>2, <4>1, <4>2
    <3>3. CASE p # Row
      <4>1. store'[p] = store[p]
        BY <1>1, <2>1, <3>3 DEF Reprogrammed, TypeOK
      <4> QED BY <3>1, <4>1
    <3> QED BY <3>2, <3>3
  <2> QED BY <1>2, <1>3, <2>1, <2>3 DEF ClearsOnlyItsChunk
<1>6. CASE pc = "erase" /\ store' # store
  BY <1>1, <1>2, <1>6 DEF Opened, ClearsOnlyItsChunk
<1> QED BY <1>4, <1>5, <1>6, StoreKept

\* A page more has been gone past.
LEMMA PassedHere ==
  ASSUME TypeOK, Opened, InPlace, PageLoop, NEW p \in Pages
  PROVE  /\ p * MainLen < address <=> p < Row
         /\ p * MainLen < address + MainLen <=> p < Row \/ p = Row
<1>1. p \in Nat /\ Row \in Nat /\ address = Row * MainLen /\ MainLen \in Nat \ {0}
  BY AtPage, Sizes DEF Pages
<1>2. /\ p * MainLen < Row * MainLen <=> p < Row
      /\ p * MainLen < (Row + 1) * MainLen <=> p < Row + 1
  <2>1. \A a \in Nat, b \in Nat : a * MainLen < b * MainLen <=> a < b
    BY <1>1, SMTT(30)
  <2> QED BY <1>1, <2>1
<1>3. address + MainLen = (Row + 1) * MainLen
  BY <1>1, Product
<1>4. p < Row + 1 <=> p < Row \/ p = Row
  BY <1>1
<1> QED BY <1>1, <1>2, <1>3, <1>4

LEMMA MatchesStep ==
  ASSUME IInv, [Next]_vars
  PROVE  MatchesSoFar'
<1>1. TypeOK /\ Opened /\ InPlace /\ BufferKept /\ MatchesSoFar
  BY DEF IInv
<1>2. /\ args' = args /\ noisy' = noisy /\ filePageSize' = filePageSize
      /\ pc # "parse" => action' = action
      /\ \A p, n : (Part(p, n))' = Part(p, n)
      /\ \A p : (InRange(p))' = InRange(p)
      /\ endAddress' = endAddress
  BY CommandKept, DerivedKept
<1>3. args \in Arguments /\ filePageSize \in Nat \ {0} /\ filePageSize <= PageLen
  BY <1>1, CommandLine DEF TypeOK
<1> DEFINE Here == pc \in {"write", "program", "compare", "done"} /\ action = "write"
                   /\ verifyErrors = MaxVerifyErrors /\ ~noisy
           Held(p) == Part(p, filePageSize) # FF(filePageSize)
                        => Prefix(store[p], filePageSize) = Part(p, filePageSize)
<1>4. ASSUME Here, NEW p \in Pages, Passed(p)
      PROVE  Held(p)
  BY <1>1, <1>4 DEF MatchesSoFar
<1>5. CASE NextChunk \/ PageEqual
  <2>1. /\ pc \in {"write", "compare"} /\ address < endAddress /\ UNCHANGED <<store, verifyErrors>>
        /\ action = "write" /\ action' = "write"
    BY <1>1, <1>2, <1>5 DEF NextChunk, PageEqual, Opened, InPlace
  <2>2. Row \in Pages /\ Ordinal(Row) \in Nat
    BY <1>1, <2>1, AtPage DEF PageLoop
  <2>3. verifyErrors = MaxVerifyErrors /\ ~noisy /\ address' = address + MainLen => Held(Row)
    <3>1. CASE NextChunk
      <4>1. address' = address + MainLen => Chunk = FF(filePageSize)
        <5>1. address \in Nat /\ MainLen \in Nat \ {0}
          BY <1>1, Sizes DEF TypeOK
        <5> QED BY <3>1, <5>1 DEF NextChunk
      <4>2. pos = Ordinal(Row) * filePageSize /\ pos + filePageSize <= Len(args.file)
        BY <1>1, <1>3, <3>1, CommandLine DEF NextChunk, Remaining, InPlace, TypeOK
      <4>3. Chunk = Part(Row, filePageSize)
        BY <1>3, <2>2, <4>2, ChunkIsPart
      <4> QED BY <4>1, <4>3
    <3>2. CASE PageEqual
      <4>1. pc = "compare" /\ Writable /\ pageBuf' \in Reads /\ pageBuf' = tmpBuf
        BY <1>1, <3>2 DEF PageEqual, Opened
      <4>2. ~noisy => pageBuf' = pageRead(store[Row])
        BY <1>1, <2>2, <4>1, ReadsHere
      <4>3. pageRead(store[Row]) = Prefix(store[Row], filePageSize)
        BY <1>1, <1>3, <2>2, <4>1, ReadsType DEF Writable, TypeOK
      <4> QED BY <1>1, <4>1, <4>2, <4>3 DEF BufferKept
    <3> QED BY <1>5, <3>1, <3>2
  <2>4. ASSUME verifyErrors = MaxVerifyErrors, ~noisy, NEW p \in Pages, (Passed(p))'
        PROVE  Held(p)
    <3>1. InRange(p) /\ p * MainLen < address'
      BY <1>2, <2>4 DEF Passed
    <3>2. CASE address' = address
      BY <1>4, <2>1, <2>4, <3>1, <3>2 DEF Passed
    <3>3. CASE address' = address + MainLen
      <4>1. p * MainLen < address \/ p = Row
        BY <1>1, <2>1, <3>1, <3>3, PassedHere DEF PageLoop
      <4> QED BY <1>4, <2>1, <2>3, <2>4, <3>1, <3>3, <4>1 DEF Passed
    <3> QED BY <1>5, <3>2, <3>3 DEF NextChunk, PageEqual
  <2>5. FF(filePageSize)' = FF(filePageSize)
    BY <1>2 DEF FF
  <2> QED BY <1>2, <2>1, <2>4, <2>5 DEF MatchesSoFar
<1>6. CASE Program
  <2>1. Reprogrammed /\ Row \in Pages /\ pc = "program" /\ action = "write" /\ action' = "write"
        /\ UNCHANGED <<address, verifyErrors>>
    BY <1>1, <1>2, <1>6, ProgramChanges DEF Program, Opened
  <2>2. ASSUME Here, NEW p \in Pages, Passed(p)
        PROVE  Prefix(store'[p], filePageSize) = Prefix(store[p], filePageSize)
    <3>1. p < Row
      BY <1>1, <2>1, <2>2, PassedHere DEF PageLoop, Passed
    <3>2. p # Row
      BY <2>1, <2>2, <3>1 DEF Pages
    <3>3. store'[p] = store[p]
      BY <1>1, <2>1, <3>2 DEF Reprogrammed, TypeOK
    <3> QED BY <3>3 DEF Prefix
  <2>3. (FF(filePageSize))' = FF(filePageSize) /\ \A p : (Passed(p))' = Passed(p)
    BY <1>2, <2>1 DEF FF, Passed
  <2> QED BY <1>2, <1>4, <2>1, <2>2, <2>3 DEF MatchesSoFar
<1>7. CASE Open
  <2>1. pc' # "done" /\ (pc' = "write" => address' = args.from)
    BY <1>1, <1>7 DEF Open, Opened, TypeOK, Actions, StartAddress
  <2>2. ASSUME NEW p \in Pages, address' = args.from
        PROVE  ~(Passed(p))'
    <3>1. args.from \in Nat /\ p * MainLen \in Nat
      BY <1>3, CommandLine, Sizes, Product DEF Pages
    <3> QED BY <1>2, <2>2, <3>1 DEF Passed, InRange
  <2>3. pc' \in {"read", "verify", "write", "erase", "none", "exited"}
    BY <1>1, <1>7 DEF Open, TypeOK, Actions
  <2> QED BY <2>1, <2>2, <2>3 DEF MatchesSoFar
<1>8. CASE PageDiffers
  BY <1>1, <1>8, ReaderAssumption DEF PageDiffers, MatchesSoFar, TypeOK
<1>9. CASE OutOfData \/ RangeDone \/ UNCHANGED vars
  <2>1. UNCHANGED <<store, address, verifyErrors>> /\ (pc' = pc \/ pc' = "done")
    BY <1>9 DEF OutOfData, RangeDone, vars
  <2>2. pc' # pc => (pc = "write" \/ action' # "write")
    BY <1>1, <1>2, <1>9 DEF OutOfData, RangeDone, Opened, vars
  <2>3. action' = action \/ pc' \notin {"write", "program", "compare", "done"}
    BY <1>2, <1>9 DEF OutOfData, RangeDone, vars, fixed
  <2>4. (FF(filePageSize))' = FF(filePageSize) /\ \A p : (Passed(p))' = Passed(p) /\ (Held(p))' = Held(p)
    BY <1>2, <2>1 DEF FF, Passed, Prefix
  <2> QED BY <1>2, <1>4, <2>1, <2>2, <2>3, <2>4 DEF MatchesSoFar
<1>10. CASE Parse \/ ReadPage \/ WriteFileFails \/ CannotWrite \/ EraseBlock
  BY <1>1, <1>2, <1>10 DEF Parse, ParseAction, ParseUsb, ParseUnknown, Parsed, ReadPage, WriteFileFails,
       CannotWrite, EraseBlock, Opened, MatchesSoFar
<1>11. CASE Verify \/ Interrupt \/ Rerun
  BY <1>11 DEF Verify, Interrupt, Rerun, MatchesSoFar
<1> QED BY <1>5, <1>6, <1>7, <1>8, <1>9, <1>10, <1>11 DEF Next, Step, Finished

-----------------------------------------------------------------------------
(***************************************************************************)
(* What a read appends to its file.                                        *)
(***************************************************************************)
LEMMA SubSeqWhole ==
  ASSUME NEW n \in Nat, NEW s \in [1 .. n -> Byte]
  PROVE  s \in Seq(Byte) /\ Len(s) = n /\ SubSeq(s, 1, n) = s
<1>1. s \in Seq(Byte) /\ Len(s) = n
  OBVIOUS
<1>2. \A i \in 1 .. n : s[0 + i] \in Byte
  OBVIOUS
<1>3. SubSeq(s, 0 + 1, 0 + n) = [i \in 1 .. n |-> s[0 + i]]
  BY <1>2, SubSeqIs
<1> QED BY <1>1, <1>3

LEMMA Appended ==
  ASSUME NEW s \in Seq(Byte), NEW w \in Seq(Byte)
  PROVE  /\ s \o w \in Seq(Byte) /\ Len(s \o w) = Len(s) + Len(w)
         /\ SubSeq(s \o w, Len(s) + 1, Len(s) + Len(w)) = w
         /\ \A a \in Nat, n \in Nat : a + n <= Len(s) =>
              SubSeq(s \o w, a + 1, a + n) = SubSeq(s, a + 1, a + n)
<1> DEFINE t == s \o w
<1>1. /\ t \in Seq(Byte) /\ Len(t) = Len(s) + Len(w) /\ Len(s) \in Nat /\ Len(w) \in Nat
      /\ \A i \in 1 .. Len(s) : t[i] = s[i] /\ s[i] \in Byte
      /\ \A i \in 1 .. Len(w) : t[Len(s) + i] = w[i] /\ w[i] \in Byte
  <2>1. t \in Seq(Byte) /\ Len(t) = Len(s) + Len(w) /\ Len(s) \in Nat /\ Len(w) \in Nat
    BY ConcatProperties, LenProperties
  <2>2. \A i \in 1 .. Len(t) : t[i] = IF i <= Len(s) THEN s[i] ELSE w[i - Len(s)]
    BY ConcatProperties
  <2> HIDE DEF t
  <2>3. /\ \A i \in 1 .. Len(s) : t[i] = s[i] /\ s[i] \in Byte
        /\ \A i \in 1 .. Len(w) : t[Len(s) + i] = w[i] /\ w[i] \in Byte
    BY <2>1, <2>2, ElementOfSeq
  <2> QED BY <2>1, <2>3
<1> HIDE DEF t
<1>2. SubSeq(t, Len(s) + 1, Len(s) + Len(w)) = w
  <2>1. SubSeq(t, Len(s) + 1, Len(s) + Len(w)) = [i \in 1 .. Len(w) |-> t[Len(s) + i]]
    BY <1>1, SubSeqIs
  <2>2. [i \in 1 .. Len(w) |-> t[Len(s) + i]] = [i \in 1 .. Len(w) |-> w[i]]
    BY <1>1
  <2>3. w = [i \in 1 .. Len(w) |-> w[i]]
    BY <1>1
  <2> QED BY <2>1, <2>2, <2>3
<1>3. ASSUME NEW a \in Nat, NEW n \in Nat, a + n <= Len(s)
      PROVE  SubSeq(t, a + 1, a + n) = SubSeq(s, a + 1, a + n)
  <2>1. \A i \in 1 .. n : a + i \in 1 .. Len(s)
    BY <1>1, <1>3
  <2>2. \A i \in 1 .. n : t[a + i] = s[a + i] /\ s[a + i] \in Byte
    BY <1>1, <2>1
  <2>3. SubSeq(t, a + 1, a + n) = [i \in 1 .. n |-> t[a + i]]
    BY <2>2, SubSeqIs
  <2>4. SubSeq(s, a + 1, a + n) = [i \in 1 .. n |-> s[a + i]]
    BY <2>2, SubSeqIs
  <2> QED BY <2>2, <2>3, <2>4
<1> QED BY <1>1, <1>2, <1>3 DEF t

LEMMA WantedType ==
  ASSUME args \in Arguments, NEW x \in Content
  PROVE  /\ Wanted(x) \in Seq(Byte)
         /\ Len(Wanted(x)) = IF args.access = "main" THEN MainLen
                             ELSE IF args.access = "oob" THEN PageLen - MainLen ELSE PageLen
         /\ SubSeq(pageRead(x), fileOffset + 1, filePageSize) = Wanted(x)
<1> DEFINE n == PageLen - MainLen
           main == Prefix(x, MainLen)
           full == main \o IF main = FF(MainLen) THEN FF(n) ELSE Ecc(main)
<1>1. n \in Nat /\ MainLen \in Nat /\ PageLen \in Nat /\ MainLen + n = PageLen
  BY Sizes
<1>2. x \in [1 .. PageLen -> Byte]
  BY DEF Content, Cols
<1>3. main \in [1 .. MainLen -> Byte]
  BY PrefixType, Sizes
<1>4. Prefix(x, PageLen) = x
  BY <1>2 DEF Prefix
<1>5. CASE args.access = "main"
  BY <1>1, <1>3, <1>5, SubSeqWhole DEF Wanted, pageRead, fileOffset, filePageSize
<1>6. CASE args.access = "oob"
  <2>1. \A i \in 1 .. n : x[MainLen + i] \in Byte
    BY <1>1, <1>2
  <2>2. SubSeq(x, MainLen + 1, MainLen + n) = [i \in 1 .. n |-> x[MainLen + i]]
    BY <1>1, <2>1, SubSeqIs
  <2>3. [i \in 1 .. n |-> x[MainLen + i]] \in [1 .. n -> Byte]
    BY <2>1
  <2>4. SubSeq(x, MainLen + 1, PageLen) \in [1 .. n -> Byte]
    BY <1>1, <2>2, <2>3
  <2>5. SubSeq(x, MainLen + 1, PageLen) \in Seq(Byte) /\ Len(SubSeq(x, MainLen + 1, PageLen)) = n
    <3> HIDE DEF n
    <3> QED BY <1>1, <2>4, SubSeqWhole
  <2>6. Wanted(x) = SubSeq(x, MainLen + 1, PageLen)
    BY <1>6 DEF Wanted
  <2>7. SubSeq(pageRead(x), fileOffset + 1, filePageSize) = SubSeq(x, MainLen + 1, PageLen)
    BY <1>4, <1>6 DEF pageRead, fileOffset, filePageSize
  <2> QED BY <1>6, <2>5, <2>6, <2>7
<1>7. CASE args.access = "r-oob"
  <2>1. full \in [1 .. PageLen -> Byte] /\ pageRead(x) = full
    BY <1>3, <1>7, RecalculatedType DEF pageRead
  <2>2. Wanted(x) = full
    BY <1>7 DEF Wanted
  <2> HIDE DEF full
  <2>3. full \in Seq(Byte) /\ Len(full) = PageLen /\ SubSeq(full, 0 + 1, PageLen) = full
    BY <1>1, <2>1, SubSeqWhole
  <2> QED BY <1>7, <2>1, <2>2, <2>3 DEF fileOffset, filePageSize
<1>8. CASE args.access \notin {"main", "oob", "r-oob"}
  <2>1. x \in Seq(Byte) /\ Len(x) = PageLen /\ SubSeq(x, 0 + 1, PageLen) = x
    BY <1>1, <1>2, SubSeqWhole
  <2> QED BY <1>4, <1>8, <2>1 DEF Wanted, pageRead, fileOffset, filePageSize
<1> QED BY <1>5, <1>6, <1>7, <1>8

\* Every page puts as many bytes into the file as an erased one.
LEMMA WantedLength ==
  ASSUME args \in Arguments, NEW x \in Content
  PROVE  WantedLen \in Nat /\ Len(Wanted(x)) = WantedLen
<1>1. Blank \in Content
  BY DEF Blank, Content, Byte
<1>2. Len(Wanted(x)) = Len(Wanted(Blank)) /\ Wanted(Blank) \in Seq(Byte)
  BY <1>1, WantedType
<1> QED BY <1>2, LenProperties DEF WantedLen

LEMMA HoldsStep ==
  ASSUME IInv, [Next]_vars
  PROVE  HoldsSoFar'
<1> USE DEF Ended
<1>1. TypeOK /\ Opened /\ InPlace /\ HoldsSoFar
  BY DEF IInv
<1>2. /\ args' = args /\ noisy' = noisy /\ endAddress' = endAddress /\ WantedLen' = WantedLen
      /\ pc # "parse" => action' = action
      /\ \A x : (Wanted(x))' = Wanted(x)
      /\ \A p : (InRange(p))' = InRange(p) /\ (Ordinal(p))' = Ordinal(p)
      /\ address' = address => Row' = Row
  BY CommandKept, DerivedKept, RowKept
<1>3. args \in Arguments
  BY <1>1 DEF TypeOK
<1>4. CASE ReadPage
  <2> DEFINE w == Wanted(store[Row])
             n == WantedLen
  <2>1. /\ pc = "read" /\ pc' = "read" /\ address < endAddress /\ store' = store
        /\ pageBuf' \in Reads /\ out' = out \o SubSeq(pageBuf', fileOffset + 1, filePageSize)
        /\ address' = address + MainLen /\ action' = action
    BY <1>2, <1>4 DEF ReadPage, fixed
  <2>2. /\ Row \in Pages /\ Row \in Nat /\ Ordinal(Row) \in Nat /\ Opens
        /\ (address + MainLen) \div MainLen = Row + 1
    BY <1>1, <2>1, AtPage DEF PageLoop
  <2>3. args.from \div MainLen \in Nat
    BY <1>1, <1>3, <2>1, <2>2, CommandLine, Sizes, Multiple DEF Opened, Opens, Aligned
  <2>4. Row' = Row + 1 /\ (Ordinal(Row))' = Ordinal(Row) + 1
    <3>1. Row' = Row + 1
      BY <2>1, <2>2 DEF Row
    <3> QED BY <1>2, <2>2, <2>3, <3>1 DEF Ordinal
  <2>5. CASE ~noisy
    <3>1. out' = out \o w
      <4>1. pageBuf' = pageRead(store[Row])
        BY <1>1, <2>1, <2>2, <2>5, ReadsHere
      <4> QED BY <1>1, <1>3, <2>1, <2>2, <4>1, WantedType DEF TypeOK
    <3>2. w \in Seq(Byte) /\ Len(w) = n /\ n \in Nat /\ out \in Seq(Byte)
      BY <1>1, <1>3, <2>2, WantedType, WantedLength DEF TypeOK
    <3>3. Len(out) = Ordinal(Row) * n
      BY <1>1, <2>1, <2>5 DEF HoldsSoFar
    <3> HIDE DEF w, n
    <3>4. (Ordinal(Row) + 1) * n = Ordinal(Row) * n + n /\ Ordinal(Row) * n \in Nat
      BY <2>2, <3>2, Product
    <3>5. Len(out') = (Ordinal(Row) + 1) * n
      BY <3>1, <3>2, <3>3, <3>4, Appended
    <3>6. ASSUME NEW p \in Pages, InRange(p), p < Row + 1
          PROVE  SubSeq(out', Ordinal(p) * n + 1, (Ordinal(p) + 1) * n) = Wanted(store[p])
      <4>1. CASE p = Row
        <5>1. SubSeq(out', Len(out) + 1, Len(out) + Len(w)) = w
          BY <3>1, <3>2, Appended
        <5> QED BY <3>2, <3>3, <3>4, <4>1, <5>1 DEF w
      <4>2. CASE p # Row
        <5> DEFINE k == Ordinal(p)
        <5>1. p < Row /\ p \in Nat
          BY <2>2, <3>6, <4>2, Sizes DEF Pages
        <5>2. SubSeq(out, Ordinal(p) * n + 1, (Ordinal(p) + 1) * n) = Wanted(store[p])
          BY <1>1, <2>1, <2>5, <3>6, <5>1 DEF HoldsSoFar, n
        <5>3. k \in Nat /\ k + 1 <= Ordinal(Row)
          <6>1. args.from <= p * MainLen /\ args.from % MainLen = 0
            BY <1>1, <2>1, <2>2, <3>6 DEF InRange, Opened, Opens, Aligned
          <6>2. args.from \in Nat /\ MainLen \in Nat \ {0} /\ p * MainLen \in Nat
            BY <1>3, <5>1, CommandLine, Sizes, Product
          <6>3. args.from = (args.from \div MainLen) * MainLen
            BY <6>1, <6>2, Multiple
          <6>4. args.from \div MainLen <= p
            BY <2>3, <5>1, <6>1, <6>2, <6>3, Product
          <6> QED BY <2>2, <2>3, <5>1, <6>4 DEF Ordinal
        <5> HIDE DEF k
        <5>4. (k + 1) * n = k * n + n /\ k * n \in Nat /\ (k + 1) * n <= Ordinal(Row) * n
          BY <2>2, <3>2, <5>3, Product
        <5>5. SubSeq(out', k * n + 1, k * n + n) = SubSeq(out, k * n + 1, k * n + n)
          <6>1. k * n + n <= Len(out)
            BY <3>3, <5>4
          <6>2. \A a \in Nat : a + n <= Len(out) =>
                  SubSeq(out \o w, a + 1, a + n) = SubSeq(out, a + 1, a + n)
            BY <3>2, Appended
          <6> QED BY <3>1, <5>4, <6>1, <6>2
        <5> QED BY <5>2, <5>4, <5>5 DEF k
      <4> QED BY <4>1, <4>2
    <3>7. /\ (Len(out) = Ordinal(Row) * WantedLen)'
          /\ (\A p \in Pages : InRange(p) /\ p < Row =>
               SubSeq(out, Ordinal(p) * WantedLen + 1, (Ordinal(p) + 1) * WantedLen) = Wanted(store[p]))'
      BY <1>2, <2>1, <2>4, <3>5, <3>6, Zenon DEF n
    <3> QED BY <3>7 DEF HoldsSoFar
  <2> QED BY <1>2, <2>5 DEF HoldsSoFar
<1>5. CASE WriteFileFails
  <2>1. address' = address /\ address < endAddress /\ pc' = "done" /\ address \in Nat /\ endAddress \in Nat
    BY <1>1, <1>3, <1>5, CommandLine, Sizes DEF WriteFileFails, TypeOK
  <2> QED BY <1>2, <2>1 DEF HoldsSoFar
<1>6. CASE Open
  <2>1. CASE pc' = "read"
    <3>1. action = "read" /\ Opens /\ address' = args.from /\ out' = <<>> /\ store' = store
      BY <1>1, <1>6, <2>1 DEF Open, Opened, TypeOK, StartAddress
    <3>2. args.from % MainLen = 0
      BY <3>1 DEF Opens, Aligned
    <3>3. args.from \in Nat /\ MainLen \in Nat \ {0}
      BY <1>3, CommandLine, Sizes
    <3>4. args.from \div MainLen \in Nat /\ args.from = (args.from \div MainLen) * MainLen
      BY <3>2, <3>3, Multiple
    <3>5. Row' = args.from \div MainLen
      BY <3>1 DEF Row
    <3>6. (Ordinal(Row))' = 0
      BY <1>2, <3>4, <3>5 DEF Ordinal
    <3>7. \A p \in Pages : InRange(p) => ~(p < Row')
      <4>1. ASSUME NEW p \in Pages, InRange(p)
            PROVE  args.from \div MainLen <= p
        <5>1. p \in Nat /\ args.from <= p * MainLen
          BY <4>1, Sizes DEF InRange, Pages
        <5> QED BY <3>3, <3>4, <5>1, Product
      <4>2. \A p \in Pages : p \in Int
        BY DEF Pages
      <4> QED BY <3>4, <3>5, <4>1, <4>2
    <3>8. WantedLen \in Nat
      <4>1. Blank \in Content
        BY DEF Blank, Content, Byte
      <4> QED BY <1>3, <4>1, WantedLength
    <3>9. Len(out') = (Ordinal(Row))' * WantedLen
      BY <3>1, <3>6, <3>8
    <3> QED BY <1>2, <3>7, <3>9 DEF HoldsSoFar
  <2>2. pc' # "done"
    BY <1>1, <1>6 DEF Open, TypeOK, Actions
  <2> QED BY <2>1, <2>2 DEF HoldsSoFar
<1>7. CASE RangeDone \/ UNCHANGED vars
  <2>1. UNCHANGED <<store, address, out>> /\ (pc' = pc \/ (pc' = "done" /\ (pc = "read" \/ action' # "read")))
    BY <1>1, <1>2, <1>7 DEF RangeDone, vars, files, Opened
  <2>2. action' = action
    BY <1>2, <1>7 DEF RangeDone, vars, fixed
  <2>3. (Ordinal(Row))' = Ordinal(Row) /\ Row' = Row
    BY <1>2, <2>1
  <2> QED BY <1>1, <1>2, <2>1, <2>2, <2>3 DEF HoldsSoFar
<1>8. CASE Parse \/ NextChunk \/ OutOfData \/ Program \/ CannotWrite
  BY <1>1, <1>2, <1>8 DEF Parse, ParseAction, ParseUsb, ParseUnknown, Parsed, NextChunk, OutOfData,
       Program, CannotWrite, Opened, HoldsSoFar
<1>9. CASE PageEqual \/ PageDiffers \/ EraseBlock
  BY <1>1, <1>2, <1>9 DEF PageEqual, PageDiffers, EraseBlock, Opened, HoldsSoFar
<1>10. CASE Verify \/ Interrupt \/ Rerun
  BY <1>10 DEF Verify, Interrupt, Rerun, HoldsSoFar
<1> QED BY <1>4, <1>5, <1>6, <1>7, <1>8, <1>9, <1>10 DEF Next, Step, Finished

-----------------------------------------------------------------------------
LEMMA InitIInv ==
  ASSUME Init
  PROVE  IInv
<1>1. pc = "parse" /\ action = "none" /\ store = initial
  BY DEF Init
<1>2. TypeOK
  <2>1. <<>> \in Buffers
    <3>1. <<>> \in [1 .. 0 -> Byte]
      OBVIOUS
    <3> QED BY <3>1 DEF Buffers
  <2>2. 0 \in 0 .. ChipSize /\ 0 \in 0 .. PageLen * NPages
    BY Sizes, Product
  <2>3. MaxVerifyErrors \in 0 .. MaxVerifyErrors /\ MaxRuns - 1 \in 0 .. MaxRuns
    BY ReaderAssumption
  <2>4. store \in [Pages -> Content]
    BY ReaderAssumption DEF Init
  <2> QED BY <2>1, <2>2, <2>3, <2>4, EmptySeq DEF Init, TypeOK
<1>3. Opened /\ InPlace /\ BlockInPlace /\ BufferKept /\ VerifyBudget
  BY <1>1 DEF Opened, InPlace, BlockInPlace, BufferKept, VerifyBudget, PageLoop, Ended
<1>4. OnlyRange /\ ClearsOnlyItsChunk /\ MatchesSoFar /\ HoldsSoFar /\ ErasedSoFar
  BY <1>1 DEF OnlyRange, ClearsOnlyItsChunk, MatchesSoFar, HoldsSoFar, ErasedSoFar, Ended
<1> QED BY <1>2, <1>3, <1>4 DEF IInv

\* The parts of the invariant hold together of every run.
LEMMA Invariant == Spec => []IInv
<1>1. IInv /\ [Next]_vars => IInv'
  <2> SUFFICES ASSUME IInv, [Next]_vars
               PROVE  IInv'
    OBVIOUS
  <2>1. TypeOK' /\ Opened' /\ InPlace' /\ BlockInPlace' /\ BufferKept' /\ VerifyBudget'
    BY TypeStep, OpenedStep, InPlaceStep, BlockInPlaceStep, BufferStep, VerifyBudgetStep
  <2>2. OnlyRange' /\ ClearsOnlyItsChunk' /\ MatchesSoFar' /\ HoldsSoFar' /\ ErasedSoFar'
    BY OnlyRangeStep, ClearsStep, MatchesStep, HoldsStep, ErasedStep
  <2> QED BY <2>1, <2>2 DEF IInv
<1> QED BY InitIInv, <1>1, PTL DEF Spec

\* Every variable keeps to its type; pages stay pages, the read buffer has the
\* length of a page of the access type, an erase reports only blocks of the chip
\* and the error budget never goes below zero (actionWrite, actionErase).
THEOREM ReaderTypes == Spec => []TypeOK
<1>1. IInv => TypeOK
  BY DEF IInv
<1> QED BY <1>1, Invariant, PTL

\* No run of the command, interrupted, failed or repeated, changes a page outside
\* the addresses it was given; reads and verifies change none.
THEOREM RangeOnly == Spec => []OnlyRange
<1>1. IInv => OnlyRange
  BY DEF IInv
<1> QED BY <1>1, Invariant, PTL

\* A write clears no bit of the chip that the page's own chunk of the file does
\* not clear: address and file position of actionWrite stay in step.
THEOREM ClearsItsChunk == Spec => []ClearsOnlyItsChunk
<1>1. IInv => ClearsOnlyItsChunk
  BY DEF IInv
<1> QED BY <1>1, Invariant, PTL

\* A write that ends without one difference left each chunk on its page.
THEOREM CleanRun == Spec => []CleanRunMatches
<1>1. IInv => CleanRunMatches
  BY DEF IInv, MatchesSoFar, CleanRunMatches
<1> QED BY <1>1, Invariant, PTL

\* A read that got to its end address has written the range to its file, page
\* after page and without a gap.
THEOREM RangeHeld == Spec => []FileHoldsRange
<1>1. ASSUME IInv, Ended("read"), address >= endAddress, ~noisy
      PROVE  /\ Len(out) = WantedLen * (IF args.from < endAddress
                                        THEN (endAddress - args.from) \div MainLen ELSE 0)
             /\ \A p \in {q \in Pages : InRange(q)} :
                  SubSeq(out, Ordinal(p) * WantedLen + 1, (Ordinal(p) + 1) * WantedLen) = Wanted(store[p])
  <2> DEFINE i == args.from \div MainLen
             j == endAddress \div MainLen
  <2>1. TypeOK /\ Opened /\ InPlace /\ HoldsSoFar /\ action = "read" /\ pc = "done"
    BY <1>1 DEF IInv, Ended
  <2>2. /\ args.from \in Nat /\ endAddress \in Nat /\ address \in Nat /\ MainLen \in Nat \ {0}
        /\ address % MainLen = 0 /\ args.from % MainLen = 0 /\ endAddress % MainLen = 0
    BY <2>1, CommandLine, Sizes DEF TypeOK, InPlace, Ended, Opened, Opens, Aligned
  <2>3. args.from <= address /\ (address <= endAddress \/ address = args.from)
    BY <2>1 DEF InPlace, Ended
  <2>4. address = IF args.from < endAddress THEN endAddress ELSE args.from
    BY <1>1, <2>2, <2>3
  <2>5. i \in Nat /\ j \in Nat /\ args.from = i * MainLen /\ endAddress = j * MainLen
    BY <2>2, Multiple
  <2>6. Row = IF args.from < endAddress THEN j ELSE i
    BY <2>4 DEF Row
  <2>7. args.from < endAddress => (endAddress - args.from) \div MainLen = j - i
    <3> SUFFICES ASSUME args.from < endAddress
                 PROVE  (endAddress - args.from) \div MainLen = j - i
      OBVIOUS
    <3>1. i < j
      BY <2>2, MultipleOrder
    <3> HIDE DEF i, j
    <3>2. /\ j * MainLen - i * MainLen = (j - i) * MainLen
          /\ (j - i + 1) * MainLen = (j - i) * MainLen + MainLen
          /\ (j - i) * MainLen \in Nat
      BY <2>2, <2>5, <3>1, SMTT(30)
    <3>3. endAddress - args.from = (j - i) * MainLen /\ endAddress - args.from \in Nat /\ j - i \in Nat
      BY <2>2, <2>5, <3>1, <3>2
    <3> QED BY <2>2, <3>2, <3>3, Interval
  <2>8. Ordinal(Row) = IF args.from < endAddress THEN (endAddress - args.from) \div MainLen ELSE 0
    BY <2>5, <2>6, <2>7 DEF Ordinal
  <2>9. WantedLen \in Nat
    <3>1. Blank \in Content
      BY DEF Blank, Content, Byte
    <3> QED BY <2>1, <3>1, WantedLength DEF TypeOK
  <2>10. Ordinal(Row) \in Nat /\ Len(out) = Ordinal(Row) * WantedLen
    <3>1. Ordinal(Row) \in Nat
      <4>1. args.from < endAddress => i < j
        BY <2>2, MultipleOrder
      <4> HIDE DEF i, j
      <4> QED BY <2>5, <2>7, <2>8, <4>1
    <3> QED BY <1>1, <2>1, <3>1 DEF HoldsSoFar, Ended
  <2>11. Len(out) = WantedLen * Ordinal(Row)
    BY <2>9, <2>10, Product
  <2>12. ASSUME NEW p \in Pages, InRange(p)
         PROVE  p < Row
    <3>1. p \in Nat /\ args.from <= p * MainLen /\ p * MainLen < endAddress
      BY <2>12, Sizes DEF InRange, Pages
    <3>2. p * MainLen \in Nat
      BY <2>2, <3>1, Product
    <3>3. args.from < endAddress
      BY <2>2, <3>1, <3>2
    <3>4. p < j
      <4> HIDE DEF j
      <4> QED BY <2>2, <2>5, <3>1, Product
    <3> QED BY <2>6, <3>3, <3>4
  <2>13. \A p \in Pages : InRange(p) =>
           SubSeq(out, Ordinal(p) * WantedLen + 1, (Ordinal(p) + 1) * WantedLen) = Wanted(store[p])
    BY <1>1, <2>1, <2>12 DEF HoldsSoFar
  <2> QED BY <2>8, <2>11, <2>13
<1>2. IInv => FileHoldsRange
  BY <1>1 DEF FileHoldsRange, WantedLen, Ended
<1> QED BY <1>2, Invariant, PTL

\* When an erase ends, every block of the range is blank or was reported.
THEOREM EraseReported == Spec => []EraseAccounted
<1>1. ASSUME IInv, action = "erase", pc = "done", NEW p \in Pages, InRange(p)
      PROVE  store[p] = Blank \/ BlockOf(p) \in notErased
  <2>1. TypeOK /\ Opens /\ EndBlock <= address /\ ErasedSoFar
    BY <1>1 DEF IInv, Opened, BlockInPlace, Ended, PageLoop
  <2>2. StartAddress <= BlockOf(p) /\ BlockOf(p) < EndBlock
    BY <1>1, <2>1, BlockHere DEF TypeOK
  <2>3. BlockOf(p) \in Int /\ EndBlock \in Nat /\ address \in Nat
    BY <1>1, <2>1, BlockHere, Sizes DEF TypeOK, Pages, BlockOf
  <2> QED BY <1>1, <2>1, <2>2, <2>3 DEF ErasedSoFar, Ended
<1>2. IInv => EraseAccounted
  BY <1>1 DEF EraseAccounted
<1> QED BY <1>2, Invariant, PTL
==============================================================================
