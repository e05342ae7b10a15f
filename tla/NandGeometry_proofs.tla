------------------------- MODULE NandGeometry_proofs -------------------------
(***************************************************************************)
(* The rows that reach a chip, for every row and every known chip.         *)
(***************************************************************************)
EXTENDS NandGeometry, WellFoundedInduction, TLAPS

\* Two row bytes are sent for a read or a program: row numbers wrap at 2^16.
\* This is PageRow of FtdiNand with RowSpan = 2^16.
THEOREM PageRowsWrap ==
  ASSUME NEW row \in Nat, NEW junk, NEW len \in {4, 5}
  PROVE  PageRowOf(AddressBytes(row, len, junk)) = row % 65536
<1>1. AddressBytes(row, len, junk) = <<0, 0, row % 256, (row \div 256) % 256>>
  BY DEF AddressBytes
<1>2. PageRowOf(AddressBytes(row, len, junk)) = (row % 256) + 256 * ((row \div 256) % 256)
  BY <1>1 DEF PageRowOf
<1>3. (row % 256) + 256 * ((row \div 256) % 256) = row % 65536
  BY SMTT(60)
<1> QED BY <1>2, <1>3

\* An erase names block * 64, in two bytes as well: EraseRow of FtdiNand with
\* RowSpan = 2^16 and ErasePages = 64.
THEOREM EraseRowsWrap ==
  ASSUME NEW block \in Nat, NEW junk
  PROVE  EraseRowOf(AddressBytes(block, 2, junk)) = (block * 64) % 65536
<1>1. AddressBytes(block, 2, junk) = <<(block * 64) % 256, (block \div 4) % 256>>
  BY DEF AddressBytes
<1>2. EraseRowOf(AddressBytes(block, 2, junk)) = ((block * 64) % 256) + 256 * ((block \div 4) % 256)
  BY <1>1 DEF EraseRowOf
<1>3. ((block * 64) % 256) + 256 * ((block \div 4) % 256) = (block * 64) % 65536
  BY SMTT(60)
<1> QED BY <1>2, <1>3

-----------------------------------------------------------------------------
Sizes == [ids : SUBSET Nat, pagesize : Nat, MB : Nat, erasesize : Nat]

LEMMA DevCodesSizes == DevCodes \in Seq(Sizes)
<1>1. \A ids \in SUBSET Nat, p \in Nat, m \in Nat, e \in Nat : FixedSize(ids, p, m, e) \in Sizes
  BY DEF FixedSize, Sizes
<1>2. \A ids \in SUBSET Nat, m \in Nat : CodedSize(ids, m) \in Sizes
  BY <1>1 DEF CodedSize
<1> QED BY <1>1, <1>2, SMTT(60) DEF DevCodes

\* The first entry of a code exists if any does.
LEMMA EntryInTable ==
  ASSUME NEW code, Known(code)
  PROVE  \E k \in DOMAIN DevCodes : Entry(code) = DevCodes[k]
<1> DEFINE matching == {k \in DOMAIN DevCodes : code \in DevCodes[k].ids}
<1>1. matching # {} /\ matching \subseteq Nat
  BY DevCodesSizes DEF Known
<1>2. \E k \in matching : \A j \in matching : k <= j
  <2> DEFINE R == OpToRel(<, Nat)
  <2>1. IsWellFoundedOn(R, Nat)
    BY NatLessThanWellFounded
  <2>2. \A x \in Nat, y \in Nat : x < y => <<x, y>> \in R
    BY DEF OpToRel
  <2> HIDE DEF R, matching
  <2>3. \E k \in matching : \A j \in matching : <<j, k>> \notin R
    BY <1>1, <2>1, WFMin
  <2>4. PICK k \in matching : \A j \in matching : <<j, k>> \notin R
    BY <2>3
  <2>5. \A j \in matching : ~(j < k)
    BY <1>1, <2>2, <2>4
  <2> QED BY <1>1, <2>4, <2>5
<1> QED BY <1>2 DEF Entry

LEMMA EncodedIsChip ==
  ASSUME NEW e \in Sizes, NEW byte \in 0 .. 255
  PROVE  Encoded(e, byte) \in Chip
<1>1. \A a \in Nat \ {0}, i \in 0 .. 3 : ShiftedLeft(a, i) \in Nat \ {0}
  BY DEF ShiftedLeft
<1>2. byte % 4 \in 0 .. 3 /\ (byte \div 16) % 4 \in 0 .. 3
  OBVIOUS
<1> DEFINE p == ShiftedLeft(1024, byte % 4)
           b == ShiftedLeft(65536, (byte \div 16) % 4)
           o == (IF (byte \div 4) % 2 = 1 THEN 16 ELSE 8) * (p \div 512)
<1>3. Encoded(e, byte) = [isLP |-> TRUE, MB |-> e.MB, pageSz |-> p, eraseSz |-> b, oobSz |-> o,
                          eraseAddrByteCount |-> 2]
  BY DEF Encoded
<1>4. p \in Nat \ {0} /\ b \in Nat
  BY <1>1, <1>2
<1> HIDE DEF p, b
<1>5. (p \div 512) \in Nat
  BY <1>4
<1>6. o \in Nat
  BY <1>5
<1> HIDE DEF o
<1>7. e.MB \in Nat
  BY DEF Sizes
<1> QED BY <1>3, <1>4, <1>6, <1>7 DEF Chip

\* What NandID makes of a known code and a fourth byte has its fields in range.
LEMMA NandIDIsChip ==
  ASSUME NEW id, Known(id[2]), id[4] \in 0 .. 255
  PROVE  /\ NandID(id) \in Chip
         /\ NandID(id).isLP => NandID(id).eraseAddrByteCount = 2
<1> DEFINE e == Entry(id[2])
<1>1. e \in Sizes
  <2>1. PICK k \in DOMAIN DevCodes : e = DevCodes[k]
    BY EntryInTable
  <2>2. DevCodes[k] \in Sizes
    BY DevCodesSizes
  <2> QED BY <2>1, <2>2
<1>2. CASE e.pagesize = 0
  <2>1. NandID(id) = Encoded(e, id[4])
    BY <1>2 DEF NandID
  <2>2. Encoded(e, id[4]).eraseAddrByteCount = 2
    BY DEF Encoded
  <2> QED BY <1>1, <2>1, <2>2, EncodedIsChip
<1>3. CASE e.pagesize # 0
  <2>1. NandID(id) = DeviceSpecific(e)
    BY <1>3 DEF NandID
  <2> HIDE DEF e
  <2>2. DeviceSpecific(e) \in Chip /\ ~DeviceSpecific(e).isLP
    BY <1>1, <1>3 DEF DeviceSpecific, Chip, Sizes
  <2> QED BY <2>1, <2>2
<1> QED BY <1>2, <1>3

-----------------------------------------------------------------------------
\* Every page and every block of a known chip that is supported is addressed as
\* itself: this is Addressable of NandData, with the sizes NandID gives.
THEOREM SupportedAddressable ==
  ASSUME NEW id, Known(id[2]), id[4] \in 0 .. 255, Supported(NandID(id)), NEW junk
  PROVE  LET n == NandID(id)
         IN /\ \A row \in 0 .. NumPages(n) - 1 :
                 PageRowOf(AddressBytes(row, getAddrByteCount(n), junk)) = row
            /\ \A block \in 0 .. (NumPages(n) \div 64) - 1 :
                 EraseRowOf(AddressBytes(block, n.eraseAddrByteCount, junk)) = 64 * block
<1> DEFINE n == NandID(id)
           N == NumPages(n)
<1>1. n \in Chip /\ n.isLP /\ n.eraseAddrByteCount = 2 /\ N <= 65536
  BY NandIDIsChip DEF Supported
<1>2. N \in Nat
  <2>1. n.MB \in Nat /\ n.pageSz \in Nat \ {0}
    BY <1>1 DEF Chip
  <2>2. \A a \in Nat, b \in Nat \ {0} : a \div b \in Nat
    OBVIOUS
  <2>3. (1048576 \div n.pageSz) \in Nat
    BY <2>1, <2>2
  <2>4. \A a \in Nat, b \in Nat : a * b \in Nat
    OBVIOUS
  <2> QED BY <2>1, <2>3, <2>4 DEF NumPages
<1>3. getAddrByteCount(n) \in {4, 5}
  BY <1>1 DEF Supported, Accepted, getAddrByteCount, Chip
<1> HIDE DEF n, N
<1>4. ASSUME NEW row \in 0 .. N - 1
      PROVE  PageRowOf(AddressBytes(row, getAddrByteCount(n), junk)) = row
  <2>1. row \in Nat /\ row < 65536
    BY <1>1, <1>2
  <2>2. row % 65536 = row
    BY <2>1
  <2> QED BY <1>3, <2>1, <2>2, PageRowsWrap
<1>5. ASSUME NEW block \in 0 .. (N \div 64) - 1
      PROVE  EraseRowOf(AddressBytes(block, n.eraseAddrByteCount, junk)) = 64 * block
  <2>1. block \in Nat /\ block * 64 < 65536
    BY <1>1, <1>2
  <2>2. (block * 64) % 65536 = 64 * block
    BY <2>1
  <2> QED BY <1>1, <2>1, <2>2, EraseRowsWrap
<1> QED BY <1>4, <1>5 DEF n, N
=============================================================================
