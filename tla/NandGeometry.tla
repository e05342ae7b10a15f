---------------------------- MODULE NandGeometry ----------------------------
(***************************************************************************)
(* What the program takes a chip for, and the rows it therefore addresses: *)
(* NandID.cpp and sendAddr of FtdiNand.cpp.  FtdiNand and NandData stand   *)
(* on the result, with RowSpan = 2^16 and ErasePages = 64.                 *)
(***************************************************************************)
EXTENDS Integers, Sequences

\* The entries of m_devCodes in their order, those of a size together.
FixedSize(ids, pagesize, MB, erasesize) ==
  [ids |-> ids, pagesize |-> pagesize, MB |-> MB, erasesize |-> erasesize]
CodedSize(ids, MB) == FixedSize(ids, 0, MB, 0)

DevCodes ==
  << FixedSize({\h64}, 256, 2, \h1000),
     FixedSize({\h6E, \hE8, \hEC}, 256, 1, \h1000),
     FixedSize({\hEA}, 256, 2, \h1000),
     FixedSize({\h6B, \hD5, \hE3, \hE5}, 512, 4, \h2000),
     FixedSize({\hD6, \h39, \hE6}, 512, 8, \h2000),
     FixedSize({\h33, \h73}, 512, 16, \h4000),
     FixedSize({\h35, \h75}, 512, 32, \h4000),
     FixedSize({\h36, \h76}, 512, 64, \h4000),
     FixedSize({\h78, \h39, \h79}, 512, 128, \h4000),
     FixedSize({\h71}, 512, 256, \h4000),
     CodedSize({\hA2, \hA0, \hF2, \hD0, \hF0}, 64),
     CodedSize({\hA1, \hF1, \hD1}, 128),
     CodedSize({\hAA, \hDA}, 256),
     CodedSize({\hAC, \hDC}, 512),
     CodedSize({\hA3, \hD3}, 1024),
     CodedSize({\hA5, \hD5}, 2048),
     CodedSize({\hA7, \hD7}, 4096),
     CodedSize({\hAE, \hDE, \hAD}, 8192),
     CodedSize({\h1A, \h3A}, 16384),
     CodedSize({\h1C, \h3C}, 32768),
     CodedSize({\h1E, \h3E}, 65536) >>

\* The program exits on any other.
Known(code) == \E k \in DOMAIN DevCodes : code \in DevCodes[k].ids

\* The search stops at the first entry of a code.
Entry(code) ==
  LET matching == {k \in DOMAIN DevCodes : code \in DevCodes[k].ids}
  IN DevCodes[CHOOSE k \in matching : \A j \in matching : k <= j]

ShiftedLeft(a, i) == a * <<1, 2, 4, 8>>[i + 1]

Chip ==
  [isLP : BOOLEAN, MB : Nat, pageSz : Nat \ {0}, eraseSz : Nat, oobSz : Nat,
   eraseAddrByteCount : {0, 2}]

\* Page/erasesize is device-specific, or encoded in the fourth ID byte.
DeviceSpecific(e) ==
  [isLP |-> FALSE, MB |-> e.MB, pageSz |-> e.pagesize, eraseSz |-> e.erasesize,
   oobSz |-> IF e.pagesize = 512 THEN 16 ELSE 64, eraseAddrByteCount |-> 0]

Encoded(e, byte) ==
  LET pagesize == ShiftedLeft(1024, byte % 4)
      per512 == IF (byte \div 4) % 2 = 1 THEN 16 ELSE 8
  IN [isLP |-> TRUE, MB |-> e.MB, pageSz |-> pagesize,
      eraseSz |-> ShiftedLeft(65536, (byte \div 16) % 4),
      oobSz |-> per512 * (pagesize \div 512), eraseAddrByteCount |-> 2]

NandID(id) ==
  LET e == Entry(id[2])
  IN IF e.pagesize # 0 THEN DeviceSpecific(e) ELSE Encoded(e, id[4])

getAddrByteCount(n) ==
  IF n.isLP THEN IF n.MB >= 32768 THEN 6 ELSE IF n.MB >= 128 THEN 5 ELSE 4
  ELSE IF n.MB <= 64 THEN 3 ELSE 4

-----------------------------------------------------------------------------
\* sendAddr: any other length ends the program. junk is what buff[2] holds, for
\* the third byte is sent but never written.
Accepted(addrLen) == addrLen \in 1 .. 5

AddressBytes(row, addrLen, junk) ==
  IF addrLen <= 3 THEN [k \in 1 .. addrLen |-> <<(row * 64) % 256, (row \div 4) % 256, junk>>[k]]
  ELSE <<0, 0, row % 256, (row \div 256) % 256>>

\* What a large page chip makes of them: two column bytes before the row of a
\* page, no column of an erase. Bytes it does not get count for nothing.
PageRowOf(bytes) == bytes[3] + 256 * bytes[4]
EraseRowOf(bytes) == bytes[1] + 256 * bytes[2]

-----------------------------------------------------------------------------
NumPages(n) == n.MB * (1048576 \div n.pageSz)   \* page sizes are powers of two

\* The chips this program can address to their last page and block: two row
\* bytes suffice, and blocks are the 64 pages sendAddr takes them for.
Supported(n) ==
  /\ n.isLP /\ Accepted(getAddrByteCount(n)) /\ Accepted(n.eraseAddrByteCount)
  /\ NumPages(n) <= 65536 /\ n.eraseSz = 64 * n.pageSz
=============================================================================
