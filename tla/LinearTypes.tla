----------------------------- MODULE LinearTypes -----------------------------
(***************************************************************************)
(* What nandread_FTDI232H.c takes a chip for: one run of cells, addressed  *)
(* by mem_address.  Cells beyond a page's spare area do not exist; a       *)
(* program clears bits of the cells it reaches in its own row, an erase    *)
(* sets those of one block of rows.                                        *)
(***************************************************************************)
EXTENDS Integers, Sequences

CONSTANTS
  NRows,     \* pages (rows) of the chip
  PerBlock,  \* rows of an erase block of the chip
  PageLen,   \* bytes of a row, spare area included
  ColSpan,   \* column addresses per row: 2^12 in setcolumns and setrows, 2^14 for H27
  RowStep    \* rows from one such span to the next: 1, and 4 for H27

ASSUME LinearAssumption ==
  /\ NRows \in Nat \ {0}
  /\ PerBlock \in Nat \ {0}
  /\ PageLen \in Nat \ {0}
  /\ ColSpan \in Nat \ {0}
  /\ RowStep \in Nat \ {0}
  /\ PageLen <= ColSpan

FF   == 255
Rows == 0 .. NRows - 1
Cols == 0 .. PageLen - 1
Byte == 0 .. 255

Bit(b, i) == (b \div 2^i) % 2

And(a, b) ==
  LET both(i) == Bit(a, i) * Bit(b, i) * 2^i
  IN both(0) + both(1) + both(2) + both(3) + both(4) + both(5) + both(6) + both(7)

\* The cell of linear address a.
RowAt(a) == (RowStep * (a \div ColSpan)) % NRows
ColAt(a) == a % ColSpan

\* Row r of s with d clocked in from column c on: bytes past the row are lost.
ProgramRow(s, r, c, d) ==
  [s EXCEPT ![r] =
    [k \in Cols |-> IF k - c + 1 \in DOMAIN d THEN And(s[r][k], d[k - c + 1]) ELSE s[r][k]]]

EraseBlock(s, r) ==
  [x \in Rows |-> IF x \div PerBlock = r \div PerBlock THEN [k \in Cols |-> FF] ELSE s[x]]

NoOp == [kind |-> "none", at |-> 0, data |-> <<>>]

Effect(s, o) ==
  IF o.kind = "program" THEN ProgramRow(s, RowAt(o.at), ColAt(o.at), o.data)
  ELSE IF o.kind = "erase" THEN EraseBlock(s, RowAt(o.at))
  ELSE s
=============================================================================
