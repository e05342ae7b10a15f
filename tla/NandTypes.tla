------------------------------ MODULE NandTypes ------------------------------
(***************************************************************************)
(* The vocabulary the chip, its driver and the abstract page store share:  *)
(* pages and blocks, their contents, what programming and erasing do to    *)
(* them, and the operations NandData.cpp offers with their results.        *)
(*                                                                         *)
(* A byte is the set of its bits that are 1, so an erased byte (0xFF) is   *)
(* Bits, and programming, which can only clear bits, is intersection.      *)
(***************************************************************************)
EXTENDS Integers, Sequences

CONSTANTS
  NPages,         \* number of pages of the chip
  PagesPerBlock,  \* pages one erase operation resets
  PageLen,        \* bytes of a page, spare area included
  Bits,           \* bits of a byte that the model tells apart
  MayFail,        \* TRUE: a program or erase may end with the FAIL status
  ReadLens,       \* bytes2read of the callers: page size, with or without spare
  WriteBufs       \* page buffers the callers write

\* NAND_STATUS_FAIL is bit 0 of the status byte, R/#B is bit 1 of the answer
\* to GET_BITS_HIGH.
FailBit  == 0
ReadyBit == 1

Pages   == 0 .. NPages - 1
Cols    == 1 .. PageLen
Byte    == SUBSET Bits
Content == [Cols -> Byte]
Blank   == [c \in Cols |-> Bits]

BlockOf(p) == p \div PagesPerBlock
Blocks     == {BlockOf(p) : p \in Pages}

ASSUME TypesAssumption ==
  /\ NPages \in Nat \ {0}
  /\ PagesPerBlock \in Nat \ {0}
  /\ PageLen \in Nat \ {0}
  /\ {FailBit, ReadyBit} \subseteq Bits
  /\ MayFail \in BOOLEAN
  /\ ReadLens \subseteq 1 .. PageLen
  /\ WriteBufs \subseteq Content

-----------------------------------------------------------------------------
(***************************************************************************)
(* Results of programming page p, and of erasing block b, of the pages in  *)
(* s.  When the chip reports FAIL, a page being programmed holds anything  *)
(* between its old and its intended content, and a block that should have  *)
(* been erased is erased or is not.                                        *)
(***************************************************************************)
Programmed(old, data) == [c \in Cols |-> old[c] \cap data[c]]

Between(low, high) ==
  {p \in Content : \A c \in Cols : low[c] \subseteq p[c] /\ p[c] \subseteq high[c]}

Erased(s, b) == [p \in Pages |-> IF BlockOf(p) = b THEN Blank ELSE s[p]]

Outcome(s, ok) == [pages |-> s, ok |-> ok]

ProgramResults(s, p, data) ==
  LET new == Programmed(s[p], data) IN
    {Outcome([s EXCEPT ![p] = new], TRUE)}
      \cup {Outcome([s EXCEPT ![p] = x], FALSE) :
              x \in IF MayFail THEN Between(new, s[p]) ELSE {}}

EraseResults(s, b) ==
  {Outcome(Erased(s, b), TRUE)}
    \cup {Outcome(x, FALSE) : x \in IF MayFail THEN {s, Erased(s, b)} ELSE {}}

-----------------------------------------------------------------------------
(***************************************************************************)
(* readPage(p, buff, n), writePage(p, d, PageLen), erasePage(b) and what   *)
(* they return: the buffer readPage fills, !(status & NAND_STATUS_FAIL) of *)
(* the other two.                                                          *)
(***************************************************************************)
Read(p, n)  == [kind |-> "read",  at |-> p, len |-> n, data |-> Blank]
Write(p, d) == [kind |-> "write", at |-> p, len |-> 1, data |-> d]
Erase(b)    == [kind |-> "erase", at |-> b, len |-> 1, data |-> Blank]
NoOp        == [kind |-> "none",  at |-> 0, len |-> 1, data |-> Blank]

Ops ==
  {Read(p, n) : p \in Pages, n \in ReadLens}
    \cup {Write(p, d) : p \in Pages, d \in WriteBufs}
    \cup {Erase(b) : b \in Blocks}

Reply(ok, data) == [ok |-> ok, data |-> data]

Replies == [ok : BOOLEAN, data : UNION {[1 .. n -> Byte] : n \in ReadLens \cup {0}}]

Prefix(content, n) == [i \in 1 .. n |-> content[i]]
=============================================================================
