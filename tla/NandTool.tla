------------------------------- MODULE NandTool -------------------------------
(***************************************************************************)
(* NandTool: the older FT2232H program, with its drivers for large and for *)
(* small page chips.  A page is three units: the two halves of its main    *)
(* area and its spare area.  What the drivers do is a sequence of calls of *)
(* FtdiNand; `calls' is what is left of it.                                *)
(*                                                                         *)
(* The chip is external.  A small page chip reads as soon as it has an     *)
(* address, and READ0, READ1 and READOOB point it at a unit; a large page  *)
(* chip takes the unit from the column address and reads after READSTART.  *)
(***************************************************************************)
EXTENDS Integers, Sequences, FiniteSets

CONSTANTS
  NPages,         \* pages of the chip
  PagesPerBlock,  \* pages per erase block: of small and of large page chips
  EraseEvery,     \* 32 in main
  IntPages,       \* page numbers that pageno << 16 keeps apart: 2^16
  RowSpan,        \* rows that the row bytes sent to a large page chip keep apart
  Blank, Junk,    \* an erased unit, and one nobody can tell
  Tokens,         \* what units may hold besides
  Files,          \* files at the start: sequences of units
  PageNos,        \* arguments of -p
  MaxOptions,     \* bound: options per command line
  MaxRuns         \* bound: runs of the program

Content == Tokens \cup {Blank, Junk}
Pages == 0 .. NPages - 1
Units == 1 .. 3

ASSUME ToolAssumption ==
  /\ NPages \in Nat \ {0} /\ EraseEvery \in Nat \ {0}
  /\ PagesPerBlock \in [{"small", "large"} -> Nat \ {0}]
  /\ IntPages \in Nat \ {0, 1} /\ RowSpan \in Nat \ {0}
  /\ Files \subseteq Seq(Content)
  /\ PageNos \subseteq Nat
  /\ MaxOptions \in Nat /\ MaxRuns \in Nat \ {0}

VARIABLES
  kind,                      \* the chip: "small" or "large" pages
  pc,                        \* where main is
  action, access, named,     \* options: what, -t, whether a file was named
  start_pageno, end_pageno,  \* -p, or -1
  x,                         \* the page of the loop
  calls,                     \* calls still to make for it
  pageBuf,                   \* units read from the chip, or to be written
  file, at,                  \* the file and the offset in it
  verifyErrors,
  cmd, area, row, latch,     \* the chip: command, unit and row addressed, page register
  busy, fail, cells,         \* the chip: work in progress, status bit, pages
  trouble,                   \* history, and bound: the one thing that went wrong, "late" while
                             \* the chip outlasts waitReady and "was late" afterwards
  options, runs              \* bounds: options left, runs so far

line == <<action, access, named, start_pageno, end_pageno>>
main == <<pc, line, x, file, at, verifyErrors, options, runs>>
chip == <<cmd, area, row, latch, busy, fail, cells, trouble>>
toolVars == <<kind, main, calls, pageBuf, chip>>

SameBlock(a, b) == a \div PagesPerBlock[kind] = b \div PagesPerBlock[kind]

-----------------------------------------------------------------------------
(***************************************************************************)
(* The drivers as sequences of calls.                                      *)
(***************************************************************************)
Cmd(c)     == [do |-> "cmd", cmd |-> c]
Addr(r, u) == [do |-> "addr", row |-> r, unit |-> u]
Put(d)     == [do |-> "data", units |-> d]
Get(n)     == [do |-> "get", units |-> n]
WaitReady  == [do |-> "wait"]
Status(s)  == [do |-> "status", stop |-> s]   \* s: a failure ends the driver's function
Exit       == [do |-> "exit"]

\* pageno << 16 in an int, its bytes from the third on: the row.
LargeRow(n) ==
  LET w == n % IntPages
      signed == IF w >= IntPages \div 2 THEN w - IntPages ELSE w
  IN signed % RowSpan

LP_readPage == <<Cmd("read0"), Addr(LargeRow(x), 1), Cmd("readstart"), WaitReady, Get(2)>>
LP_readOob  == <<Cmd("read0"), Addr(LargeRow(x), 3), Cmd("readstart"), WaitReady, Get(1)>>
LP_writePage(d) ==
  <<Cmd("seqin"), Addr(LargeRow(x), 1), Put(d), Cmd("pageprog"), WaitReady, Status(FALSE)>>
LP_eraseBlock ==
  <<Cmd("erase1"), Addr(x, 1), Cmd("erase2"), WaitReady, Status(FALSE), Status(FALSE)>>

SP_readPage == <<Cmd("read0"), Addr(x, 1), Get(1), Cmd("read1"), Addr(x, 1), Get(1)>>
SP_readOob  == <<Cmd("readoob"), Addr(x, 1), Get(1)>>

SP_writePage_NoPointer(d) ==
  << Cmd("read0"), Cmd("seqin"), Addr(x, 1), Put(SubSeq(d, 1, 1)), Cmd("pageprog"), Status(TRUE),
     Cmd("seqin"), Addr(x, 1), Put(SubSeq(d, 2, 2)), Cmd("pageprog"), Status(TRUE),
     Cmd("readoob"), Cmd("seqin"), Addr(x, 1), Put(SubSeq(d, 3, 3)), Cmd("pageprog"), Status(FALSE) >>

\* Three programs; a failure of the first two is returned at once.
SP_writePage(d) ==
  << Cmd("read0"), Cmd("seqin"), Addr(x, 1), Put(SubSeq(d, 1, 1)), Cmd("pageprog"), Status(TRUE),
     Cmd("read1"), Cmd("seqin"), Addr(x, 1), Put(SubSeq(d, 2, 2)), Cmd("pageprog"), Status(TRUE),
     Cmd("readoob"), Cmd("seqin"), Addr(x, 1), Put(SubSeq(d, 3, 3)), Cmd("pageprog"), Status(FALSE) >>

\* The argument is a page, not a block.
SP_eraseBlock_Block ==
  <<Cmd("erase1"), Addr(x * PagesPerBlock[kind], 1), Cmd("erase2"), WaitReady, Status(FALSE)>>
SP_eraseBlock == <<Cmd("erase1"), Addr(x, 1), Cmd("erase2"), WaitReady, Status(FALSE)>>

If(b, s) == IF b THEN s ELSE <<>>

readPage ==
  IF kind = "large" THEN If(access # "oob", LP_readPage) \o If(access # "main", LP_readOob)
  ELSE If(access # "oob", SP_readPage) \o If(access # "main", SP_readOob)

\* Writing main or spare area alone is refused here, after the block is erased.
writePage(d) ==
  IF access # "both" THEN <<Exit>> ELSE IF kind = "large" THEN LP_writePage(d) ELSE SP_writePage(d)

eraseBlock == IF kind = "large" THEN LP_eraseBlock ELSE SP_eraseBlock

UnitsOf(a) == CASE a = "main" -> {1, 2} [] a = "oob" -> {3} [] a = "both" -> Units
Size == Cardinality(UnitsOf(access))

-----------------------------------------------------------------------------
(***************************************************************************)
(* The chip.                                                               *)
(***************************************************************************)
Pointer == [read0 |-> 1, read1 |-> 2, readoob |-> 3]
Clear == [u \in Units |-> Blank]

Merged(old, new) ==
  IF new = Blank \/ old = new THEN old ELSE IF old = Blank THEN new ELSE Junk

\* While it works, a chip takes no command but READ STATUS.
Command(c) ==
  IF busy # "none" /\ c # "status" THEN UNCHANGED chip
  ELSE
    /\ cmd' = c
    /\ area' = IF c \in DOMAIN Pointer THEN Pointer[c] ELSE area
    /\ latch' = IF c = "seqin" THEN Clear ELSE latch
    /\ busy' = CASE c = "readstart" /\ cmd = "read0" /\ kind = "large" -> "read"
                 [] c = "pageprog" /\ cmd = "seqin" -> "program"
                 [] c = "erase2" /\ cmd = "erase1" -> "erase"
                 [] OTHER -> busy
    /\ UNCHANGED <<row, fail, cells, trouble>>

Address(r, u) ==
  IF busy # "none" THEN UNCHANGED chip
  ELSE
    /\ row' = r % NPages
    /\ area' = IF kind = "large" THEN u ELSE area
    /\ busy' = IF kind = "small" /\ cmd \in DOMAIN Pointer THEN "read" ELSE busy
    /\ UNCHANGED <<cmd, latch, fail, cells, trouble>>

DataIn(d) ==
  IF busy # "none" \/ cmd # "seqin" THEN UNCHANGED chip
  ELSE
    /\ latch' = [u \in Units |-> IF u - area + 1 \in DOMAIN d THEN d[u - area + 1] ELSE latch[u]]
    /\ UNCHANGED <<cmd, area, row, busy, fail, cells, trouble>>

\* n units from the one addressed on.
DataOut(n) ==
  [i \in 1 .. n |-> IF busy = "none" /\ area + i - 1 \in Units THEN latch[area + i - 1] ELSE Junk]

ChipWorks ==
  /\ busy # "none"
  /\ busy' = "none"
  /\ latch' = IF busy = "read" THEN cells[row] ELSE latch
  /\ \/ /\ cells' = CASE busy = "program" -> [cells EXCEPT ![row] = [u \in Units |-> Merged(@[u], latch[u])]]
                      [] busy = "erase" -> [q \in Pages |-> IF SameBlock(q, row) THEN Clear ELSE cells[q]]
                      [] OTHER -> cells
        /\ fail' = FALSE
        /\ trouble' = IF trouble = "late" THEN "was late" ELSE trouble
     \/ /\ busy \in {"program", "erase"} /\ trouble = "no"
        /\ cells' = [q \in Pages |-> [u \in Units |->
             IF q = row /\ (busy = "erase" \/ latch[u] # Blank) THEN Junk ELSE cells[q][u]]]
        /\ fail' = TRUE
        /\ trouble' = "failed"
  /\ UNCHANGED <<kind, main, calls, pageBuf, cmd, area, row>>

ChipLate ==
  /\ busy # "none" /\ trouble = "no"
  /\ trouble' = "late"
  /\ UNCHANGED <<kind, main, calls, pageBuf, cmd, area, row, latch, busy, fail, cells>>

-----------------------------------------------------------------------------
(***************************************************************************)
(* The calls.                                                              *)
(***************************************************************************)
\* The chip is ready when the next call reaches it, but for one operation that
\* takes longer than the driver waits.
InTime == busy = "none" \/ trouble = "late"

Send ==
  /\ calls # <<>> /\ InTime
  /\ LET c == Head(calls)
     IN CASE c.do = "cmd"  -> Command(c.cmd)
          [] c.do = "addr" -> Address(c.row, c.unit)
          [] c.do = "data" -> DataIn(c.units)
          [] OTHER -> FALSE
  /\ calls' = Tail(calls)
  /\ UNCHANGED <<kind, main, pageBuf>>

\* After a hundred polls waitReady gives up, and the driver goes on.
Wait ==
  /\ calls # <<>> /\ Head(calls).do = "wait" /\ InTime
  /\ calls' = Tail(calls)
  /\ UNCHANGED <<kind, main, pageBuf, chip>>

Receive ==
  /\ calls # <<>> /\ Head(calls).do = "get" /\ InTime
  /\ pageBuf' = pageBuf \o DataOut(Head(calls).units)
  /\ calls' = Tail(calls)
  /\ UNCHANGED <<kind, main, chip>>

CheckStatus_Retry ==
  /\ calls # <<>> /\ Head(calls).do = "status" /\ InTime
  /\ calls' = IF fail THEN calls ELSE Tail(calls)
  /\ cmd' = "status"
  /\ UNCHANGED <<kind, main, pageBuf, area, row, latch, busy, fail, cells, trouble>>

\* The bit of a chip at work says nothing.
CheckStatus ==
  /\ calls # <<>> /\ Head(calls).do = "status" /\ InTime
  /\ \E failed \in IF busy = "none" THEN {fail} ELSE BOOLEAN :
       calls' = IF Head(calls).stop /\ failed THEN <<>> ELSE Tail(calls)
  /\ cmd' = "status"
  /\ UNCHANGED <<kind, main, pageBuf, area, row, latch, busy, fail, cells, trouble>>

ExitCall ==
  /\ calls # <<>> /\ Head(calls).do = "exit"
  /\ calls' = <<>>
  /\ pc' = "exit"
  /\ UNCHANGED <<kind, line, x, file, at, verifyErrors, options, runs, pageBuf, chip>>

-----------------------------------------------------------------------------
(***************************************************************************)
(* main.                                                                   *)
(***************************************************************************)
NewLine ==
  /\ pc' = "options"
  /\ action' = "none" /\ access' = "both" /\ named' = FALSE
  /\ start_pageno' = -1 /\ end_pageno' = -1
  /\ x' = 0 /\ at' = 0 /\ verifyErrors' = 0
  /\ options' = MaxOptions
  /\ calls' = <<>> /\ pageBuf' = <<>>

ToolInit ==
  /\ kind \in {"small", "large"}
  /\ pc = "options"
  /\ action = "none" /\ access = "both" /\ named = FALSE
  /\ start_pageno = -1 /\ end_pageno = -1
  /\ x = 0 /\ at = 0 /\ verifyErrors = 0
  /\ options = MaxOptions /\ runs = 1
  /\ calls = <<>> /\ pageBuf = <<>>
  /\ file \in Files
  /\ cmd = "none" /\ area = 1 /\ row = 0 /\ latch = Clear
  /\ busy = "none" /\ fail = FALSE /\ trouble = "no"
  /\ cells = [q \in Pages |-> [u \in Units |-> Junk]]

Parses ==
  /\ pc = "options" /\ options > 0
  /\ options' = options - 1
  /\ UNCHANGED <<kind, pc, x, file, at, verifyErrors, runs, calls, pageBuf, chip>>

\* -i, -r, -w and -v; -u makes a verification of what it finds.
ParseAction(a) ==
  /\ Parses
  /\ action' = a
  /\ named' = (named \/ a # "id")
  /\ UNCHANGED <<access, start_pageno, end_pageno>>

ParseUsb ==
  /\ Parses
  /\ action' = "verify"
  /\ UNCHANGED <<access, named, start_pageno, end_pageno>>

ParseAccess(a) ==
  /\ Parses
  /\ access' = a
  /\ UNCHANGED <<action, named, start_pageno, end_pageno>>

ParsePages(a, b) ==
  /\ Parses
  /\ start_pageno' = a /\ end_pageno' = b
  /\ UNCHANGED <<action, access, named>>

\* Usage, an unknown chip (a busy one answers anything), or no such file.
GiveUp ==
  /\ pc = "options"
  /\ \/ action = "none"
     \/ busy # "none" /\ trouble = "late"
     \/ action # "id" /\ ~named
  /\ pc' = "exit"
  /\ UNCHANGED <<kind, line, x, file, at, verifyErrors, options, runs, calls, pageBuf, chip>>

\* READ ID, then the file is opened; reading empties it.
Open ==
  /\ pc = "options" /\ action # "none" /\ busy = "none"
  /\ action # "id" => named
  /\ pc' = IF action = "id" THEN "done" ELSE action
  /\ start_pageno' = IF start_pageno = -1 THEN 0 ELSE start_pageno
  /\ end_pageno' = IF end_pageno = -1 THEN NPages ELSE end_pageno
  /\ x' = start_pageno'
  /\ file' = IF action = "read" THEN <<>> ELSE file
  /\ cmd' = "readid"
  /\ UNCHANGED <<kind, action, access, named, at, verifyErrors, options, runs, calls,
                 pageBuf, area, row, latch, busy, fail, cells, trouble>>

Turn(a) == pc = a /\ x < end_pageno /\ calls = <<>>

FirstCalls == pageBuf = <<>>

ReadPage ==
  /\ Turn("read") \/ Turn("verify")
  /\ FirstCalls
  /\ calls' = readPage
  /\ UNCHANGED <<kind, main, pageBuf, chip>>

\* The page goes to the file, or the disk is full.
KeepPage ==
  /\ Turn("read") /\ ~FirstCalls
  /\ \/ /\ file' = file \o pageBuf
        /\ x' = x + 1
        /\ UNCHANGED pc
     \/ /\ pc' = "exit"
        /\ UNCHANGED <<file, x>>
  /\ pageBuf' = <<>>
  /\ UNCHANGED <<kind, line, at, verifyErrors, options, runs, calls, chip>>

Short == Len(file) - at < Size
Chunk == SubSeq(file, at + 1, at + Size)

OutOfFile ==
  /\ \/ Turn("verify") /\ ~FirstCalls
     \/ Turn("write") /\ FirstCalls
  /\ Short
  /\ pc' = "exit"
  /\ UNCHANGED <<kind, line, x, file, at, verifyErrors, options, runs, calls, pageBuf, chip>>

Differences_LastOnly(a, b) == IF a[Len(a)] # b[Len(b)] THEN 1 ELSE 0
Differences(a, b) == Cardinality({i \in DOMAIN a : a[i] # b[i]})

ComparePage ==
  /\ Turn("verify") /\ ~FirstCalls
  /\ ~Short
  /\ verifyErrors' = verifyErrors + Differences(pageBuf, Chunk)
  /\ at' = at + Size
  /\ x' = x + 1
  /\ pageBuf' = <<>>
  /\ UNCHANGED <<kind, pc, line, file, options, runs, calls, chip>>

\* The result of writePage is not looked at.
WritePage ==
  /\ Turn("write") /\ FirstCalls
  /\ ~Short
  /\ pageBuf' = Chunk
  /\ at' = at + Size
  /\ calls' = If(x % EraseEvery = 0, eraseBlock) \o writePage(Chunk)
  /\ UNCHANGED <<kind, pc, line, x, file, verifyErrors, options, runs, chip>>

PageWritten ==
  /\ Turn("write") /\ ~FirstCalls
  /\ x' = x + 1
  /\ pageBuf' = <<>>
  /\ UNCHANGED <<kind, pc, line, file, at, verifyErrors, options, runs, calls, chip>>

AllDone ==
  /\ pc \in {"read", "verify", "write"} /\ x >= end_pageno
  /\ pc' = "done"
  /\ UNCHANGED <<kind, line, x, file, at, verifyErrors, options, runs, calls, pageBuf, chip>>

\* A call fails, or the user stops the program.
Interrupt ==
  /\ pc \in {"read", "verify", "write"} /\ runs < MaxRuns /\ trouble = "no"
  /\ trouble' = "stopped"
  /\ pc' = "exit"
  /\ calls' = <<>>
  /\ UNCHANGED <<kind, line, x, file, at, verifyErrors, options, runs, pageBuf,
                 cmd, area, row, latch, busy, fail, cells>>

Rerun ==
  /\ pc \in {"exit", "done"} /\ runs < MaxRuns
  /\ runs' = runs + 1
  /\ NewLine
  /\ UNCHANGED <<kind, file, chip>>

Call == Send \/ Wait \/ Receive \/ CheckStatus \/ ExitCall

Parse ==
  \/ \E a \in {"id", "read", "write", "verify"} : ParseAction(a)
  \/ ParseUsb
  \/ \E a \in {"main", "oob", "both"} : ParseAccess(a)
  \/ \E a, b \in PageNos : a < b /\ ParsePages(a, b)

Step ==
  \/ GiveUp \/ Open
  \/ ReadPage \/ KeepPage \/ OutOfFile \/ ComparePage \/ WritePage \/ PageWritten \/ AllDone

ToolNext == Call \/ ChipWorks \/ ChipLate \/ Parse \/ Step \/ Interrupt \/ Rerun

-----------------------------------------------------------------------------
(***************************************************************************)
(* Properties.                                                             *)
(***************************************************************************)
\* The chip's registers, the file and the buffer hold what they may; main's
\* buffer never outgrows the access type's size.
ToolTypeOK ==
  /\ pc \in {"options", "read", "verify", "write", "exit", "done"}
  /\ area \in Units /\ row \in Pages
  /\ latch \in [Units -> Content]
  /\ cells \in [Pages -> [Units -> Content]]
  /\ busy \in {"none", "read", "program", "erase"}
  /\ file \in Seq(Content)
  /\ pageBuf \in Seq(Content) /\ Len(pageBuf) <= Size
  /\ at \in 0 .. Len(file)

\* Main erases when it gets to page a.
Erases(a) == a >= start_pageno /\ a % EraseEvery = 0

\* The chip has kept up and nothing has failed on it.
Untroubled == trouble \in {"no", "stopped"}

\* A page that main erased before it wrote it, and whose block main does not
\* erase again for the next ones, holds its part of the file.  On
\* chips of more than 32 pages per block only the last 32 qualify.
WrittenHeld ==
  pc = "write" /\ Untroubled =>
    \A q \in start_pageno .. x - 1 :
      /\ \E a \in 0 .. q : Erases(a) /\ SameBlock(a, q)
      /\ \A a \in q + 1 .. x : ~(Erases(a) /\ SameBlock(a, q))
      => cells[q % NPages] = [u \in Units |-> file[3 * (q - start_pageno) + u]]

\* A verification that finds no difference has compared every unit of the access
\* type, of every page of the range, with the file.
VerifyExact ==
  pc = "verify" /\ Untroubled /\ calls = <<>> /\ pageBuf = <<>> =>
    (verifyErrors = 0) =
      (\A q \in start_pageno .. x - 1, i \in 1 .. Size :
         file[Size * (q - start_pageno) + i]
           = cells[q % NPages][IF access = "oob" THEN 3 ELSE i])

\* While main works on a chip that keeps up with it, pages change in its write
\* loop only, and no others than the page it is at or the block it is in.
OnlyItsPage ==
  [][Untroubled /\ pc \in {"read", "verify", "write"} =>
       \A q \in Pages : cells'[q] # cells[q] =>
         pc = "write" /\ (IF busy = "erase" THEN SameBlock(q, x) ELSE q = x)]_toolVars

\* Every run ends, a chip that is late or fails notwithstanding.
RunEnds == pc \in {"read", "write", "verify"} ~> pc \in {"exit", "done"}
=============================================================================
