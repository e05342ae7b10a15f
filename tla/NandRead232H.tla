----------------------------- MODULE NandRead232H -----------------------------
(***************************************************************************)
(* nandread_FTDI232H.c: main and the operations it puts together from the  *)
(* functions of PinBus.  Options act as getopt meets them: -p and -s set a *)
(* page, -e erases, -w and -W program from the file, -r and -R read into   *)
(* it, -E switches the chip's ECC.                                         *)
(***************************************************************************)
EXTENDS PinBus

CONSTANTS
  Pages,        \* arguments of -p and -s
  Counts,       \* arguments of -e, -r, -w
  Files,        \* contents of the file named by -f at the start
  Heap,         \* what buffers, malloc'ed or local, hold before they are filled
  Stack,        \* values totPages may have before it is set
  Ecc(_),       \* brcm_nand(0, data): the data with its spare area recalculated
  MaxOptions,   \* bound: options per command line
  MaxRuns       \* bound: runs of the program

ASSUME ReaderAssumption ==
  /\ Pages \subseteq Nat /\ Counts \subseteq Nat /\ Stack \subseteq Nat
  /\ Files \subseteq Seq(Byte) /\ Files # {} /\ Heap \subseteq Byte
  /\ \A p \in Pages, n \in Counts \cup Stack :
       (p + n) * Nand.page_size * Nand.block_size < 2^30
  /\ MaxOptions \in Nat /\ MaxRuns \in Nat \ {0}

Full == Nand.page_size + Nand.spare_size

VARIABLES
  pc,                  \* where main is
  starting_erasepage,  \* -p, 65535 (0xFFFF) before
  startingpage,        \* -s, 65535 before
  totPages,            \* of the last -r, -R or -w
  file,                \* contents of the file
  at,                  \* -w, -W: bytes of the file read so far
  eof,                 \* feof(fp)
  data,                \* the page buffer
  nPage, last,         \* the loop over pages, last excluded
  options, runs        \* bounds: options left, runs so far

main == <<starting_erasepage, startingpage, totPages, file, at, eof, data, nPage, last>>
vars == <<pc, main, options, runs, mishaps, bus, chip>>

Unset == 65535

-----------------------------------------------------------------------------
(***************************************************************************)
(* The operations.                                                         *)
(***************************************************************************)
read_memory(a, size) ==
  << Call("latch_command", <<CMD_READ1>>), Call("setcolumns", a), Call("setrows", a),
     Call("latch_command", <<CMD_READ2>>), WaitRdy, Call("read_data", size) >>

ReadStatus == << WaitRdy, Call("latch_command", <<CMD_READSTATUS>>), Call("read_data", 1) >>

\* One turn of the loop of erase_page.
erase_page_NoWP(a) ==
  << Call("latch_command", <<CMD_BLOCKERASE1>>), Call("setrows", a),
     Call("latch_command", <<CMD_BLOCKERASE2>>) >> \o ReadStatus \o << Shadow("WP", FALSE) >>

erase_page(a) ==
  << Shadow("WP", TRUE),
     Call("latch_command", <<CMD_BLOCKERASE1>>), Call("setrows", a),
     Call("latch_command", <<CMD_BLOCKERASE2>>) >> \o ReadStatus \o << Shadow("WP", FALSE) >>

program_page_WPEarly(a, d) ==
  << Shadow("WP", TRUE),
     Call("latch_command", <<CMD_PAGEPROGRAM1>>), Call("setcolumns", a), Call("setrows", a),
     Call("latch_data_out", d),
     Call("latch_command", <<CMD_PAGEPROGRAM2>>), Pin("WP", FALSE) >> \o ReadStatus

\* With nRE low it returns at once.
program_page(a, d) ==
  IF "RE" \notin shadow THEN << Shadow("WP", TRUE) >>
  ELSE << Shadow("WP", TRUE),
          Call("latch_command", <<CMD_PAGEPROGRAM1>>), Call("setcolumns", a), Call("setrows", a),
          Call("latch_data_out", d),
          Call("latch_command", <<CMD_PAGEPROGRAM2>>) >>
         \o ReadStatus \o << Shadow("WP", FALSE) >>

AllFF_First(d) == d[1] = FF

AllFF(d) == \A i \in DOMAIN d : d[i] = FF

set_ecc(enable) ==
  << Call("latch_command", <<CMD_EN_ECC>>), Pin("ALE", TRUE) >> \o Strobe(144)
    \o << Pin("ALE", FALSE), Call("latch_data_out", <<IF enable THEN 8 ELSE 0, 0, 0, 0>>) >>

\* main up to the ID register: nRE high, nCE and nWP low, reset, ECC off.
Boot ==
  << Input, Shadow("RE", TRUE), Shadow("CE", FALSE), Pin("WP", FALSE),
     Call("latch_command", <<CMD_RESET>>) >> \o set_ecc(FALSE)
    \o << Call("latch_command", <<CMD_READID, 0>>), Call("read_data", 5) >>

-----------------------------------------------------------------------------
\* The global controlbus_value of a new process is 0; the pins keep their levels.
StartsProcess ==
  /\ pc' = "boot"
  /\ todo' = Boot
  /\ shadow' = {}
  /\ starting_erasepage' = Unset /\ startingpage' = Unset
  /\ totPages' \in Stack
  /\ at' = 0 /\ eof' = FALSE /\ data' = <<>> /\ nPage' = 0 /\ last' = 0
  /\ InBuf' = <<>>
  /\ options' = MaxOptions

Init ==
  /\ pc = "boot"
  /\ todo = Boot
  /\ shadow = {} /\ pins = {} /\ io = -1 /\ out = -1
  /\ starting_erasepage = Unset /\ startingpage = Unset
  /\ totPages \in Stack
  /\ file \in Files
  /\ at = 0 /\ eof = FALSE /\ data = <<>> /\ nPage = 0 /\ last = 0
  /\ InBuf = <<>>
  /\ mode = CMD_RESET /\ addr = <<>> /\ col = 0 /\ busy = "none"
  /\ reg = [k \in Cols |-> FF]
  /\ cells \in {[r \in Rows |-> [k \in Cols |-> b]] : b \in {0, FF}}
  /\ op = NoOp /\ acted = FALSE /\ stopped = FALSE
  /\ options = MaxOptions
  /\ runs = 1
  /\ mishaps = <<>>

Bus ==
  /\ pc # "dead"
  /\ Move
  /\ UNCHANGED <<pc, main, options, runs>>

Chip ==
  /\ ChipFinishes
  /\ UNCHANGED <<pc, main, options, runs, mishaps>>

ChunkSize == IF pc \in {"w", "r"} THEN Nand.page_size ELSE Full

\* What the buffer of read_data holds of its next byte: in the loops of -r and -R
\* that of the page before, which fwrite has put at the end of the file.
Stale ==
  IF pc \in {"r", "R"} /\ nPage > startingpage
  THEN {file[Len(file) - ChunkSize + Len(InBuf) + 1]}
  ELSE Heap

Failure ==
  /\ pc # "dead" /\ todo # <<>>
  /\ WriteFails \/ SampleFails(Stale) \/ WaitEndsEarly \/ WaitFails
  /\ UNCHANGED <<pc, main, options, runs>>

\* check_ID_register found the chip, or no option is looked at.  A reset that did
\* not reach the chip leaves what was going on to it.
Identified ==
  /\ pc = "boot" /\ todo = <<>>
  /\ pc' = "options"
  /\ options' \in {options, 0}
  /\ op' = NoOp /\ acted' = FALSE /\ stopped' = FALSE
  /\ UNCHANGED <<main, runs, mishaps, bus, mode, addr, reg, col, busy, cells>>

-----------------------------------------------------------------------------
(***************************************************************************)
(* Options.                                                                *)
(***************************************************************************)
TakesOption ==
  /\ pc = "options" /\ options > 0
  /\ options' = options - 1
  /\ UNCHANGED <<runs, mishaps>>

Quiet == UNCHANGED <<bus, chip>>

SetErasePage(p) ==
  /\ TakesOption
  /\ starting_erasepage' = p
  /\ UNCHANGED <<pc, startingpage, totPages, file, at, eof, data, nPage, last>>
  /\ Quiet

SetPage(p) ==
  /\ TakesOption
  /\ startingpage' = p
  /\ UNCHANGED <<pc, starting_erasepage, totPages, file, at, eof, data, nPage, last>>
  /\ Quiet

EraseOption(n) ==
  /\ TakesOption
  /\ starting_erasepage # Unset
  /\ pc' = "erase"
  /\ nPage' = starting_erasepage
  /\ last' = starting_erasepage + n
  /\ UNCHANGED <<starting_erasepage, startingpage, totPages, file, at, eof, data>>
  /\ Quiet

\* fopen(.., "wb+") empties the file.
ReadOption(k, n) ==
  /\ TakesOption
  /\ startingpage # Unset
  /\ pc' = k /\ k \in {"r", "R"}
  /\ totPages' = n
  /\ nPage' = startingpage
  /\ last' = startingpage + n
  /\ file' = <<>>
  /\ UNCHANGED <<starting_erasepage, startingpage, at, eof, data>>
  /\ Quiet

Mallocs(n) == data' \in {[i \in 1 .. n |-> b] : b \in Heap}

\* -W does not set totPages.
WriteOption(k, n) ==
  /\ TakesOption
  /\ startingpage # Unset
  /\ pc' = k /\ k \in {"w", "W"}
  /\ totPages' = IF k = "w" THEN n ELSE totPages
  /\ nPage' = startingpage
  /\ last' = startingpage + totPages'
  /\ at' = 0 /\ eof' = FALSE
  /\ Mallocs(IF k = "w" THEN Nand.page_size ELSE Full)
  /\ UNCHANGED <<starting_erasepage, startingpage, file>>
  /\ Quiet

EccOption(enable) ==
  /\ TakesOption
  /\ pc' = "ecc"
  /\ todo' = set_ecc(enable)
  /\ UNCHANGED <<main, shadow, pins, io, out, InBuf, chip>>

-----------------------------------------------------------------------------
(***************************************************************************)
(* Turns of the loops.  Each starts with no moves left of the last one.    *)
(***************************************************************************)
Ready(k) == pc = k /\ todo = <<>>

Begins(o, moves) ==
  /\ op = NoOp
  /\ op' = o
  /\ todo' = moves
  /\ InBuf' = <<>>
  /\ UNCHANGED <<shadow, pins, io, out, mode, addr, reg, col, busy, cells, acted, stopped>>

EraseAddress(n) == Nand.page_size * Nand.block_size * n

Erase ==
  /\ Ready("erase") /\ nPage < last
  /\ Begins([kind |-> "erase", at |-> EraseAddress(nPage), data |-> <<>>],
            erase_page(EraseAddress(nPage)))
  /\ UNCHANGED <<pc, main, options, runs, mishaps>>

\* The operation returns; what its status said is printed and forgotten.
Returned ==
  /\ op # NoOp /\ todo = <<>>
  /\ op' = NoOp /\ acted' = FALSE
  /\ UNCHANGED <<mode, addr, reg, col, busy, cells, stopped>>

EraseDone ==
  /\ pc = "erase"
  /\ Returned
  /\ nPage' = nPage + 1
  /\ UNCHANGED <<pc, starting_erasepage, startingpage, totPages, file, at, eof, data, last,
                 options, runs, mishaps, bus>>

Fread_NoEof ==
  LET got == IF Len(file) - at < ChunkSize THEN Len(file) - at ELSE ChunkSize
  IN /\ at' = at + got
     /\ eof' = FALSE
     /\ data' = [i \in 1 .. ChunkSize |-> IF i <= got THEN file[at + i] ELSE data[i]]

\* fread leaves what a short read does not reach; end of file is noticed by
\* a short read only.
Fread ==
  LET got == IF Len(file) - at < ChunkSize THEN Len(file) - at ELSE ChunkSize
  IN /\ at' = at + got
     /\ eof' = (got < ChunkSize)
     /\ data' = [i \in 1 .. ChunkSize |-> IF i <= got THEN file[at + i] ELSE data[i]]

Chunk == IF pc = "W" THEN Ecc(data') ELSE data'

Writing == pc \in {"w", "W"} /\ todo = <<>> /\ op = NoOp /\ nPage < last /\ ~eof

\* program_page skips a page of 0xFF.
SkipPage ==
  /\ Writing
  /\ Fread
  /\ AllFF(Chunk)
  /\ nPage' = nPage + 1
  /\ UNCHANGED <<pc, starting_erasepage, startingpage, totPages, file, last, options, runs,
                 mishaps>>
  /\ Quiet

PageAddress(n) == n * ChunkSize

Program ==
  /\ Writing
  /\ Fread
  /\ ~AllFF(Chunk)
  /\ Begins([kind |-> "program", at |-> PageAddress(nPage), data |-> Chunk],
            program_page(PageAddress(nPage), Chunk))
  /\ UNCHANGED <<pc, starting_erasepage, startingpage, totPages, file, nPage, last, options,
                 runs, mishaps>>

\* -W: brcm_nand has written the spare area into the buffer.
ProgramDone ==
  /\ pc \in {"w", "W"}
  /\ Returned
  /\ data' = IF pc = "W" THEN Ecc(data) ELSE data
  /\ nPage' = nPage + 1
  /\ UNCHANGED <<pc, starting_erasepage, startingpage, totPages, file, at, eof, last,
                 options, runs, mishaps, bus>>

Read ==
  /\ pc \in {"r", "R"} /\ todo = <<>> /\ nPage < last
  /\ Begins([kind |-> "read", at |-> PageAddress(nPage), data |-> <<>>],
            read_memory(PageAddress(nPage), ChunkSize))
  /\ UNCHANGED <<pc, main, options, runs, mishaps>>

ReadDone ==
  /\ pc \in {"r", "R"}
  /\ Returned
  /\ file' = file \o InBuf
  /\ nPage' = nPage + 1
  /\ UNCHANGED <<pc, starting_erasepage, startingpage, totPages, at, eof, data, last,
                 options, runs, mishaps, bus>>

\* -R reads a page with its spare area into a buffer of a page: the program
\* may not survive it.
Overrun ==
  /\ pc = "R" /\ todo = <<>> /\ op # NoOp
  /\ pc' = "dead"
  /\ UNCHANGED <<main, options, runs, mishaps, bus, chip>>

LoopDone ==
  /\ pc \in {"erase", "r", "R", "w", "W", "ecc"}
  /\ todo = <<>> /\ op = NoOp
  /\ pc = "ecc" \/ nPage >= last \/ eof
  /\ pc' = "options"
  /\ at' = 0 /\ eof' = FALSE /\ data' = <<>> /\ nPage' = 0 /\ last' = 0
  /\ UNCHANGED <<starting_erasepage, startingpage, totPages, file, options, runs, mishaps,
                 shadow, pins, io, out, todo, InBuf, chip>>

\* nCE goes high in the shadow only.
EndOfLine ==
  /\ pc = "options"
  /\ pc' = "done"
  /\ shadow' = shadow \cup {"CE"}
  /\ UNCHANGED <<main, options, runs, mishaps, pins, io, out, todo, InBuf, chip>>

-----------------------------------------------------------------------------
Interrupt ==
  /\ pc \notin {"dead", "done"} /\ runs < MaxRuns
  /\ pc' = "dead"
  /\ stopped' = TRUE
  /\ UNCHANGED <<main, options, runs, mishaps, bus, mode, addr, reg, col, busy, cells, op,
                 acted>>

Restart ==
  /\ pc \in {"dead", "done"} /\ runs < MaxRuns
  /\ runs' = runs + 1
  /\ StartsProcess
  /\ stopped' = TRUE
  /\ UNCHANGED <<file, pins, io, out, mode, addr, reg, col, busy, cells, op, acted, mishaps>>

Finished ==
  /\ pc \in {"dead", "done"} /\ runs = MaxRuns
  /\ UNCHANGED vars

Option ==
  \/ \E p \in Pages : SetErasePage(p) \/ SetPage(p)
  \/ \E n \in Counts : EraseOption(n)
  \/ \E n \in Counts, k \in {"r", "R"} : ReadOption(k, n)
  \/ \E n \in Counts, k \in {"w", "W"} : WriteOption(k, n)
  \/ \E b \in BOOLEAN : EccOption(b)
  \/ EndOfLine

Loop ==
  \/ Erase \/ EraseDone
  \/ SkipPage \/ Program \/ ProgramDone
  \/ Read \/ ReadDone \/ Overrun
  \/ LoopDone

Next ==
  \/ Bus \/ Chip \/ Failure
  \/ Identified \/ Option \/ Loop
  \/ Interrupt \/ Restart \/ Finished

Spec == Init /\ [][Next]_vars

\* The program waits for nothing but the busy line, the chip finishes, and USB calls
\* do not fail for ever.
FairSpec == Spec /\ WF_vars(Bus) /\ WF_vars(Chip) /\ WF_vars(Identified) /\ WF_vars(Loop)
                 /\ WF_vars(EndOfLine)
-----------------------------------------------------------------------------
(***************************************************************************)
(* Properties.                                                             *)
(***************************************************************************)
\* Shadow and pins are sets of control pins, the chip's registers hold what its
\* data sheet says they do, and only the running operation has moves left.
TypeOK ==
  /\ shadow \subseteq {"CE", "WP", "RE", "WE", "ALE", "CLE"}
  /\ pins \subseteq {"CE", "WP", "RE", "WE", "ALE", "CLE"}
  /\ io \in Byte \cup {-1} /\ out \in Byte \cup {-1}
  /\ InBuf \in Seq(Byte) /\ addr \in Seq(Byte)
  /\ Len(addr) <= IF Nand.type = "MT29" THEN 4 ELSE 5
  /\ mode \in Byte /\ col \in Nat
  /\ reg \in [Cols -> Byte]
  /\ busy \in {"none", "read", "program", "erase"}
  /\ cells \in [Rows -> [Cols -> Byte]]
  /\ op.kind \in {"none", "read", "program", "erase"}
  /\ acted \in BOOLEAN /\ stopped \in BOOLEAN /\ eof \in BOOLEAN
  /\ file \in Seq(Byte) /\ data \in Seq(Byte)
  /\ pc \in {"boot", "options", "erase", "r", "R", "w", "W", "ecc", "dead", "done"}
  /\ todo # <<>> => pc \in {"boot", "erase", "r", "R", "w", "W", "ecc", "dead"}

\* No change of a pin was lost, and the chip was ready when told something.
InStep == ~Had("write") /\ ~Had("early")

\* FTDI and chip never drive the I/O bus at the same time: read_data turns the
\* bus round before nRE falls and back after it has risen.  Failed reads and early
\* waits change nothing in that; a direction that was not set does.
NoContention == Had("write") \/ io = -1 \/ out = -1

\* #WP is changed in the shadow and reaches its pin with a later update: it is
\* high as long as the chip programs or erases for the running program, which
\* lowers it at the end of the wait.
WPHighWhileWorking ==
  InStep /\ busy \in {"program", "erase"} /\ ~stopped => "WP" \in pins

\* The sequences of pins are programs and erases of one run of cells addressed
\* by mem_address: each takes effect once, between its call and its return.
Linear == INSTANCE LinearNand WITH astray <- ~InStep
ImplementsLinear == Linear!Spec

\* A read returns the cells from its address on, as far as their row reaches.
ReadReturnsCells ==
  mishaps = <<>> /\ pc \in {"r", "R"} /\ op # NoOp /\ todo = <<>> =>
    /\ Len(InBuf) = ChunkSize
    /\ \A i \in 1 .. ChunkSize :
         LET k == ColAt(op.at) + i - 1
         IN k \in Cols => InBuf[i] = cells[RowAt(op.at)][k]

\* Writing a file stops at its end: no page is programmed that begins past it.
\* One that begins at it is, since feof speaks after a short read only.  Nothing
\* that goes wrong on the pins gets in the way of the count.
StopsAtEnd ==
  pc \in {"w", "W"} /\ op # NoOp => (nPage - startingpage) * ChunkSize <= Len(file)

\* -w has cleared every bit the file has clear, of the pages it is done with and
\* as far as their rows reach: skipped pages, stale tails and the status byte it
\* ignores, read or not, notwithstanding.
BitsCleared ==
  InStep /\ pc = "w" /\ op = NoOp =>
    \A n \in startingpage .. nPage - 1, i \in 1 .. Nand.page_size :
      LET f == (n - startingpage) * Nand.page_size + i
          a == PageAddress(n) + i - 1
      IN f \in DOMAIN file /\ ColAt(a) \in Cols
           => And(cells[RowAt(a)][ColAt(a)], file[f]) = cells[RowAt(a)][ColAt(a)]

\* Every option comes to an end, and so does the command line; unless the confirm
\* command never got to the bus, whose bit 4 may then keep the wait going for ever.
LineEnds == runs = MaxRuns ~> pc \in {"dead", "done"} \/ Had("write")

\* "busy-wait for high level at the busy line": the wait ends with the chip ready.
WaitsForChip ==
  [][todo # <<>> /\ Head(todo).do = "wait" /\ todo' = Tail(todo) => busy = "none"]_vars
=============================================================================
