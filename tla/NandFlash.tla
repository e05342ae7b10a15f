------------------------------ MODULE NandFlash ------------------------------
(***************************************************************************)
(* The NAND chip on the other side of the cable, as ftdinandreader drives  *)
(* it.  It is external to the repository: what it does on a command,       *)
(* address or data cycle is taken from the sequences of cycles that        *)
(* NandData.cpp sends it and from the values FtdiNand.cpp expects back.    *)
(***************************************************************************)
EXTENDS NandTypes

Commands == {"READ0", "READSTART", "SEQIN", "PAGEPROG", "ERASE1", "ERASE2", "STATUS"}
Work     == {"read", "prog", "erase"}

VARIABLES
  array,  \* contents of the pages
  reg,    \* the page register data cycles go through
  col,    \* columns of reg already clocked out
  mode,   \* the command that decides what the next cycles mean
  row,    \* the latched row address
  busy,   \* the internal operation in progress, "none" when R/#B is high
  fail    \* FAIL bit of the status register

chip == <<array, reg, col, mode, row, busy, fail>>

ChipTypeOK ==
  /\ array \in [Pages -> Content]
  /\ reg \in Content
  /\ col \in 0 .. PageLen
  /\ mode \in Commands \cup {"none"}
  /\ row \in Pages
  /\ busy \in Work \cup {"none"}
  /\ fail \in BOOLEAN

ChipInit ==
  /\ array = [p \in Pages |-> Blank]
  /\ reg = Blank
  /\ col = 0
  /\ mode = "none"
  /\ row = 0
  /\ busy = "none"
  /\ fail = FALSE

-----------------------------------------------------------------------------
(***************************************************************************)
(* Bus cycles.  While busy the chip obeys nothing but READ STATUS.         *)
(***************************************************************************)

ReadStatusCommand(c) ==
  /\ c = "STATUS"
  /\ mode' = "STATUS"
  /\ UNCHANGED <<array, reg, col, row, busy, fail>>

SetupCommand(c) ==
  /\ busy = "none"
  /\ c \in {"READ0", "SEQIN", "ERASE1"}
  /\ mode' = c
  /\ reg' = IF c = "SEQIN" THEN Blank ELSE reg
  /\ UNCHANGED <<array, col, row, busy, fail>>

\* The command that confirms setup command m and starts work w.
Confirms(c, m, w) ==
  <<c, m, w>> \in { <<"READSTART", "READ0", "read">>,
                    <<"PAGEPROG", "SEQIN", "prog">>,
                    <<"ERASE2", "ERASE1", "erase">> }

\* With #WP low a program or erase is not started.
Accepts(c, wp) ==
  /\ busy = "none"
  /\ \E w \in Work : Confirms(c, mode, w) /\ (w = "read" \/ wp)

ConfirmCommand(c, wp) ==
  /\ Accepts(c, wp)
  /\ \E w \in Work : Confirms(c, mode, w) /\ busy' = w
  /\ mode' = c
  /\ fail' = FALSE
  /\ UNCHANGED <<array, reg, col, row>>

IgnoredCommand(c, wp) ==
  /\ c # "STATUS"
  /\ busy # "none" \/ c \notin {"READ0", "SEQIN", "ERASE1"}
  /\ ~Accepts(c, wp)
  /\ UNCHANGED chip

LatchCommand(c, wp) ==
  \/ ReadStatusCommand(c)
  \/ SetupCommand(c)
  \/ ConfirmCommand(c, wp)
  \/ IgnoredCommand(c, wp)

\* The chip has no use for row address bits above its own.
LatchAddress(r) ==
  /\ row' = IF busy = "none" THEN r % NPages ELSE row
  /\ UNCHANGED <<array, reg, col, mode, busy, fail>>

DataIn(d) ==
  /\ reg' = IF busy = "none" /\ mode = "SEQIN" THEN d ELSE reg
  /\ UNCHANGED <<array, col, mode, row, busy, fail>>

\* The status register: NAND_STATUS_FAIL is the only bit the program looks at.
StatusByte == IF fail THEN {FailBit} ELSE {}

\* What n read cycles can clock out: the status byte, the page register from
\* the current column on, and anything at all past its end, while busy or when
\* no read was confirmed.
Outputs(n) ==
  IF mode = "STATUS"
  THEN {[i \in 1 .. n |-> StatusByte]}
  ELSE {s \in [1 .. n -> Byte] :
          mode = "READSTART" /\ busy = "none" =>
            \A i \in 1 .. n : col + i <= PageLen => s[i] = reg[col + i]}

AfterOutput(n) ==
  /\ col' = IF mode = "STATUS" THEN col
            ELSE IF col + n <= PageLen THEN col + n ELSE PageLen
  /\ UNCHANGED <<array, reg, mode, row, busy, fail>>

-----------------------------------------------------------------------------
(***************************************************************************)
(* The end of the internal operation, at a time of the chip's choosing.    *)
(***************************************************************************)

FinishRead ==
  /\ busy = "read"
  /\ reg' = array[row]
  /\ col' = 0
  /\ busy' = "none"
  /\ UNCHANGED <<array, mode, row, fail>>

FinishProgram ==
  /\ busy = "prog"
  /\ busy' = "none"
  /\ \E r \in ProgramResults(array, row, reg) : array' = r.pages /\ fail' = ~r.ok
  /\ UNCHANGED <<reg, col, mode, row>>

FinishErase ==
  /\ busy = "erase"
  /\ busy' = "none"
  /\ \E r \in EraseResults(array, BlockOf(row)) : array' = r.pages /\ fail' = ~r.ok
  /\ UNCHANGED <<reg, col, mode, row>>

ChipStep == FinishRead \/ FinishProgram \/ FinishErase
=============================================================================
