-------------------------------- MODULE PinBus --------------------------------
(***************************************************************************)
(* The pin level of nandread_FTDI232H.c: the shadow of the control bus,    *)
(* the pins it is copied to, the I/O bus, and the functions that wiggle    *)
(* them.  A function is the sequence of its moves, each a write to the     *)
(* FTDI or a read of its pins; `todo' is what is left of the calls.        *)
(* Each of these USB calls may fail, and the program goes on all the same. *)
(*                                                                         *)
(* The chip is external: it latches the I/O bus at rising edges of nWE and *)
(* drives it from a falling to a rising edge of nRE, as the comments of    *)
(* the functions say.                                                      *)
(***************************************************************************)
EXTENDS LinearTypes

CONSTANTS
  Nand,       \* the entry of the table Nand[] that check_ID_register found
  Noise,      \* bytes the chip may drive when it has none to give
  MaxMishaps  \* bound: what goes wrong

\* Rows that the bytes of setrows tell apart, as many as the chip has or more.
RowSpan == IF Nand.type = "MT29" THEN 2^16 ELSE IF Nand.type = "S34" THEN 2^18 ELSE 2^20

ASSUME PinAssumption ==
  /\ Nand.page_size \in Nat \ {0}
  /\ Nand.spare_size \in Nat
  /\ Nand.block_size \in Nat \ {0}
  /\ Nand.type \in {"MT29", "S34", "H27"}
  /\ RowStep = IF Nand.type = "H27" THEN 4 ELSE 1
  /\ RowSpan % NRows = 0
  /\ Noise \subseteq Byte /\ Noise # {}
  /\ MaxMishaps \in Nat

VARIABLES
  shadow,   \* controlbus_value: the set of its pins that are 1
  pins,     \* the control bus after the last controlbus_update_output
  io,       \* the byte the FTDI drives on the I/O bus, -1 while it is an input
  out,      \* the byte the chip drives on the I/O bus, -1 for none
  todo,     \* moves and calls still to make
  InBuf,    \* bytes sampled by the running read_data
  mode,     \* the chip: its last command
  addr,     \* the chip: address bytes latched since that command
  reg,      \* the chip: its page register
  col,      \* the chip: next column of the register
  busy,     \* the chip: work in progress
  cells,    \* the chip: its rows
  op,       \* history: the program or erase under way
  acted,    \* history: whether it has taken effect
  stopped,  \* history: the program was interrupted and the chip not yet reset
  mishaps   \* history: what went wrong: "write", "read" (USB calls), "early" (waits)

chip == <<mode, addr, reg, col, busy, cells, op, acted, stopped>>
bus  == <<shadow, pins, io, out, todo, InBuf>>

CMD_RESET == 255
CMD_READID == 144
CMD_READ1 == 0
CMD_READ2 == 48
CMD_EN_ECC == 239
CMD_BLOCKERASE1 == 96
CMD_BLOCKERASE2 == 208
CMD_READSTATUS == 112
CMD_PAGEPROGRAM1 == 128
CMD_PAGEPROGRAM2 == 16

PIN_RDY_Bit3 == 3
PIN_RDY == 4   \* the bit the busy-wait looks at

-----------------------------------------------------------------------------
(***************************************************************************)
(* Moves, and the functions as sequences of them.                          *)
(***************************************************************************)
Pin(p, v)     == [do |-> "pin", pin |-> p, val |-> v]      \* pin_set and update_output
Shadow(p, v)  == [do |-> "shadow", pin |-> p, val |-> v]   \* pin_set alone
Out(b)        == [do |-> "out", byte |-> b]                \* iobus_update_output
Input         == [do |-> "in"]                             \* iobus_set_direction(IOBUS_IN)
Output        == [do |-> "out", byte |-> FF]               \* iobus_set_direction(IOBUS_OUT)
Sample        == [do |-> "sample"]                         \* ftdi_read_pins
WaitRdy       == [do |-> "wait"]                           \* while (!(... & PIN_RDY))
Call(f, a)    == [do |-> "call", fn |-> f, arg |-> a]

Concat(ss) == [i \in 1 .. 3 * Len(ss) |-> ss[(i + 2) \div 3][1 + ((i + 2) % 3)]]

\* One byte clocked into the chip by nWE.
Strobe(b) == <<Pin("WE", FALSE), Out(b), Pin("WE", TRUE)>>
Strobes(bs) == Concat([i \in DOMAIN bs |-> Strobe(bs[i])])

latch_command(c) ==
  <<Pin("CLE", TRUE)>> \o Strobe(c[1]) \o <<Pin("CLE", FALSE)>>
    \o (IF Len(c) = 1 THEN <<>>
        ELSE <<Pin("ALE", TRUE)>> \o Strobe(c[2]) \o <<Pin("ALE", FALSE)>>)

setcolumns_PageBits(a) ==
  <<Pin("ALE", TRUE)>> \o Strobes(<<(a % Nand.page_size) % 256, (a % Nand.page_size) \div 256>>)

\* ALE is left high for setrows.
setcolumns(a) ==
  <<Pin("ALE", TRUE)>> \o Strobes(<<(a % ColSpan) % 256, (a % ColSpan) \div 256>>)

RowBytes(a) ==
  LET r == RowStep * (a \div ColSpan)
      b == <<r % 256, (r \div 256) % 256, (r \div 256^2) % (IF Nand.type = "S34" THEN 4 ELSE 16)>>
  IN IF Nand.type = "MT29" THEN SubSeq(b, 1, 2) ELSE b

setrows(a) == <<Pin("ALE", TRUE)>> \o Strobes(RowBytes(a)) \o <<Pin("ALE", FALSE)>>

ReadByte == <<Pin("RE", FALSE), Sample, Pin("RE", TRUE)>>

read_data_LateInput(n) ==
  <<Pin("RE", FALSE), Input, Sample, Pin("RE", TRUE)>>
    \o Concat([i \in 1 .. n - 1 |-> ReadByte]) \o <<Output>>

read_data(n) == <<Input>> \o Concat([i \in 1 .. n |-> ReadByte]) \o <<Output>>

latch_data_out(d) == Strobes(d)

\* The checks at the top of a function: with the wrong pins it returns at once.
Refused(f) ==
  \/ f = "latch_command" /\ ("CE" \in shadow \/ "RE" \notin shadow)
  \/ f \in {"setcolumns", "setrows"}
     /\ ("CE" \in shadow \/ "CLE" \in shadow \/ "RE" \notin shadow)
  \/ f = "read_data" /\ ("CE" \in shadow \/ "WE" \notin shadow \/ "ALE" \in shadow)

Body(f, a) ==
  IF f = "latch_command" THEN latch_command(a)
  ELSE IF f = "setcolumns" THEN setcolumns(a)
  ELSE IF f = "setrows" THEN setrows(a)
  ELSE IF f = "read_data" THEN read_data(a)
  ELSE latch_data_out(a)

-----------------------------------------------------------------------------
(***************************************************************************)
(* The chip at an edge of its pins.                                        *)
(***************************************************************************)
NColBytes ==
  IF mode \in {CMD_READ1, CMD_PAGEPROGRAM1} \/ busy \in {"read", "program"} THEN 2 ELSE 0

AddressedRow ==
  LET a(i) == IF i \in DOMAIN addr THEN addr[i] ELSE 0
  IN (a(NColBytes + 1) + 256 * a(NColBytes + 2) + 256^2 * a(NColBytes + 3)) % NRows

\* The rows when the work in progress is done.
Worked ==
  IF busy = "program" THEN [cells EXCEPT ![AddressedRow] = [k \in Cols |-> And(@[k], reg[k])]]
  ELSE IF busy = "erase" THEN EraseBlock(cells, AddressedRow)
  ELSE cells

\* A reset stops a program or erase half way; that of a new process ends the
\* operation of the one before.
Reset ==
  /\ mode' = CMD_RESET
  /\ addr' = <<>>
  /\ busy' = "none"
  /\ \E K \in IF busy \in {"program", "erase"} THEN SUBSET Cols ELSE {{}} :
       cells' = [r \in Rows |-> [k \in Cols |->
                  IF k \in K THEN Worked[r][k] ELSE cells[r][k]]]
  /\ op' = IF stopped THEN NoOp ELSE op
  /\ acted' = (acted /\ ~stopped)
  /\ stopped' = FALSE
  /\ UNCHANGED <<reg, col>>

Setup == {CMD_READ1, CMD_PAGEPROGRAM1, CMD_BLOCKERASE1, CMD_READID, CMD_EN_ECC}

SetupCommand(c) ==
  /\ c \in Setup /\ busy = "none"
  /\ mode' = c
  /\ addr' = <<>>
  /\ reg' = IF c = CMD_PAGEPROGRAM1 THEN [k \in Cols |-> FF] ELSE reg
  /\ UNCHANGED <<col, busy, cells, op, acted, stopped>>

\* The work that confirm command c starts.
Confirmed(c) ==
  IF busy # "none" THEN "none"
  ELSE IF c = CMD_READ2 /\ mode = CMD_READ1 THEN "read"
  ELSE IF "WP" \notin pins THEN "none"
  ELSE IF c = CMD_PAGEPROGRAM2 /\ mode = CMD_PAGEPROGRAM1 THEN "program"
  ELSE IF c = CMD_BLOCKERASE2 /\ mode = CMD_BLOCKERASE1 THEN "erase"
  ELSE "none"

OtherCommand(c) ==
  /\ c # CMD_RESET
  /\ ~(c \in Setup /\ busy = "none")
  /\ mode' = IF Confirmed(c) # "none" \/ c = CMD_READSTATUS THEN c ELSE mode
  /\ busy' = IF Confirmed(c) # "none" THEN Confirmed(c) ELSE busy
  /\ UNCHANGED <<addr, reg, col, cells, op, acted, stopped>>

LatchCommand(c) ==
  \/ c = CMD_RESET /\ Reset
  \/ SetupCommand(c)
  \/ OtherCommand(c)

LatchAddress(b) ==
  /\ addr' = IF busy = "none" THEN Append(addr, b) ELSE addr
  /\ col' = IF busy = "none" /\ Len(addr) = 1 /\ NColBytes = 2
            THEN addr[1] + 256 * b ELSE col
  /\ UNCHANGED <<mode, reg, busy, cells, op, acted, stopped>>

LatchData(b) ==
  /\ reg' = IF mode = CMD_PAGEPROGRAM1 /\ busy = "none" /\ col \in Cols
            THEN [reg EXCEPT ![col] = b] ELSE reg
  /\ col' = IF col \in Cols THEN col + 1 ELSE col
  /\ UNCHANGED <<mode, addr, busy, cells, op, acted, stopped>>

\* The chip selected, nWE rises: what CLE and ALE say the byte is.
Latch(p, b) ==
  IF "CLE" \in p THEN LatchCommand(b)
  ELSE IF "ALE" \in p THEN LatchAddress(b)
  ELSE LatchData(b)

\* What nRE falling makes the chip drive.
Driven ==
  IF mode = CMD_READSTATUS \/ busy # "none" THEN Noise
  ELSE IF mode = CMD_READ2 /\ col \in Cols THEN {reg[col]}
  ELSE Noise

ClockOut ==
  /\ col' = IF mode = CMD_READ2 /\ col \in Cols THEN col + 1 ELSE col
  /\ UNCHANGED <<mode, addr, reg, busy, cells, op, acted, stopped>>

ChipFinishes ==
  /\ busy # "none"
  /\ busy' = "none"
  /\ reg' = IF busy = "read" THEN cells[AddressedRow] ELSE reg
  /\ cells' = Worked
  /\ acted' = (acted \/ busy # "read")
  /\ UNCHANGED <<mode, addr, col, op, stopped, bus>>

-----------------------------------------------------------------------------
(***************************************************************************)
(* Making the next move.                                                   *)
(***************************************************************************)
Set(s, p, v) == IF v THEN s \cup {p} ELSE s \ {p}

Enter ==
  /\ Head(todo).do = "call"
  /\ todo' = (IF Refused(Head(todo).fn) THEN <<>> ELSE Body(Head(todo).fn, Head(todo).arg))
               \o Tail(todo)
  /\ InBuf' = IF Head(todo).fn = "read_data" THEN <<>> ELSE InBuf
  /\ UNCHANGED <<shadow, pins, io, out, chip>>

SetShadow ==
  /\ Head(todo).do = "shadow"
  /\ shadow' = Set(shadow, Head(todo).pin, Head(todo).val)
  /\ todo' = Tail(todo)
  /\ UNCHANGED <<pins, io, out, InBuf, chip>>

Rises(p, q, x) == x \notin p /\ x \in q
Selected == "CE" \notin pins

\* The byte on the I/O bus.
OnBus == IF io # -1 THEN {io} ELSE IF out # -1 THEN {out} ELSE Noise

SetPin ==
  LET new == Set(shadow, Head(todo).pin, Head(todo).val)
  IN /\ Head(todo).do = "pin"
     /\ shadow' = new
     /\ pins' = new
     /\ todo' = Tail(todo)
     /\ IF Selected /\ Rises(pins, new, "WE") THEN \E b \in OnBus : Latch(new, b)
        ELSE IF Selected /\ Rises(new, pins, "RE") THEN ClockOut
        ELSE UNCHANGED chip
     /\ out' \in IF Selected /\ Rises(new, pins, "RE") THEN Driven
                 ELSE IF "RE" \in new THEN {-1} ELSE {out}
     /\ UNCHANGED <<io, InBuf>>

Drive ==
  /\ Head(todo).do = "out"
  /\ io' = Head(todo).byte
  /\ todo' = Tail(todo)
  /\ UNCHANGED <<shadow, pins, out, InBuf, chip>>

Release ==
  /\ Head(todo).do = "in"
  /\ io' = -1
  /\ todo' = Tail(todo)
  /\ UNCHANGED <<shadow, pins, out, InBuf, chip>>

Store(b) ==
  /\ Head(todo).do = "sample"
  /\ InBuf' = Append(InBuf, b)
  /\ todo' = Tail(todo)
  /\ UNCHANGED <<shadow, pins, io, out, chip>>

TakeSample == \E b \in OnBus : Store(b)

\* controlbus_read_input reads the I/O bus too, so what is tested is bit 4 of
\* the confirm command still on it, which has it set: the wait passes at once,
\* whether the chip is ready or not.
Look ==
  /\ Head(todo).do = "wait"
  /\ todo' \in {todo, Tail(todo)}
  /\ UNCHANGED <<shadow, pins, io, out, InBuf, chip>>

Passes == \E b \in OnBus : (todo' = Tail(todo)) <=> (Bit(b, PIN_RDY) = 1)

\* The chip has been quick.
Wait == Look /\ Passes /\ busy = "none"

Move ==
  /\ todo # <<>>
  /\ Enter \/ SetShadow \/ SetPin \/ Drive \/ Release \/ TakeSample \/ Wait
  /\ UNCHANGED mishaps

-----------------------------------------------------------------------------
(***************************************************************************)
(* What goes wrong, and how the program goes on.                           *)
(***************************************************************************)
Mishap(k) == Len(mishaps) < MaxMishaps /\ mishaps' = Append(mishaps, k)

Had(k) == \E i \in DOMAIN mishaps : mishaps[i] = k

\* ftdi_write_data fails, which is printed: the shadow has changed, the pins or
\* the direction of the bus have not.
WriteFails ==
  /\ Head(todo).do \in {"pin", "out", "in"}
  /\ shadow' = IF Head(todo).do = "pin" THEN Set(shadow, Head(todo).pin, Head(todo).val)
               ELSE shadow
  /\ todo' = Tail(todo)
  /\ Mishap("write")
  /\ UNCHANGED <<pins, io, out, InBuf, chip>>

\* ftdi_read_pins fails: the buffer keeps what it held.
SampleFails(held) ==
  /\ Head(todo).do = "sample"
  /\ \E b \in held : Store(b)
  /\ Mishap("read")

\* The wait is over before the chip is ready.
WaitEndsEarly ==
  /\ Look /\ Passes /\ todo' # todo
  /\ busy # "none"
  /\ Mishap("early")

\* ftdi_read_pins fails in the wait, which tests an uninitialised byte.
WaitFails ==
  /\ Look
  /\ Mishap(IF busy # "none" /\ todo' # todo THEN "early" ELSE "read")
=============================================================================
