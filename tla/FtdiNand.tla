------------------------------- MODULE FtdiNand -------------------------------
(***************************************************************************)
(* ftdinandreader/FtdiNand.cpp: the FT2232H in MCU host bus emulation mode *)
(* between the program and the chip.  Writes drive the ACBUS lines and the *)
(* data bus in the order of the command buffer; the bytes read cycles      *)
(* produce come back through one first-in first-out buffer, from which     *)
(* ftdi_read_data may return fewer bytes than were asked for.              *)
(***************************************************************************)
EXTENDS NandFlash

CONSTANTS
  MaxPolls,    \* TIMEOUT_MSEC: polls of R/#B before waitReady gives up
  MaxRetries,  \* TIMEOUT_RETRIES: timeouts before R/#B is ignored for good
  RowSpan,     \* row numbers the two row bytes sendAddr sends can tell apart
  ErasePages,  \* pages per block sendAddr assumes of an erase (row << 6)
  MaxFaults,   \* bound: short reads and failed transfers the USB link injects
  ChipInTime   \* TRUE: R/#B rises before the last poll of waitReady

ASSUME FtdiAssumption ==
  /\ MaxPolls \in Nat \ {0}
  /\ MaxRetries \in Nat
  /\ RowSpan \in Nat \ {0}
  /\ ErasePages \in Nat \ {0}
  /\ MaxFaults \in Nat
  /\ ChipInTime \in BOOLEAN

VARIABLES
  pins,          \* the ACBUS lines that are high
  fifo,          \* bytes read from the bus and not yet returned to the program
  slow,          \* m_slowAccess: the FT2232H returns every data byte twice
  rbErrorCount,  \* m_rbErrorCount
  polls,         \* x, the loop counter of waitReady
  faults         \* faults the link may still inject

link == <<pins, fifo, slow, rbErrorCount, polls, faults>>

Lines     == {"CE", "WP", "CL", "AL"}
IdleLines == Lines   \* DisableACBUS writes 0xF0: chip deselected, #WP high

LinkTypeOK ==
  /\ pins \in SUBSET Lines
  /\ fifo \in Seq(Byte)
  /\ slow \in BOOLEAN
  /\ rbErrorCount \in -1 .. MaxRetries
  /\ polls \in 0 .. MaxPolls - 1
  /\ faults \in 0 .. MaxFaults

\* open() purges both buffers; the last cycle of the constructor was a read.
LinkInit ==
  /\ pins = {}
  /\ fifo = <<>>
  /\ slow \in BOOLEAN
  /\ rbErrorCount = 0
  /\ polls = 0
  /\ faults = MaxFaults

Fault ==
  /\ faults > 0
  /\ faults' = faults - 1

-----------------------------------------------------------------------------
(***************************************************************************)
(* nandWrite: one WRITE_EXTENDED that sets the lines (#WP high, #CE low),  *)
(* then DisableACBUS.  Its own cycle finds the chip deselected.            *)
(***************************************************************************)
WriteLines_NoWP(cl, al) ==
  (IF cl THEN {"CL"} ELSE {}) \cup (IF al THEN {"AL"} ELSE {})

WriteLines(cl, al) ==
  (IF cl THEN {"CL"} ELSE {}) \cup (IF al THEN {"AL"} ELSE {}) \cup {"WP"}

DisableACBUS_WPLow == pins' = IdleLines \ {"WP"}

DisableACBUS == pins' = IdleLines

sendCmd(c) ==
  /\ LatchCommand(c, "WP" \in WriteLines(TRUE, FALSE))
  /\ DisableACBUS
  /\ UNCHANGED <<fifo, slow, rbErrorCount, polls, faults>>

\* The row the address bytes spell: two row bytes for a read or a program,
\* block * 64 in two bytes for an erase.
PageRow(p)  == p % RowSpan
EraseRow(b) == (b * ErasePages) % RowSpan

sendAddr(r) ==
  /\ LatchAddress(r)
  /\ DisableACBUS
  /\ UNCHANGED <<fifo, slow, rbErrorCount, polls, faults>>

writeData(d) ==
  /\ DataIn(d)
  /\ DisableACBUS
  /\ UNCHANGED <<fifo, slow, rbErrorCount, polls, faults>>

-----------------------------------------------------------------------------
(***************************************************************************)
(* nandRead: n read cycles, whose bytes (twice each in slow mode) join the *)
(* bytes still in the buffer, then ftdi_read_data.                         *)
(***************************************************************************)
ReadLines(cl, al) ==
  (IF cl THEN {"CL"} ELSE {}) \cup (IF al THEN {"AL"} ELSE {})

Copies == IF slow THEN 2 ELSE 1

Repeated(s) == [i \in 1 .. Copies * Len(s) |-> s[(i + Copies - 1) \div Copies]]

DropFirst(s, k) == SubSeq(s, k + 1, Len(s))

IssueReads(n) ==
  /\ \E s \in Outputs(n) : fifo' = fifo \o Repeated(s)
  /\ AfterOutput(n)
  /\ pins' = ReadLines(FALSE, FALSE)
  /\ UNCHANGED <<slow, rbErrorCount, polls, faults>>

\* buf as a full transfer leaves it: in slow mode every second byte.
Received(n) == [i \in 1 .. n |-> fifo[Copies * (i - 1) + 1]]

FullRead_NotDoubled(n) ==
  /\ Len(fifo) >= n
  /\ fifo' = DropFirst(fifo, n)
  /\ UNCHANGED <<pins, slow, rbErrorCount, polls, faults>>

FullRead(n) ==
  /\ Len(fifo) >= Copies * n
  /\ fifo' = DropFirst(fifo, Copies * n)
  /\ UNCHANGED <<pins, slow, rbErrorCount, polls, faults>>

\* ftdi_read_data ran into a packet without data and returned k bytes, fewer
\* than asked; or the transfer failed and the k bytes it had delivered are lost.
ShortRead(n) ==
  /\ Fault
  /\ \E k \in 0 .. Copies * n - 1 : k <= Len(fifo) /\ fifo' = DropFirst(fifo, k)
  /\ UNCHANGED <<pins, slow, rbErrorCount, polls>>

-----------------------------------------------------------------------------
(***************************************************************************)
(* waitReady: poll R/#B until it is high, at most MaxPolls times.          *)
(***************************************************************************)
Response == IF busy = "none" THEN {ReadyBit} ELSE {}

\* The byte the poll is decided on: the oldest of the buffer.
PollByte(b) ==
  /\ b = Head(Append(fifo, Response))
  /\ fifo' = Tail(Append(fifo, Response))
  /\ faults' = faults

\* No byte arrived in time.  resp is uninitialised at the first poll, and later
\* still holds the last answer, which was not ready.  The answer arrives late.
PollShort(b) ==
  /\ b \in IF polls = 0 THEN {{}, {ReadyBit}} ELSE {{}}
  /\ fifo' = Append(fifo, Response)
  /\ Fault

Polled(b) == PollByte(b) \/ PollShort(b)

PollReady ==
  /\ rbErrorCount # -1
  /\ \E b \in Byte : Polled(b) /\ ReadyBit \in b
  /\ polls' = 0
  /\ UNCHANGED <<pins, slow, rbErrorCount>>

PollAgain_NotCounted ==
  /\ rbErrorCount # -1
  /\ \E b \in Byte : Polled(b) /\ ReadyBit \notin b
  /\ UNCHANGED <<pins, slow, rbErrorCount, polls>>

PollAgain ==
  /\ rbErrorCount # -1
  /\ polls < MaxPolls - 1
  /\ \E b \in Byte : Polled(b) /\ ReadyBit \notin b
  /\ polls' = polls + 1
  /\ UNCHANGED <<pins, slow, rbErrorCount>>

PollTimeout_NeverIgnored ==
  /\ rbErrorCount # -1
  /\ polls = MaxPolls - 1
  /\ ChipInTime => busy = "none"
  /\ \E b \in Byte : Polled(b) /\ ReadyBit \notin b
  /\ polls' = 0
  /\ rbErrorCount' = rbErrorCount + 1
  /\ UNCHANGED <<pins, slow>>

PollTimeout ==
  /\ rbErrorCount # -1
  /\ polls = MaxPolls - 1
  /\ ChipInTime => busy = "none"
  /\ \E b \in Byte : Polled(b) /\ ReadyBit \notin b
  /\ polls' = 0
  /\ rbErrorCount' = IF rbErrorCount + 1 > MaxRetries THEN -1 ELSE rbErrorCount + 1
  /\ UNCHANGED <<pins, slow>>

\* "Too many timeouts -> don't check R/B-pin"
SkipWait ==
  /\ rbErrorCount = -1
  /\ UNCHANGED link
=============================================================================
