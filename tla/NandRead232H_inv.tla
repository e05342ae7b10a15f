--------------------------- MODULE NandRead232H_inv ---------------------------
(***************************************************************************)
(* The invariants of nandread_FTDI232H that NandRead232H_proofs proves,    *)
(* and what its theorems assume of the constants.                          *)
(*                                                                         *)
(* The program is the sequence of moves it still has to make (todo), which *)
(* has no bound, so BusInv says two things: how moves may follow one       *)
(* another (Shaped: every operation is built so, and what is left of one   *)
(* stays so), and what the pins are before a move of each kind (Held).     *)
(* Lost updates of the pins are the end of it; reads that fail and waits   *)
(* that end early are not.  FileInv, of the file and the loop of -w, needs *)
(* nothing of the pins.                                                    *)
(*                                                                         *)
(* What an operation amounts to needs more: OpInv says at which move of it *)
(* the program is, and what the chip has been told by then, as long as it  *)
(* was told and ready.                                                     *)
(***************************************************************************)
EXTENDS NandRead232H

(***************************************************************************)
(* The shape of sequences of moves.                                        *)
(***************************************************************************)
IsSeq(s) == \E S : s \in Seq(S)

Low(m, p)  == m.do = "pin" /\ m.pin = p /\ ~m.val
High(m, p) == m.do = "pin" /\ m.pin = p /\ m.val

\* A byte is read between nRE falling and nRE rising.
ReLow(m)   == Low(m, "RE")
ReHigh(m)  == High(m, "RE")
Sampled(m) == m.do = "sample"
Reading(m) == Sampled(m) \/ ReHigh(m)

Follows(a, b) ==
  /\ ReLow(b) => a.do = "in" \/ ReHigh(a)
  /\ Sampled(b) <=> ReLow(a)
  /\ ReHigh(b) <=> Sampled(a)

\* Only the shadow of three pins is changed alone, and that of nRE to high.  A
\* call has arguments its body can be made of.
Tame(m) ==
  /\ m.do = "shadow" => m.pin \in {"CE", "WP", "RE"} /\ (m.pin = "RE" => m.val)
  /\ m.do = "call" /\ m.fn = "read_data" => m.arg \in Nat
  /\ m.do = "call" /\ m.fn = "latch_data_out" => IsSeq(m.arg)
  /\ m.do = "call" =>
       m.fn \in {"latch_command", "setcolumns", "setrows", "read_data", "latch_data_out"}

Shaped(s) ==
  /\ IsSeq(s)
  /\ \A i \in 1 .. Len(s) : Tame(s[i])
  /\ \A i \in 1 .. Len(s) - 1 : Follows(s[i], s[i + 1])
  /\ s # <<>> => ~ReLow(s[Len(s)]) /\ ~Sampled(s[Len(s)])

\* A sequence may follow any other.
Opens(s) == s # <<>> => ~ReLow(s[1]) /\ ~Reading(s[1])

\* Moves that do not read.
Plain(m) == Tame(m) /\ ~ReLow(m) /\ ~Reading(m)
AllPlain(s) == IsSeq(s) /\ \A i \in 1 .. Len(s) : Plain(s[i])

-----------------------------------------------------------------------------
(***************************************************************************)
(* The invariant of the pins.                                              *)
(***************************************************************************)
\* The moves of main up to the reset command.
ResetMoves == << Input, Shadow("RE", TRUE), Shadow("CE", FALSE), Pin("WP", FALSE),
                 Call("latch_command", <<CMD_RESET>>) >>

\* What is left of the way to the reset command.
BootAt(s, k)  == 5 - k <= Len(s) /\ \A i \in 1 .. 5 - k : s[i] = ResetMoves[i + k]

BeforeRE == shadow = {} /\ (BootAt(todo, 0) \/ BootAt(todo, 1))
BeforePin == shadow = {"RE"} /\ (BootAt(todo, 2) \/ BootAt(todo, 3))

ReadingNext == todo # <<>> /\ Reading(Head(todo))

\* The bus is turned round while bytes are read, the chip drives it from a fall
\* of nRE to the next rise, and at the start of a process to its first pins.
Turned  == todo # <<>> /\ (ReLow(Head(todo)) \/ Reading(Head(todo))) => io = -1
OutHeld == out # -1 => ReadingNext \/ BeforeRE \/ BeforePin
ReHeld  == "RE" \notin shadow => ReadingNext \/ BeforeRE

Held ==
  /\ Shaped(todo) /\ Turned /\ OutHeld /\ ReHeld
  /\ pc \in {"options", "done"} => todo = <<>>

Apart == io = -1 \/ out = -1

BusInv == Apart /\ (pc # "dead" => Held)

\* A move whose sample or wait has any result: that of the bus, what a failed read
\* leaves, or the end of a wait before the chip is ready.
Samples == \E b : Store(b)
Moves ==
  /\ todo # <<>>
  /\ Enter \/ SetShadow \/ SetPin \/ Drive \/ Release \/ Samples \/ Look

-----------------------------------------------------------------------------
(***************************************************************************)
(* The invariant of the file.                                              *)
(***************************************************************************)
Buffers == IsSeq(file) /\ IsSeq(data) /\ IsSeq(InBuf) /\ IsSeq(mishaps)

\* Operations of an earlier process end before any option.
Settled ==
  /\ pc = "options" => op = NoOp
  /\ stopped => pc \in {"boot", "dead"}

\* Pages are read from the file in step with the pages of the chip, until a
\* short read.
FileHeld ==
  /\ startingpage \in Nat
  /\ pc \in {"w", "W"} =>
       /\ nPage \in Nat /\ startingpage <= nPage
       /\ at \in Nat /\ at <= Len(file)
       /\ op = NoOp /\ ~eof => (nPage - startingpage) * ChunkSize <= at
       /\ op # NoOp => (nPage - startingpage) * ChunkSize <= Len(file)
       /\ op # NoOp /\ ~eof => (nPage - startingpage) * ChunkSize + ChunkSize <= at

FileInv == Buffers /\ Settled /\ FileHeld

IInv == (~Had("write") => BusInv) /\ FileInv

-----------------------------------------------------------------------------
(***************************************************************************)
(* Where an operation is: what is left of its calls, the pins at that      *)
(* point, and what the chip has been told.  Every operation is made of     *)
(* phases; a phase an operation does not have leaves nothing to do.        *)
(***************************************************************************)
\* What is left of s after j of its moves, and then r.
Left(s, j) == SubSeq(s, j + 1, Len(s))
From(s, j, r) == Left(s, j) \o r
First(m, r) == <<m>> \o r

PinHigh(p) == Pin(p, TRUE)
PinLow(p) == Pin(p, FALSE)
ShadowHigh(p) == Shadow(p, TRUE)
ShadowLow(p) == Shadow(p, FALSE)

\* A byte strobed between two moves, and bytes after and between them.
Around(x, b, y) == <<x>> \o Strobe(b) \o <<y>>
Led(x, bs) == <<x>> \o Strobes(bs)
Enclosed(x, bs, y) == <<x>> \o Strobes(bs) \o <<y>>

\* The shadow is S; the pins are too, but for #WP, or all of them.
Lagging(S) == shadow = S /\ pins \cup {"WP"} = S \cup {"WP"}
Pinned(S)  == shadow = S /\ pins = S

Up == {"RE", "WE"}
Base(o) == IF o.kind = "read" THEN Up ELSE Up \cup {"WP"}

ColumnBytes(a) == <<(a % ColSpan) % 256, (a % ColSpan) \div 256>>
Address(o) == IF o.kind = "erase" THEN RowBytes(o.at) ELSE ColumnBytes(o.at) \o RowBytes(o.at)
NCols(o) == IF o.kind = "erase" THEN 0 ELSE 2

Starts(o) ==
  IF o.kind = "read" THEN CMD_READ1
  ELSE IF o.kind = "program" THEN CMD_PAGEPROGRAM1 ELSE CMD_BLOCKERASE1
Confirm(o) ==
  IF o.kind = "read" THEN CMD_READ2
  ELSE IF o.kind = "program" THEN CMD_PAGEPROGRAM2 ELSE CMD_BLOCKERASE2

Operations ==
  { o \in [kind : {"read", "program", "erase"}, at : Nat, data : Seq(Byte)] :
      o.kind # "program" => o.data = <<>> }

AfterRead(o) == IF o.kind = "read" THEN <<>> ELSE First(ShadowLow("WP"), <<>>)
AfterStatus(o, n) == First(Call("read_data", n), AfterRead(o))
AfterWait(o, n) ==
  IF o.kind = "read" THEN AfterStatus(o, n)
  ELSE First(Call("latch_command", <<CMD_READSTATUS>>), AfterStatus(o, n))
AfterConfirm(o, n) == First(WaitRdy, AfterWait(o, n))
AfterData(o, n) == First(Call("latch_command", <<Confirm(o)>>), AfterConfirm(o, n))
AfterRows(o, n) ==
  IF o.kind = "program" THEN First(Call("latch_data_out", o.data), AfterData(o, n))
  ELSE AfterData(o, n)
AfterColumns(o, n) == First(Call("setrows", o.at), AfterRows(o, n))
AfterSetup(o, n) ==
  IF o.kind = "erase" THEN AfterColumns(o, n)
  ELSE First(Call("setcolumns", o.at), AfterColumns(o, n))
AfterRaise(o, n) == First(Call("latch_command", <<Starts(o)>>), AfterSetup(o, n))
Plan(o, n) ==
  IF o.kind = "read" THEN AfterRaise(o, n) ELSE First(ShadowHigh("WP"), AfterRaise(o, n))

-----------------------------------------------------------------------------
(***************************************************************************)
(* What the chip has been told.                                            *)
(***************************************************************************)
Resting == busy = "none" /\ ~acted /\ ~stopped

\* The first m bytes of the address, and the column after q bytes of data.
Clocked(o, m) == IsSeq(addr) /\ Len(addr) = m /\ \A i \in 1 .. m : addr[i] = Address(o)[i]
AtColumn(o, q) ==
  IF ColAt(o.at) + q \in Cols THEN col = ColAt(o.at) + q ELSE col \notin Cols

\* The page register after q bytes of data.
Filled(o, q) ==
  \A k \in Cols :
    reg[k] = IF k - ColAt(o.at) + 1 \in 1 .. q THEN o.data[k - ColAt(o.at) + 1] ELSE FF

Seen(o, m, q) ==
  /\ Resting
  /\ mode = Starts(o)
  /\ Clocked(o, m)
  /\ o.kind # "erase" /\ m >= 2 => AtColumn(o, q)
  /\ o.kind = "program" => Filled(o, q)

\* Work in progress, and work done.
AtWork(o) ==
  /\ busy = o.kind /\ ~acted
  /\ mode = Confirm(o)
  /\ Clocked(o, Len(Address(o)))
  /\ o.kind = "program" => Filled(o, Len(o.data))

Did(o) ==
  /\ busy = "none" /\ ~stopped
  /\ IF o.kind = "read" THEN ~acted /\ mode = CMD_READ2 /\ reg = cells[RowAt(o.at)] ELSE acted

Working(o) ==
  /\ ~stopped
  /\ o.kind = "read" => AtColumn(o, 0)
  /\ AtWork(o) \/ Did(o)

-----------------------------------------------------------------------------
(***************************************************************************)
(* Inside a call, with the moves of its body left from the j-th on, and    *)
(* rest after it.                                                          *)
(***************************************************************************)
\* A command c, with the pins S around it.
HasCommand(s, c) ==
  /\ 5 <= Len(s)
  /\ s[1] = PinHigh("CLE") /\ s[2] = PinLow("WE") /\ s[3] = Out(c)
  /\ s[4] = PinHigh("WE") /\ s[5] = PinLow("CLE")

InLatch(s, c, rest, S, j) ==
  /\ todo = From(s, j, rest)
  /\ j = 0 => Lagging(S)
  /\ j = 1 => Pinned(S \cup {"CLE"})
  /\ j \in {2, 3} => Pinned((S \cup {"CLE"}) \ {"WE"})
  /\ j = 3 => io = c
  /\ j = 4 => Pinned(S \cup {"CLE", "WE"})

\* Bytes bs, after d other moves: i of them clocked in, and t moves of the next.
HasStrobes(s, d, bs) ==
  /\ d + 3 * Len(bs) <= Len(s)
  /\ \A i \in 0 .. Len(bs) - 1 :
       /\ s[d + 3 * i + 1] = PinLow("WE")
       /\ s[d + 3 * i + 2] = Out(bs[i + 1])
       /\ s[d + 3 * i + 3] = PinHigh("WE")

InStrobe(s, d, bs, rest, S, i, t) ==
  /\ todo = From(s, d + 3 * i + t, rest)
  /\ t = 0 => Pinned(S)
  /\ t # 0 => Pinned(S \ {"WE"})
  /\ t = 2 => io = bs[i + 1]

\* Bytes read: i of n, and t moves of the next; b is the byte on the bus.
InByte(n, rest, S, i, t) ==
  /\ todo = From(read_data(n), 1 + 3 * i + t, rest)
  /\ io = -1
  /\ t = 0 => Pinned(S)
  /\ t # 0 => Pinned(S \ {"RE"})

\* What read_data has gathered of the row.
Gathered(o, i) ==
  /\ Len(InBuf) = i
  /\ o.kind = "read" /\ mishaps = <<>> =>
       \A x \in 1 .. i :
         LET k == ColAt(o.at) + x - 1
         IN k \in Cols => InBuf[x] = cells[RowAt(o.at)][k]

\* The byte the chip drives.
Drives(o, i) ==
  o.kind = "read" /\ ColAt(o.at) + i \in Cols => out = cells[RowAt(o.at)][ColAt(o.at) + i]

-----------------------------------------------------------------------------
(***************************************************************************)
(* The phases.                                                             *)
(***************************************************************************)
AtRaise(o, n) == o.kind # "read" /\ todo = Plan(o, n) /\ Lagging(Up) /\ Resting

AtSetup(o, n) == todo = AfterRaise(o, n) /\ Lagging(Base(o)) /\ Resting
InSetup(o, n) ==
  \E j \in 0 .. 4 :
    /\ InLatch(latch_command(<<Starts(o)>>), Starts(o), AfterSetup(o, n), Base(o), j)
    /\ IF j <= 3 THEN Resting ELSE Seen(o, 0, 0)

AtColumns(o, n) ==
  o.kind # "erase" /\ todo = AfterSetup(o, n) /\ Pinned(Base(o)) /\ Seen(o, 0, 0)
InColumns(o, n) ==
  /\ o.kind # "erase"
  /\ \/ /\ todo = From(setcolumns(o.at), 0, AfterColumns(o, n))
        /\ Pinned(Base(o)) /\ Seen(o, 0, 0)
     \/ \E i \in 0 .. 1, t \in 0 .. 2 :
          /\ InStrobe(setcolumns(o.at), 1, ColumnBytes(o.at), AfterColumns(o, n),
                      Base(o) \cup {"ALE"}, i, t)
          /\ Seen(o, i, 0)

WithRows(o) == IF o.kind = "erase" THEN Base(o) ELSE Base(o) \cup {"ALE"}
AtRows(o, n) == todo = AfterColumns(o, n) /\ Pinned(WithRows(o)) /\ Seen(o, NCols(o), 0)
InRows(o, n) ==
  \/ /\ todo = From(setrows(o.at), 0, AfterRows(o, n))
     /\ Pinned(WithRows(o)) /\ Seen(o, NCols(o), 0)
  \/ \E i \in 0 .. Len(RowBytes(o.at)), t \in 0 .. 2 :
       /\ i = Len(RowBytes(o.at)) => t = 0
       /\ InStrobe(setrows(o.at), 1, RowBytes(o.at), AfterRows(o, n),
                   Base(o) \cup {"ALE"}, i, t)
       /\ Seen(o, NCols(o) + i, 0)

AtData(o, n) ==
  /\ o.kind = "program"
  /\ todo = AfterRows(o, n) /\ Pinned(Base(o)) /\ Seen(o, Len(Address(o)), 0)
InData(o, n) ==
  /\ o.kind = "program"
  /\ \E i \in 0 .. Len(o.data) - 1, t \in 0 .. 2 :
       /\ InStrobe(latch_data_out(o.data), 0, o.data, AfterData(o, n), Base(o), i, t)
       /\ Seen(o, Len(Address(o)), i)

AtConfirm(o, n) ==
  todo = AfterData(o, n) /\ Pinned(Base(o)) /\ Seen(o, Len(Address(o)), Len(o.data))
InConfirm(o, n) ==
  \E j \in 0 .. 4 :
    /\ InLatch(latch_command(<<Confirm(o)>>), Confirm(o), AfterConfirm(o, n), Base(o), j)
    /\ IF j <= 3 THEN Seen(o, Len(Address(o)), Len(o.data)) ELSE Working(o)

AtWait(o, n) == todo = AfterConfirm(o, n) /\ Pinned(Base(o)) /\ Working(o)

AtStatus(o, n) == o.kind # "read" /\ todo = AfterWait(o, n) /\ Pinned(Base(o)) /\ Did(o)
InStatus(o, n) ==
  /\ o.kind # "read"
  /\ \E j \in 0 .. 4 :
       InLatch(latch_command(<<CMD_READSTATUS>>), CMD_READSTATUS, AfterStatus(o, n), Base(o), j)
  /\ Did(o)

AtRead(o, n) ==
  /\ todo = AfterStatus(o, n) /\ Pinned(Base(o)) /\ Did(o)
  /\ o.kind = "read" => AtColumn(o, 0)
InRead(o, n) ==
  /\ Did(o)
  /\ \/ /\ todo = From(read_data(n), 0, AfterRead(o))
        /\ Pinned(Base(o)) /\ Gathered(o, 0)
        /\ o.kind = "read" => AtColumn(o, 0)
     \/ \E i \in 0 .. n, t \in 0 .. 2 :
          /\ i = n => t = 0
          /\ InByte(n, AfterRead(o), Base(o), i, t)
          /\ Gathered(o, IF t = 2 THEN i + 1 ELSE i)
          /\ t = 1 => out # -1 /\ Drives(o, i)
          /\ o.kind = "read" => AtColumn(o, IF t = 0 THEN i ELSE i + 1)

AtLower(o, n) == o.kind # "read" /\ todo = AfterRead(o) /\ Pinned(Base(o)) /\ Did(o) /\ Gathered(o, n)

AtEnd(o, n) == todo = <<>> /\ Lagging(Up) /\ Did(o) /\ Gathered(o, n)

Phase(o, n) ==
  \/ AtRaise(o, n)
  \/ AtSetup(o, n) \/ InSetup(o, n)
  \/ AtColumns(o, n) \/ InColumns(o, n)
  \/ AtRows(o, n) \/ InRows(o, n)
  \/ AtData(o, n) \/ InData(o, n)
  \/ AtConfirm(o, n) \/ InConfirm(o, n)
  \/ AtWait(o, n)
  \/ AtStatus(o, n) \/ InStatus(o, n)
  \/ AtRead(o, n) \/ InRead(o, n)
  \/ AtLower(o, n)
  \/ AtEnd(o, n)

-----------------------------------------------------------------------------
(***************************************************************************)
(* set_ecc, and the rest of main before the options.                       *)
(***************************************************************************)
EccOn == <<8, 0, 0, 0>>
EccOff == <<0, 0, 0, 0>>
EccTail == Around(PinHigh("ALE"), 144, PinLow("ALE"))
AfterEccTail(bs, rest) == First(Call("latch_data_out", bs), rest)
AfterEccCommand(bs, rest) == From(EccTail, 0, AfterEccTail(bs, rest))
EccMoves(bs, rest) == First(Call("latch_command", <<CMD_EN_ECC>>), AfterEccCommand(bs, rest))

\* The chip is left with nothing to do.
Idle == Resting /\ op = NoOp

EccPhase(bs, rest) ==
  \/ todo = EccMoves(bs, rest) /\ Lagging(Up)
  \/ \E j \in 0 .. 4 :
       InLatch(latch_command(<<CMD_EN_ECC>>), CMD_EN_ECC, AfterEccCommand(bs, rest), Up, j)
  \/ todo = AfterEccCommand(bs, rest) /\ Pinned(Up)
  \/ \E i \in 0 .. 1, t \in 0 .. 2 :
       /\ i = 1 => t = 0
       /\ InStrobe(EccTail, 1, <<144>>, AfterEccTail(bs, rest), Up \cup {"ALE"}, i, t)
  \/ todo = AfterEccTail(bs, rest) /\ Pinned(Up)
  \/ \E i \in 0 .. 3, t \in 0 .. 2 :
       InStrobe(latch_data_out(bs), 0, bs, rest, Up, i, t)

IdMoves == latch_command(<<CMD_READID, 0>>)
AfterId == First(Call("read_data", 5), <<>>)
Identify == First(Call("latch_command", <<CMD_READID, 0>>), AfterId)

IdPhase ==
  \/ todo = Identify /\ Pinned(Up)
  \/ \E j \in 0 .. 4 : InLatch(IdMoves, CMD_READID, AfterId, Up, j)
  \/ todo = From(IdMoves, 5, AfterId) /\ Pinned(Up)
  \/ \E i \in 0 .. 1, t \in 0 .. 2 :
       /\ i = 1 => t = 0
       /\ InStrobe(IdMoves, 6, <<0>>, AfterId, Up \cup {"ALE"}, i, t)
  \/ todo = AfterId /\ Pinned(Up)
  \/ todo = From(read_data(5), 0, <<>>) /\ Pinned(Up)
  \/ \E i \in 0 .. 5, t \in 0 .. 2 : (i = 5 => t = 0) /\ InByte(5, <<>>, Up, i, t)
  \/ todo = <<>> /\ Pinned(Up)

\* Before the reset, whatever a process before left the pins and the chip in.
AfterReset == EccMoves(EccOff, Identify)
ResetPhase ==
  \/ shadow = {} /\ (todo = From(ResetMoves, 0, AfterReset) \/ todo = From(ResetMoves, 1, AfterReset))
  \/ /\ shadow = {"RE"}
     /\ todo = From(ResetMoves, 2, AfterReset) \/ todo = From(ResetMoves, 3, AfterReset)
  \/ todo = From(ResetMoves, 4, AfterReset) /\ Pinned({"RE"})
  \/ \E j \in 0 .. 3 : InLatch(latch_command(<<CMD_RESET>>), CMD_RESET, AfterReset, {"RE"}, j)

BootPhase ==
  \/ ResetPhase /\ (op # NoOp => stopped)
  \/ Idle /\ InLatch(latch_command(<<CMD_RESET>>), CMD_RESET, AfterReset, {"RE"}, 4)
  \/ Idle /\ (EccPhase(EccOff, Identify) \/ IdPhase)

-----------------------------------------------------------------------------
(***************************************************************************)
(* The invariant of the operations.                                        *)
(***************************************************************************)
\* A loop runs its own operations only.
Fits(o, n) ==
  /\ pc = "erase" => o.kind = "erase" /\ n = 1
  /\ pc \in {"r", "R"} => o.kind = "read" /\ n = ChunkSize
  /\ pc \in {"w", "W"} => o.kind = "program" /\ n = 1

Loops == {"erase", "r", "R", "w", "W"}

Where ==
  /\ pc = "boot" => BootPhase
  /\ pc = "ecc" => Idle /\ ((\E bs \in {EccOn, EccOff} : EccPhase(bs, <<>>)) \/ (todo = <<>> /\ Pinned(Up)))
  /\ pc = "options" => Idle /\ todo = <<>> /\ Lagging(Up)
  /\ pc = "done" => Idle /\ todo = <<>>
  /\ pc \in Loops =>
       \/ Idle /\ todo = <<>> /\ Lagging(Up)
       \/ \E o \in Operations, n \in Nat : o = op /\ Fits(o, n) /\ Phase(o, n)

\* The chip works for the operation, even when the program is gone.
Employed ==
  /\ busy # "none" => \E o \in Operations : o = op /\ AtWork(o)
  /\ op = NoOp => ~acted

Memory == cells \in [Rows -> [Cols -> Byte]] /\ reg \in [Cols -> Byte]

Typed ==
  /\ Memory /\ out \in Byte \cup {-1}
  /\ InBuf \in Seq(Byte) /\ file \in Seq(Byte) /\ data \in Seq(Byte)
  /\ acted \in BOOLEAN /\ stopped \in BOOLEAN
  /\ starting_erasepage \in Nat /\ startingpage \in Nat
  /\ pc \in Loops \cup {"boot", "ecc", "options", "done", "dead"}
  /\ pc \in Loops => nPage \in Nat

OpInv == Where /\ Employed /\ Typed

\* -w and -W have allocated a buffer of a page.
Buffered == pc \in {"w", "W"} => Len(data) = ChunkSize

\* The pages read are in the file.
Filed ==
  pc \in {"r", "R"} => startingpage <= nPage /\ Len(file) = (nPage - startingpage) * ChunkSize

\* Only -R can end otherwise than by an interrupt.
Gone == pc = "dead" => stopped \/ op.kind = "read"

\* As long as the chip was told everything, and ready.
Everything == IInv /\ (InStep => OpInv /\ Buffered /\ Filed /\ Gone)

-----------------------------------------------------------------------------
(***************************************************************************)
(* What -w has programmed.                                                 *)
(***************************************************************************)
\* A byte whose bits are among those of another.
Within(x, y) == And(x, y) = x

\* The n-th page of the chip has each bit clear that the file fl, written from the
\* page st on, has clear there.
PageCleared(s, st, fl, n) ==
  \A i \in 1 .. Nand.page_size :
    LET f == (n - st) * Nand.page_size + i
        a == n * Nand.page_size + i - 1
    IN f \in DOMAIN fl /\ ColAt(a) \in Cols => Within(s[RowAt(a)][ColAt(a)], fl[f])

\* d is the n-th page of the chip in the file, as far as the file reaches.
PageOf(d, st, fl, n) ==
  \A i \in 1 .. Nand.page_size :
    LET f == (n - st) * Nand.page_size + i
    IN f \in DOMAIN fl => i \in DOMAIN d /\ d[i] = fl[f]

\* The loop of -w: the pages it is done with are programmed, the file is read up to
\* the next, and an operation under way programs that one.
Written ==
  pc = "w" =>
    /\ \A n \in startingpage .. nPage - 1 : PageCleared(cells, startingpage, file, n)
    /\ op = NoOp /\ ~eof => at = (nPage - startingpage) * Nand.page_size
    /\ op # NoOp =>
         /\ op.at = nPage * Nand.page_size
         /\ PageOf(op.data, startingpage, file, nPage)
         /\ ~eof => at = ((nPage + 1) - startingpage) * Nand.page_size
         /\ acted => PageCleared(cells, startingpage, file, nPage)

-----------------------------------------------------------------------------
(***************************************************************************)
(* What the theorems assume of brcm_nand and of the size of a page.        *)
(***************************************************************************)
\* The buffers of main are sequences as long as brcm_nand makes them no other.
EccOnSequences == \A d : IsSeq(d) => IsSeq(Ecc(d))

\* brcm_nand changes bytes of the buffer in place.
EccInPlace == \A d \in Seq(Byte) : Ecc(d) \in Seq(Byte) /\ Len(Ecc(d)) = Len(d)

\* Pages lie side by side in a span of columns, as 2048 does in 4096 and 8192 in 16384.
PagesFit == ColSpan % Nand.page_size = 0
===============================================================================
