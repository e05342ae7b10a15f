---------------------------- MODULE NandData_proofs ----------------------------
(***************************************************************************)
(* Theorems about NandData for every chip size, page size, poll limit and  *)
(* number of faults.                                                       *)
(***************************************************************************)
EXTENDS NandData, SequenceTheorems, TLAPS

USE TypesAssumption, FtdiAssumption DEF FailBit, ReadyBit

(* What is known of the arguments of an operation.  *)
LEMMA OpFields ==
  ASSUME NEW o \in Ops \cup {NoOp}
  PROVE  /\ o.kind \in {"read", "write", "erase", "none"}
         /\ o.at \in Nat
         /\ o.len \in 1 .. PageLen
         /\ o.kind = "read" => o.len \in ReadLens
         /\ o.kind # "read" => o.len = 1
         /\ o.data \in Content
  <1>1. Blank \in Content
    BY DEF Blank, Content, Byte
  <1>2. \A p \in Pages : p \in Nat /\ BlockOf(p) \in Nat
    BY DEF Pages, BlockOf
  <1>3. CASE \E p \in Pages, n \in ReadLens : o = Read(p, n)
    BY <1>1, <1>2, <1>3 DEF Read
  <1>4. CASE \E p \in Pages, d \in WriteBufs : o = Write(p, d)
    BY <1>1, <1>2, <1>4 DEF Write
  <1>5. CASE \E b \in Blocks : o = Erase(b)
    BY <1>1, <1>2, <1>5 DEF Erase, Blocks
  <1>6. CASE o = NoOp
    BY <1>1, <1>6 DEF NoOp
  <1>7. QED
    BY <1>3, <1>4, <1>5, <1>6 DEF Ops

(* An operation that is running is one of the three.  *)
LEMMA OpKinds ==
  ASSUME NEW o \in Ops
  PROVE  o.kind \in {"read", "write", "erase"}
  BY DEF Ops, Read, Write, Erase

(* A row number, reduced to the chip's address range, names a page.  *)
LEMMA RowInChip ==
  ASSUME NEW r \in Nat
  PROVE  r % NPages \in Pages
  BY DEF Pages

(* The row a read, program or erase address spells is a number.  *)
LEMMA AddressInNat ==
  ASSUME NEW o \in Ops \cup {NoOp}
  PROVE  AddressOf(o) \in Nat
  <1>1. o.at \in Nat
    BY OpFields
  <1>2. PageRow(o.at) \in Nat
    BY <1>1 DEF PageRow
  <1>3. o.at * ErasePages \in Nat
    BY <1>1
  <1>4. EraseRow(o.at) \in Nat
    BY <1>3 DEF EraseRow
  <1>5. QED
    BY <1>2, <1>4 DEF AddressOf

(* Bytes of the bus reach the buffer as bytes, once or twice each.  *)
LEMMA RepeatedBytes ==
  ASSUME slow \in BOOLEAN, NEW n \in Nat, NEW s \in [1 .. n -> Byte]
  PROVE  /\ Repeated(s) \in Seq(Byte)
         /\ Len(Repeated(s)) = Copies * n
  <1>1. Len(s) = n /\ s \in Seq(Byte)
    OBVIOUS
  <1>2. CASE slow
    <2>1. \A i \in 1 .. 2 * n : (i + 1) \div 2 \in 1 .. n
      OBVIOUS
    <2>2. Repeated(s) = [i \in 1 .. 2 * n |-> s[(i + 1) \div 2]]
      BY <1>1, <1>2 DEF Repeated, Copies
    <2>3. Repeated(s) \in [1 .. 2 * n -> Byte]
      BY <2>1, <2>2
    <2>4. QED
      BY <2>3, <1>2 DEF Copies
  <1>3. CASE ~slow
    <2>1. Repeated(s) = [i \in 1 .. n |-> s[i]]
      BY <1>1, <1>3 DEF Repeated, Copies
    <2>2. QED
      BY <2>1, <1>3 DEF Copies
  <1>4. QED
    BY <1>2, <1>3

(* A prefix taken off the buffer leaves a buffer of bytes.  *)
LEMMA DropFirstBytes ==
  ASSUME NEW s \in Seq(Byte), NEW k \in 0 .. Len(s)
  PROVE  /\ DropFirst(s, k) \in Seq(Byte)
         /\ Len(DropFirst(s, k)) = Len(s) - k
  BY DEF DropFirst

-----------------------------------------------------------------------------
(***************************************************************************)
(* Type correctness, one lemma per group of actions.                       *)
(***************************************************************************)
(* A command cycle keeps the chip's types.                                  *)
LEMMA LatchCommandType ==
  ASSUME ChipTypeOK, NEW c \in Commands, NEW wp \in BOOLEAN, LatchCommand(c, wp)
  PROVE  ChipTypeOK'
  <1>1. Blank \in Content
    BY DEF Blank, Content, Byte
  <1>2. CASE ReadStatusCommand(c)
    BY <1>2 DEF ReadStatusCommand, ChipTypeOK
  <1>3. CASE SetupCommand(c)
    BY <1>1, <1>3 DEF SetupCommand, ChipTypeOK
  <1>4. CASE ConfirmCommand(c, wp)
    BY <1>4 DEF ConfirmCommand, ChipTypeOK, Work
  <1>5. CASE IgnoredCommand(c, wp)
    BY <1>5 DEF IgnoredCommand, ChipTypeOK, chip
  <1>6. QED
    BY <1>2, <1>3, <1>4, <1>5 DEF LatchCommand

(* The results of a program are pages.                                      *)
LEMMA ProgramResultsType ==
  ASSUME NEW s \in [Pages -> Content], NEW p \in Pages, NEW d \in Content,
         NEW r \in ProgramResults(s, p, d)
  PROVE  r.pages \in [Pages -> Content] /\ r.ok \in BOOLEAN
  <1>1. Programmed(s[p], d) \in Content
    BY DEF Programmed, Content, Byte
  <1>2. \A x \in Between(Programmed(s[p], d), s[p]) : x \in Content
    BY DEF Between
  <1>3. \/ r = Outcome([s EXCEPT ![p] = Programmed(s[p], d)], TRUE)
        \/ \E x \in Between(Programmed(s[p], d), s[p]) :
             r = Outcome([s EXCEPT ![p] = x], FALSE)
    BY Zenon DEF ProgramResults
  <1>4. ASSUME NEW x \in Content, NEW ok \in BOOLEAN,
               r = Outcome([s EXCEPT ![p] = x], ok)
        PROVE  r.pages \in [Pages -> Content] /\ r.ok \in BOOLEAN
    <2>1. [s EXCEPT ![p] = x] \in [Pages -> Content]
      OBVIOUS
    <2>2. r.pages = [s EXCEPT ![p] = x] /\ r.ok = ok
      BY <1>4 DEF Outcome
    <2>3. QED
      BY <2>1, <2>2
  <1>5. QED
    BY <1>1, <1>2, <1>3, <1>4

(* The results of an erase are pages.                                       *)
LEMMA EraseResultsType ==
  ASSUME NEW s \in [Pages -> Content], NEW b, NEW r \in EraseResults(s, b)
  PROVE  r.pages \in [Pages -> Content] /\ r.ok \in BOOLEAN
  <1>1. Blank \in Content
    BY DEF Blank, Content, Byte
  <1>2. Erased(s, b) \in [Pages -> Content]
    BY <1>1 DEF Erased
  <1>3. \E x \in {s, Erased(s, b)}, ok \in BOOLEAN : r = Outcome(x, ok)
    BY Zenon DEF EraseResults
  <1>4. QED
    BY <1>2, <1>3 DEF Outcome

(* The end of the chip's work keeps its types.                              *)
LEMMA ChipStepType ==
  ASSUME ChipTypeOK, ChipStep
  PROVE  ChipTypeOK'
  <1> USE DEF ChipTypeOK
  <1>1. CASE FinishRead
    BY <1>1 DEF FinishRead
  <1>2. CASE FinishProgram
    <2>1. PICK r \in ProgramResults(array, row, reg) : array' = r.pages /\ fail' = ~r.ok
      BY <1>2 DEF FinishProgram
    <2>2. array' \in [Pages -> Content] /\ fail' \in BOOLEAN
      BY <2>1, ProgramResultsType
    <2>3. QED
      BY <1>2, <2>2 DEF FinishProgram
  <1>3. CASE FinishErase
    <2>1. PICK r \in EraseResults(array, BlockOf(row)) : array' = r.pages /\ fail' = ~r.ok
      BY <1>3 DEF FinishErase
    <2>2. array' \in [Pages -> Content] /\ fail' \in BOOLEAN
      BY <2>1, EraseResultsType
    <2>3. QED
      BY <1>3, <2>2 DEF FinishErase
  <1>4. QED
    BY <1>1, <1>2, <1>3 DEF ChipStep

(* What a poll takes out of the buffer is a byte, and bytes stay in it.  *)
LEMMA PollType ==
  ASSUME LinkTypeOK, NEW b \in Byte, Polled(b)
  PROVE  fifo' \in Seq(Byte) /\ faults' \in 0 .. MaxFaults
  <1>1. Response \in Byte
    BY DEF Response, Byte
  <1>2. /\ Append(fifo, Response) \in Seq(Byte)
        /\ Len(Append(fifo, Response)) >= 1
    BY <1>1 DEF LinkTypeOK
  <1>3. CASE PollByte(b)
    <2>1. \A t \in Seq(Byte) : Len(t) >= 1 => Tail(t) \in Seq(Byte)
      OBVIOUS
    <2>2. QED
      BY <1>2, <1>3, <2>1 DEF PollByte, LinkTypeOK
  <1>4. CASE PollShort(b)
    BY <1>2, <1>4 DEF PollShort, Fault, LinkTypeOK
  <1>5. QED
    BY <1>3, <1>4 DEF Polled

(* A short read leaves a buffer of bytes.                                   *)
LEMMA ShortReadType ==
  ASSUME LinkTypeOK, NEW n \in Nat, ShortRead(n)
  PROVE  LinkTypeOK'
  <1>1. PICK k \in 0 .. Copies * n - 1 : k <= Len(fifo) /\ fifo' = DropFirst(fifo, k)
    BY DEF ShortRead
  <1>2. k \in 0 .. Len(fifo)
    BY <1>1 DEF LinkTypeOK, Copies
  <1>3. fifo' \in Seq(Byte)
    BY <1>1, <1>2, DropFirstBytes DEF LinkTypeOK
  <1>4. QED
    BY <1>3 DEF ShortRead, Fault, LinkTypeOK

(* Read cycles produce as many bytes as were asked for.                     *)
LEMMA OutputsType ==
  ASSUME ChipTypeOK, NEW n \in 1 .. PageLen, NEW s \in Outputs(n)
  PROVE  s \in [1 .. n -> Byte]
  <1>1. [i \in 1 .. n |-> StatusByte] \in [1 .. n -> Byte]
    BY DEF StatusByte, Byte
  <1>2. CASE mode = "STATUS"
    BY <1>1, <1>2 DEF Outputs
  <1>3. CASE mode # "STATUS"
    BY <1>3 DEF Outputs
  <1>4. QED
    BY <1>2, <1>3

(* Issuing read cycles keeps the buffer one of bytes.                       *)
LEMMA IssueReadsType ==
  ASSUME ChipTypeOK, LinkTypeOK, NEW n \in 1 .. PageLen, IssueReads(n)
  PROVE  ChipTypeOK' /\ LinkTypeOK'
  <1>1. PICK s \in Outputs(n) : fifo' = fifo \o Repeated(s)
    BY DEF IssueReads
  <1>2. s \in [1 .. n -> Byte]
    BY <1>1, OutputsType
  <1>3. Repeated(s) \in Seq(Byte)
    BY <1>2, RepeatedBytes DEF LinkTypeOK
  <1>4. fifo' \in Seq(Byte)
    BY <1>1, <1>3 DEF LinkTypeOK
  <1>5. LinkTypeOK'
    BY <1>4 DEF IssueReads, LinkTypeOK, ReadLines, Lines
  <1>6. ChipTypeOK'
    BY DEF IssueReads, AfterOutput, ChipTypeOK
  <1>7. QED
    BY <1>5, <1>6

(* A full read returns bytes and leaves bytes.                              *)
LEMMA FullReadType ==
  ASSUME LinkTypeOK, NEW n \in 1 .. PageLen, FullRead(n)
  PROVE  /\ LinkTypeOK'
         /\ Received(n) \in [1 .. n -> Byte]
  <1>1. Copies \in {1, 2}
    BY DEF Copies
  <1>2. Copies * n \in 0 .. Len(fifo)
    BY <1>1 DEF FullRead, LinkTypeOK
  <1>3. fifo' \in Seq(Byte)
    BY <1>2, DropFirstBytes DEF FullRead, LinkTypeOK
  <1>4. \A i \in 1 .. n : Copies * (i - 1) + 1 \in 1 .. Len(fifo)
    BY <1>1, <1>2 DEF LinkTypeOK
  <1>5. \A j \in 1 .. Len(fifo) : fifo[j] \in Byte
    BY DEF LinkTypeOK
  <1>6. QED
    BY <1>3, <1>4, <1>5 DEF FullRead, LinkTypeOK, Received

(* What an operation returns is a reply.                                    *)
LEMMA ReplyType ==
  ASSUME NEW ok \in BOOLEAN
  PROVE  /\ Reply(ok, <<>>) \in Replies
         /\ \A n \in ReadLens : \A d \in [1 .. n -> Byte] : Reply(ok, d) \in Replies
  <1>1. <<>> \in [1 .. 0 -> Byte]
    OBVIOUS
  <1>2. QED
    BY <1>1 DEF Reply, Replies

(* The calls that write to the chip keep TypeOK.                            *)
LEMMA WriteStepsType ==
  ASSUME TypeOK, SendSetup \/ SendAddress \/ SendData \/ SendConfirm \/ SendStatus
  PROVE  TypeOK'
  <1> USE DEF TypeOK, Goto, Steps
  <1>1. DisableACBUS => pins' \in SUBSET Lines
    BY DEF DisableACBUS, IdleLines
  <1>2. ASSUME NEW c \in Commands, sendCmd(c)
        PROVE  ChipTypeOK' /\ LinkTypeOK'
    <2>1. ("WP" \in WriteLines(TRUE, FALSE)) \in BOOLEAN
      OBVIOUS
    <2>2. ChipTypeOK'
      BY <1>2, <2>1, LatchCommandType DEF sendCmd
    <2>3. QED
      BY <1>1, <1>2, <2>2 DEF sendCmd, LinkTypeOK
  <1>3. CASE SendSetup
    <2>1. SetupOf[op.kind] \in Commands
      BY <1>3, OpKinds DEF SendSetup, SetupOf, Commands
    <2>2. QED
      BY <1>2, <1>3, <2>1 DEF SendSetup
  <1>4. CASE SendAddress
    <2>1. ChipTypeOK'
      BY <1>4, AddressInNat, RowInChip DEF SendAddress, sendAddr, LatchAddress, ChipTypeOK
    <2>2. QED
      BY <1>1, <1>4, <2>1 DEF SendAddress, sendAddr, LinkTypeOK
  <1>5. CASE SendData
    <2>1. ChipTypeOK'
      BY <1>5, OpFields DEF SendData, writeData, DataIn, ChipTypeOK
    <2>2. QED
      BY <1>1, <1>5, <2>1 DEF SendData, writeData, LinkTypeOK
  <1>6. CASE SendConfirm
    <2>1. ConfirmOf[op.kind] \in Commands
      BY <1>6, OpKinds DEF SendConfirm, ConfirmOf, Commands
    <2>2. QED
      BY <1>2, <1>6, <2>1 DEF SendConfirm
  <1>7. CASE SendStatus
    BY <1>2, <1>7 DEF SendStatus, Commands
  <1>8. QED
    BY <1>3, <1>4, <1>5, <1>6, <1>7

(* The polls of waitReady keep TypeOK.                                      *)
LEMMA PollStepsType ==
  ASSUME TypeOK, KeepWaiting \/ SeeReady \/ WaitTimesOut \/ IgnoreReady
  PROVE  TypeOK'
  <1> USE DEF TypeOK, Goto, Steps, Waited, chip, ChipTypeOK
  <1>1. CASE KeepWaiting
    BY <1>1, PollType DEF KeepWaiting, PollAgain, LinkTypeOK
  <1>2. CASE SeeReady
    BY <1>2, PollType DEF SeeReady, PollReady, LinkTypeOK
  <1>3. CASE WaitTimesOut
    BY <1>3, PollType DEF WaitTimesOut, PollTimeout, LinkTypeOK
  <1>4. CASE IgnoreReady
    BY <1>4 DEF IgnoreReady, SkipWait, LinkTypeOK, link
  <1>5. QED
    BY <1>1, <1>2, <1>3, <1>4

(* Reading, retrying and returning keep TypeOK.                             *)
LEMMA ReadStepsType ==
  ASSUME TypeOK, IssueRead \/ Return \/ RetryRead \/ ReadError
  PROVE  TypeOK'
  <1> USE DEF TypeOK, Goto, Steps
  <1>1. op.len \in 1 .. PageLen /\ (op.kind = "read" => op.len \in ReadLens)
        /\ (op.kind # "read" => op.len = 1)
    BY OpFields
  <1>2. CASE IssueRead
    BY <1>1, <1>2, IssueReadsType DEF IssueRead
  <1>3. CASE Return
    <2>1. LinkTypeOK' /\ Received(op.len) \in [1 .. op.len -> Byte]
      BY <1>1, <1>3, FullReadType DEF Return
    <2>2. ret' \in Replies
      BY <1>1, <1>3, <2>1, ReplyType DEF Return
    <2>3. QED
      BY <1>3, <2>1, <2>2 DEF Return, chip, ChipTypeOK
  <1>4. CASE RetryRead
    BY <1>1, <1>4, ShortReadType DEF RetryRead, chip, ChipTypeOK
  <1>5. CASE ReadError
    BY <1>1, <1>5, ShortReadType DEF ReadError, chip, ChipTypeOK
  <1>6. QED
    BY <1>2, <1>3, <1>4, <1>5

(* TypeOK holds initially.                                                  *)
LEMMA TypeInit == Init => TypeOK
  <1>1. Blank \in Content
    BY DEF Blank, Content, Byte
  <1>2. 0 \in Pages
    BY DEF Pages
  <1>3. QED
    BY <1>1, <1>2, ReplyType
    DEF Init, ChipInit, LinkInit, TypeOK, ChipTypeOK, LinkTypeOK, Lines, Steps

(* Every step keeps TypeOK.                                                 *)
LEMMA TypeStep ==
  ASSUME TypeOK, [Next]_vars
  PROVE  TypeOK'
  <1>1. ASSUME NEW o \in Ops, Start(o)
        PROVE  TypeOK'
    BY <1>1 DEF Start, TypeOK, Steps, chip, ChipTypeOK, link, LinkTypeOK
  <1>2. CASE TransferError
    BY <1>2 DEF TransferError, Fault, Goto, TypeOK, Steps, chip, ChipTypeOK, LinkTypeOK
  <1>3. CASE Call
    BY <1>2, <1>3, WriteStepsType, PollStepsType, ReadStepsType DEF Call
  <1>4. CASE ChipFinishes
    BY <1>4, ChipStepType DEF ChipFinishes, TypeOK, link, LinkTypeOK
  <1>5. CASE UNCHANGED vars
    BY <1>5 DEF vars, TypeOK, chip, ChipTypeOK, link, LinkTypeOK
  <1>6. QED
    BY <1>1, <1>3, <1>4, <1>5 DEF Next, Exited

(* Every variable keeps its type, whatever the link and the chip do: the    *)
(* timeout counter in particular stays between -1 and TIMEOUT_RETRIES.      *)
THEOREM TypeCorrect == Spec => []TypeOK
  <1>1. QED
    BY TypeInit, TypeStep, PTL DEF Spec

-----------------------------------------------------------------------------
(* What holds over any link and with any chip: short reads, failed          *)
(* transfers and timeouts, however many.                                    *)

(* A setup command is taken by an idle chip or changes nothing.             *)
LEMMA SetupPrepares ==
  ASSUME TypeOK, Prepared, SendSetup
  PROVE  Prepared'
  <1>1. op.kind \in {"read", "write", "erase"}
    BY OpKinds DEF TypeOK, SendSetup
  <1>2. SetupOf[op.kind] \in {"READ0", "SEQIN", "ERASE1"}
    BY <1>1 DEF SetupOf
  <1>3. mode \notin {"SEQIN", "ERASE1"}
    BY DEF Prepared, SendSetup
  <1>4. SetupCommand(SetupOf[op.kind]) \/ UNCHANGED chip
    BY <1>2 DEF SendSetup, sendCmd, LatchCommand, ReadStatusCommand, ConfirmCommand,
       IgnoredCommand, Accepts, Confirms
  <1>5. pc' = "address" /\ op' = op
    BY DEF SendSetup, Goto
  <1>6. CASE SetupCommand(SetupOf[op.kind])
    BY <1>5, <1>6 DEF SetupCommand, Prepared
  <1>7. CASE UNCHANGED chip
    BY <1>3, <1>7 DEF chip, Prepared
  <1>8. QED
    BY <1>4, <1>6, <1>7

(* Address and data cycles reach an idle chip that took the setup command.  *)
LEMMA CyclesPrepare ==
  ASSUME Prepared, SendAddress \/ SendData
  PROVE  Prepared'
  <1>1. CASE SendAddress
    BY <1>1 DEF SendAddress, sendAddr, LatchAddress, Goto, Prepared, SetupOf
  <1>2. CASE SendData
    BY <1>2 DEF SendData, writeData, DataIn, Goto, Prepared, SetupOf, AddressOf
  <1>3. QED
    BY <1>1, <1>2

(* A confirm command makes the chip leave the setup mode: #WP is high and   *)
(* the setup command is that of the same operation.                         *)
LEMMA ConfirmLeaves ==
  ASSUME TypeOK, Prepared, SendConfirm
  PROVE  mode' \notin {"SEQIN", "ERASE1"}
  <1> DEFINE c == ConfirmOf[op.kind]
             wp == "WP" \in WriteLines(TRUE, FALSE)
  <1>1. op.kind \in {"read", "write", "erase"}
    BY OpKinds DEF TypeOK, SendConfirm
  <1>2. c \in {"READSTART", "PAGEPROG", "ERASE2"}
    BY <1>1 DEF ConfirmOf
  <1>3. ConfirmCommand(c, wp) \/ (~Accepts(c, wp) /\ UNCHANGED chip)
    BY <1>2 DEF SendConfirm, sendCmd, LatchCommand, ReadStatusCommand, SetupCommand,
       IgnoredCommand
  <1>4. CASE ConfirmCommand(c, wp)
    BY <1>2, <1>4 DEF ConfirmCommand
  <1>5. CASE ~Accepts(c, wp) /\ UNCHANGED chip
    <2>1. SUFFICES ASSUME mode \in {"SEQIN", "ERASE1"} PROVE FALSE
      BY <1>5 DEF chip
    <2>2. busy = "none" /\ mode = SetupOf[op.kind]
      BY <2>1 DEF Prepared, SendConfirm
    <2>3. wp
      BY DEF WriteLines
    <2>4. CASE op.kind = "write"
      <3>1. Confirms(c, mode, "prog")
        BY <2>2, <2>4 DEF Confirms, SetupOf, ConfirmOf
      <3>2. QED
        BY <1>5, <2>2, <2>3, <3>1 DEF Accepts, Work
    <2>5. CASE op.kind = "erase"
      <3>1. Confirms(c, mode, "erase")
        BY <2>2, <2>5 DEF Confirms, SetupOf, ConfirmOf
      <3>2. QED
        BY <1>5, <2>2, <2>3, <3>1 DEF Accepts, Work
    <2>6. op.kind # "read"
      BY <2>1, <2>2 DEF SetupOf
    <2>7. QED
      BY <1>1, <2>4, <2>5, <2>6
  <1>6. QED
    BY <1>3, <1>4, <1>5

(* Outside setup, address and data the chip is not in a setup mode, and     *)
(* neither waiting nor reading puts it there.                               *)
LEMMA OthersPrepare ==
  ASSUME Prepared,
         \/ KeepWaiting \/ SeeReady \/ WaitTimesOut \/ IgnoreReady
         \/ SendStatus \/ IssueRead \/ Return \/ RetryRead \/ ReadError
         \/ TransferError
  PROVE  Prepared'
  <1>1. CASE KeepWaiting \/ SeeReady \/ WaitTimesOut \/ IgnoreReady
    BY <1>1 DEF KeepWaiting, SeeReady, WaitTimesOut, IgnoreReady, chip, Prepared
  <1>2. CASE SendStatus
    BY <1>2 DEF SendStatus, sendCmd, LatchCommand, ReadStatusCommand, SetupCommand,
       ConfirmCommand, IgnoredCommand, Accepts, Confirms, Prepared
  <1>3. CASE IssueRead
    BY <1>3 DEF IssueRead, IssueReads, AfterOutput, Prepared
  <1>4. CASE Return \/ RetryRead \/ ReadError
    BY <1>4 DEF Return, RetryRead, ReadError, chip, Prepared
  <1>5. CASE TransferError
    BY <1>5 DEF TransferError, Goto, chip, Prepared
  <1>6. QED
    BY <1>1, <1>2, <1>3, <1>4, <1>5

(* Every step keeps Prepared.                                               *)
LEMMA PreparedStep ==
  ASSUME TypeOK, Prepared, [Next]_vars
  PROVE  Prepared'
  <1>1. CASE \E o \in Ops : Start(o)
    BY <1>1 DEF Start, chip, Prepared
  <1>2. CASE SendConfirm
    BY <1>2, ConfirmLeaves DEF Prepared
  <1>3. CASE Call
    BY <1>2, <1>3, SetupPrepares, CyclesPrepare, OthersPrepare DEF Call
  <1>4. CASE ChipFinishes
    BY <1>4 DEF ChipFinishes, ChipStep, FinishRead, FinishProgram, FinishErase, Prepared
  <1>5. CASE UNCHANGED vars
    BY <1>5 DEF vars, chip, Prepared, AddressOf
  <1>6. QED
    BY <1>1, <1>3, <1>4, <1>5 DEF Next, Exited

(* Only a confirm command makes the chip busy.                              *)
LEMMA WorkStarts ==
  ASSUME TypeOK, [Next]_vars, busy = "none", busy' # "none"
  PROVE  SendConfirm /\ ConfirmCommand(ConfirmOf[op.kind], "WP" \in WriteLines(TRUE, FALSE))
  <1>1. ~ChipFinishes
    BY DEF ChipFinishes, ChipStep, FinishRead, FinishProgram, FinishErase
  <1>2. ASSUME NEW c, NEW wp, LatchCommand(c, wp)
        PROVE  ConfirmCommand(c, wp)
    BY <1>2 DEF LatchCommand, ReadStatusCommand, SetupCommand, IgnoredCommand, chip
  <1>3. ASSUME SendSetup \/ SendStatus
        PROVE  FALSE
    <2>1. CASE SendStatus
      <3>1. ConfirmCommand("STATUS", "WP" \in WriteLines(TRUE, FALSE))
        BY <1>2, <2>1 DEF SendStatus, sendCmd
      <3>2. QED
        BY <3>1 DEF ConfirmCommand, Accepts, Confirms
    <2>2. CASE SendSetup
      <3>1. ConfirmCommand(SetupOf[op.kind], "WP" \in WriteLines(TRUE, FALSE))
        BY <1>2, <2>2 DEF SendSetup, sendCmd
      <3>2. op.kind \in {"read", "write", "erase"}
        BY <2>2, OpKinds DEF TypeOK, SendSetup
      <3>3. SetupOf[op.kind] \in {"READ0", "SEQIN", "ERASE1"}
        BY <3>2 DEF SetupOf
      <3>4. QED
        BY <3>1, <3>3 DEF ConfirmCommand, Accepts, Confirms
    <2>3. QED
      BY <1>3, <2>1, <2>2
  <1>4. ~(SendAddress \/ SendData)
    BY DEF SendAddress, SendData, sendAddr, writeData, LatchAddress, DataIn
  <1>5. ~(KeepWaiting \/ SeeReady \/ WaitTimesOut \/ IgnoreReady)
    BY DEF KeepWaiting, SeeReady, WaitTimesOut, IgnoreReady, chip
  <1>6. ~(IssueRead \/ Return \/ RetryRead \/ ReadError \/ TransferError)
    BY DEF IssueRead, IssueReads, AfterOutput, Return, RetryRead, ReadError,
       TransferError, chip
  <1>7. ~(\E o \in Ops : Start(o)) /\ ~UNCHANGED vars
    BY DEF Start, vars, chip
  <1>8. SendConfirm
    BY <1>1, <1>3, <1>4, <1>5, <1>6, <1>7 DEF Next, Call, Exited
  <1>9. QED
    BY <1>2, <1>8 DEF SendConfirm, sendCmd

(* A program or erase the chip starts is the running operation's, at its    *)
(* address and with its data, whatever the link and the chip do.            *)
THEOREM NoStrayWorkEver == Spec => NoStrayWork
  <1> DEFINE Own == /\ op.kind = IF busy' = "prog" THEN "write" ELSE "erase"
                    /\ row = AddressOf(op) % NPages
                    /\ busy' = "prog" => reg = op.data
  <1>1. ASSUME TypeOK, Prepared, [Next]_vars,
               busy = "none", busy' \in {"prog", "erase"}
        PROVE  Own
    <2>1. /\ SendConfirm
          /\ ConfirmCommand(ConfirmOf[op.kind], "WP" \in WriteLines(TRUE, FALSE))
      BY <1>1, WorkStarts
    <2>2. pc = "confirm" /\ op.kind \in {"read", "write", "erase"}
      BY <1>1, <2>1, OpKinds DEF TypeOK, SendConfirm
    <2>3. PICK w \in Work : Confirms(ConfirmOf[op.kind], mode, w) /\ busy' = w
      BY <2>1 DEF ConfirmCommand
    <2>4. mode = IF busy' = "prog" THEN "SEQIN" ELSE "ERASE1"
      BY <1>1, <2>3 DEF Confirms
    <2>5. mode = SetupOf[op.kind] /\ row = AddressOf(op) % NPages
      BY <1>1, <2>2, <2>4 DEF Prepared
    <2>6. op.kind = IF busy' = "prog" THEN "write" ELSE "erase"
      BY <1>1, <2>2, <2>4, <2>5 DEF SetupOf
    <2>7. busy' = "prog" => reg = op.data
      BY <1>1, <2>2, <2>4, <2>6 DEF Prepared
    <2>8. QED
      BY <2>5, <2>6, <2>7
  <1>2. Init => Prepared
    BY DEF Init, ChipInit, Prepared
  <1>3. TypeOK /\ Prepared /\ [Next]_vars
          => [busy = "none" /\ busy' \in {"prog", "erase"} => Own]_vars
    BY <1>1
  <1>4. Spec => []Prepared
    BY <1>2, PreparedStep, TypeCorrect, PTL DEF Spec
  <1>5. QED
    BY <1>3, <1>4, TypeCorrect, PTL DEF Spec, NoStrayWork

-----------------------------------------------------------------------------
(***************************************************************************)
(* What holds of every chip and every page size when the link delivers     *)
(* what was asked for, the chip meets the timeout of waitReady, and the    *)
(* address bytes sendAddr sends can name every page.                       *)
(***************************************************************************)
(* A block number, times the pages of a block, is the row of a page of it.  *)
LEMMA BlockRow ==
  ASSUME Addressable, NEW b \in Blocks
  PROVE  /\ EraseRow(b) % NPages = b * PagesPerBlock
         /\ BlockOf(b * PagesPerBlock) = b
  <1>1. PICK p \in Pages : b = p \div PagesPerBlock
    BY DEF Blocks, BlockOf
  <1>2. p \in Nat /\ p < NPages /\ b \in Nat
    BY <1>1 DEF Pages
  <1>3. b * PagesPerBlock \in Nat /\ b * PagesPerBlock <= p
    BY <1>1, <1>2
  <1>4. \A n \in Nat, m \in Nat : n < m => n % m = n
    OBVIOUS
  <1>5. EraseRow(b) = b * PagesPerBlock
    BY <1>2, <1>3, <1>4 DEF EraseRow, Addressable
  <1>6. (b * PagesPerBlock) \div PagesPerBlock = b
    BY <1>2
  <1>7. QED
    BY <1>2, <1>3, <1>4, <1>5, <1>6 DEF BlockOf

(* The row the chip latches is the page, or in the block, of the operation.  *)
LEMMA RowLatched ==
  ASSUME Addressable, NEW o \in Ops
  PROVE  LET r == AddressOf(o) % NPages IN
           IF o.kind = "erase" THEN BlockOf(r) = o.at ELSE r = o.at
  <1>1. CASE o.kind = "erase"
    <2>1. o.at \in Blocks
      BY <1>1 DEF Ops, Read, Write, Erase
    <2>2. QED
      BY <1>1, <2>1, BlockRow DEF AddressOf
  <1>2. CASE o.kind # "erase"
    <2>1. o.at \in Pages
      BY <1>2 DEF Ops, Read, Write, Erase
    <2>2. o.at \in Nat /\ o.at < NPages /\ o.at < RowSpan
      BY <2>1 DEF Pages, Addressable
    <2>3. \A n \in Nat, m \in Nat : n < m => n % m = n
      OBVIOUS
    <2>4. QED
      BY <1>2, <2>2, <2>3 DEF AddressOf, PageRow
  <1>3. QED
    BY <1>1, <1>2

-----------------------------------------------------------------------------
(***************************************************************************)
(* InStep is inductive, one lemma per phase of an operation.               *)
(***************************************************************************)
Phases == LinkQuiet /\ BusyInWait /\ WaitGuarded /\ SetUp /\ Addressed
            /\ Loaded /\ Reading /\ Readable /\ StatusAsked /\ Buffered

(* An operation starts with an idle chip and an empty buffer.               *)
LEMMA StartInStep ==
  ASSUME InStep, NEW o \in Ops, Start(o)
  PROVE  Phases'
  BY OpKinds DEF InStep, Phases, Start, LinkQuiet, BusyInWait, WaitGuarded, SetUp,
     Addressed, Loaded, Reading, Readable, StatusAsked, Buffered, Performed, chip, link

(* The setup command puts the chip in the mode of the operation.            *)
LEMMA SetupInStep ==
  ASSUME InStep, SendSetup
  PROVE  Phases'
  <1>1. op \in Ops /\ op.kind \in {"read", "write", "erase"}
    BY OpKinds DEF InStep, TypeOK, SendSetup
  <1>2. SetupOf[op.kind] \in {"READ0", "SEQIN", "ERASE1"}
    BY <1>1 DEF SetupOf
  <1>3. busy = "none"
    BY DEF InStep, BusyInWait, SendSetup
  <1>4. SetupCommand(SetupOf[op.kind])
    BY <1>2, <1>3 DEF SendSetup, sendCmd, LatchCommand, ReadStatusCommand,
       ConfirmCommand, IgnoredCommand, Accepts, Confirms
  <1>5. QED
    BY <1>3, <1>4 DEF InStep, Phases, SendSetup, SetupCommand, sendCmd, Goto,
       LinkQuiet, BusyInWait, WaitGuarded, SetUp, Addressed, Loaded, Reading, Readable,
       StatusAsked, Buffered, Performed

(* The address cycles latch the row of the operation.                       *)
LEMMA AddressInStep ==
  ASSUME InStep, Addressable, SendAddress
  PROVE  Phases'
  <1>1. op \in Ops /\ op.kind \in {"read", "write", "erase"}
    BY OpKinds DEF InStep, TypeOK, SendAddress
  <1>2. busy = "none"
    BY DEF InStep, BusyInWait, SendAddress
  <1>3. row' = AddressOf(op) % NPages
    BY <1>2 DEF SendAddress, sendAddr, LatchAddress
  <1>4. Addressed'
    BY <1>1, <1>2, <1>3, RowLatched DEF Addressed, SendAddress, sendAddr, LatchAddress, Goto
  <1>5. QED
    BY <1>1, <1>2, <1>4 DEF InStep, Phases, SendAddress, sendAddr, LatchAddress, Goto,
       LinkQuiet, BusyInWait, WaitGuarded, SetUp, Loaded, Reading, Readable,
       StatusAsked, Buffered, Performed

(* The data cycles of a write load the page register.                       *)
LEMMA DataInStep ==
  ASSUME InStep, SendData
  PROVE  Phases'
  <1>1. busy = "none"
    BY DEF InStep, BusyInWait, SendData
  <1>2. op.kind = "write" => mode = "SEQIN"
    BY DEF InStep, SetUp, SetupOf, SendData
  <1>3. QED
    BY <1>1, <1>2 DEF InStep, Phases, SendData, writeData, DataIn, Goto,
       LinkQuiet, BusyInWait, WaitGuarded, SetUp, Addressed, Loaded, Reading, Readable,
       StatusAsked, Buffered, Performed

(* The chip accepts the confirm command and starts the work asked for.  *)
LEMMA ConfirmStarts ==
  ASSUME InStep, SendConfirm
  PROVE  /\ ConfirmCommand(ConfirmOf[op.kind], TRUE)
         /\ busy' = WorkOf[op.kind]
         /\ busy' # "none"
  <1>1. op \in Ops /\ op.kind \in {"read", "write", "erase"}
    BY OpKinds DEF InStep, TypeOK, SendConfirm
  <1>2. busy = "none"
    BY DEF InStep, BusyInWait, SendConfirm
  <1>3. mode = SetupOf[op.kind]
    BY DEF InStep, SetUp, SendConfirm
  <1>4. Confirms(ConfirmOf[op.kind], mode, WorkOf[op.kind]) /\ WorkOf[op.kind] \in Work
    BY <1>1, <1>3 DEF Confirms, ConfirmOf, SetupOf, WorkOf, Work
  <1>5. "WP" \in WriteLines(TRUE, FALSE)
    BY DEF WriteLines
  <1>6. Accepts(ConfirmOf[op.kind], TRUE)
    BY <1>2, <1>4 DEF Accepts
  <1>7. ConfirmOf[op.kind] \in {"READSTART", "PAGEPROG", "ERASE2"}
    BY <1>1 DEF ConfirmOf
  <1>8. ConfirmCommand(ConfirmOf[op.kind], TRUE)
    BY <1>5, <1>6, <1>7 DEF SendConfirm, sendCmd, LatchCommand, ReadStatusCommand,
       SetupCommand, IgnoredCommand
  <1>9. busy' = WorkOf[op.kind]
    BY <1>1, <1>4, <1>7, <1>8 DEF ConfirmCommand, Confirms, ConfirmOf, WorkOf
  <1>10. WorkOf[op.kind] # "none"
    BY <1>1 DEF WorkOf
  <1>11. QED
    BY <1>8, <1>9, <1>10

(* After the confirm command the chip does the work of the operation.       *)
LEMMA ConfirmInStep ==
  ASSUME InStep, SendConfirm
  PROVE  Phases'
  <1>1. op \in Ops /\ op.kind \in {"read", "write", "erase"}
    BY OpKinds DEF InStep, TypeOK, SendConfirm
  <1>2. busy = "none"
    BY DEF InStep, BusyInWait, SendConfirm
  <1>3. pins' = IdleLines
    BY DEF SendConfirm, sendCmd, DisableACBUS
  <1>4. /\ ConfirmCommand(ConfirmOf[op.kind], TRUE)
        /\ busy' = WorkOf[op.kind]
        /\ busy' # "none"
    BY ConfirmStarts
  <1>5. QED
    BY <1>1, <1>2, <1>3, <1>4 DEF InStep, Phases, SendConfirm, ConfirmCommand,
       sendCmd, Goto, LinkQuiet, BusyInWait, WaitGuarded, SetUp, Addressed, Loaded,
       Reading, Readable, StatusAsked, Buffered, Performed, IdleLines, Lines, WorkOf,
       ConfirmOf

(* With an empty buffer a poll sees R/#B as it is.  *)
LEMMA PollSeesChip ==
  ASSUME InStep, pc = "wait", NEW b \in Byte, Polled(b)
  PROVE  b = Response /\ fifo' = <<>> /\ faults' = 0
  <1>1. fifo = <<>> /\ faults = 0
    BY DEF InStep, Buffered, LinkQuiet
  <1>2. PollByte(b)
    BY <1>1 DEF Polled, PollShort, Fault
  <1>3. Append(fifo, Response) = <<Response>>
    BY <1>1
  <1>4. QED
    BY <1>1, <1>2, <1>3 DEF PollByte

(* waitReady takes its own answers out of the buffer and ends when the chip *)
(* is ready.                                                                *)
LEMMA WaitInStep ==
  ASSUME InStep, Reliable, KeepWaiting \/ SeeReady \/ WaitTimesOut \/ IgnoreReady
  PROVE  Phases'
  <1>1. pc = "wait" /\ fifo = <<>> /\ faults = 0 /\ rbErrorCount = 0
    BY DEF InStep, Buffered, LinkQuiet, KeepWaiting, SeeReady, WaitTimesOut, IgnoreReady
  <1>2. op \in Ops /\ op.kind \in {"read", "write", "erase"}
    BY <1>1, OpKinds DEF InStep, TypeOK
  <1>3. CASE KeepWaiting
    <2>1. fifo' = <<>> /\ faults' = 0
      BY <1>1, <1>3, PollSeesChip DEF KeepWaiting, PollAgain
    <2>2. QED
      BY <1>1, <1>3, <2>1 DEF InStep, Phases, KeepWaiting, PollAgain, chip, LinkQuiet,
         BusyInWait, WaitGuarded, SetUp, Addressed, Loaded, Reading, Readable, StatusAsked,
         Buffered, Performed
  <1>4. CASE SeeReady
    <2>1. fifo' = <<>> /\ faults' = 0 /\ busy = "none"
      BY <1>1, <1>4, PollSeesChip DEF SeeReady, PollReady, Response
    <2>2. QED
      BY <1>1, <1>2, <1>4, <2>1 DEF InStep, Phases, SeeReady, PollReady, Waited, Goto, chip,
         LinkQuiet, BusyInWait, WaitGuarded, SetUp, Addressed, Loaded, Reading, Readable,
         StatusAsked, Buffered, Performed
  <1>5. CASE WaitTimesOut
    BY <1>1, <1>5, PollSeesChip DEF WaitTimesOut, PollTimeout, Response, Reliable
  <1>6. CASE IgnoreReady
    BY <1>1, <1>6 DEF IgnoreReady, SkipWait
  <1>7. QED
    BY <1>3, <1>4, <1>5, <1>6

(* The status command makes the next read cycle the status byte's.          *)
LEMMA StatusInStep ==
  ASSUME InStep, SendStatus
  PROVE  Phases'
  <1>1. ReadStatusCommand("STATUS")
    BY DEF SendStatus, sendCmd, LatchCommand, SetupCommand, ConfirmCommand, Accepts,
       Confirms, IgnoredCommand
  <1>2. busy = "none"
    BY DEF InStep, BusyInWait, SendStatus
  <1>3. op.kind # "read"
    BY DEF InStep, StatusAsked, SendStatus
  <1>4. QED
    BY <1>1, <1>2, <1>3 DEF InStep, Phases, SendStatus, ReadStatusCommand, sendCmd, Goto,
       LinkQuiet, BusyInWait, WaitGuarded, SetUp, Addressed, Loaded, Reading, Readable,
       StatusAsked, Buffered, Performed

(* With the chip idle, the bytes of the read cycles are the page's, or the  *)
(* status byte.                                                             *)
LEMMA OutputsInStep ==
  ASSUME InStep, pc = "issue", NEW s \in Outputs(op.len)
  PROVE  s = IF op.kind = "read" THEN Prefix(array[op.at], op.len) ELSE <<StatusByte>>
  <1>1. op \in Ops
    BY DEF InStep, TypeOK
  <1>2. /\ op.len \in 1 .. PageLen
        /\ op.kind # "read" => op.len = 1
    BY <1>1, OpFields
  <1>3. busy = "none"
    BY DEF InStep, BusyInWait
  <1>4. CASE op.kind = "read"
    <2>1. reg = array[op.at] /\ col = 0 /\ mode = "READSTART"
      BY <1>4 DEF InStep, Reading, Readable, Performed
    <2>2. s \in [1 .. op.len -> Byte] /\ \A i \in 1 .. op.len : s[i] = reg[i]
      BY <1>2, <1>3, <2>1 DEF Outputs
    <2>3. s = [i \in 1 .. op.len |-> reg[i]]
      BY <2>2
    <2>4. QED
      BY <1>4, <2>1, <2>3 DEF Prefix
  <1>5. CASE op.kind # "read"
    <2>1. s = [i \in 1 .. 1 |-> StatusByte]
      BY <1>2, <1>5 DEF InStep, StatusAsked, Outputs
    <2>2. s = <<StatusByte>>
      BY <2>1
    <2>3. QED
      BY <1>5, <2>2
  <1>6. QED
    BY <1>4, <1>5

(* The read cycles fill the empty buffer with the bytes asked for.          *)
LEMMA IssueInStep ==
  ASSUME InStep, IssueRead
  PROVE  Phases'
  <1>1. op.len \in 1 .. PageLen
    BY OpFields DEF InStep, TypeOK, IssueRead
  <1>2. PICK s \in Outputs(op.len) : fifo' = fifo \o Repeated(s)
    BY DEF IssueRead, IssueReads
  <1>3. s = IF op.kind = "read" THEN Prefix(array[op.at], op.len) ELSE <<StatusByte>>
    BY <1>2, OutputsInStep DEF IssueRead
  <1>4. Repeated(s) \in Seq(Byte)
    BY <1>1, <1>2, OutputsType, RepeatedBytes DEF InStep, TypeOK, LinkTypeOK
  <1>5. fifo' = Repeated(s)
    BY <1>2, <1>4 DEF InStep, Buffered, IssueRead
  <1>6. UNCHANGED <<array, op, fail, slow>> /\ pc' = "receive"
    BY DEF IssueRead, IssueReads, AfterOutput, Goto
  <1>7. Buffered'
    BY <1>3, <1>5, <1>6 DEF Buffered, Repeated, Copies, StatusByte
  <1>8. busy = "none" /\ busy' = "none"
    BY DEF InStep, BusyInWait, IssueRead, IssueReads, AfterOutput
  <1>9. QED
    BY <1>6, <1>7, <1>8 DEF InStep, Phases, IssueRead, IssueReads, Goto,
       LinkQuiet, BusyInWait, WaitGuarded, SetUp, Addressed, Loaded, Reading, Readable,
       StatusAsked, Performed

(* A full read takes everything the read cycles produced, and every second  *)
(* byte of it in slow mode is what they produced.                           *)
LEMMA ReceivedInStep ==
  ASSUME InStep, pc = "receive", FullRead(op.len)
  PROVE  /\ fifo' = <<>>
         /\ Received(op.len) = IF op.kind = "read" THEN Prefix(array[op.at], op.len)
                               ELSE <<StatusByte>>
  <1> DEFINE s == IF op.kind = "read" THEN Prefix(array[op.at], op.len) ELSE <<StatusByte>>
  <1>1. op \in Ops
    BY DEF InStep, TypeOK
  <1>2. /\ op.len \in 1 .. PageLen
        /\ op.kind # "read" => op.len = 1
        /\ op.at \in Nat
    BY <1>1, OpFields
  <1>3. s \in [1 .. op.len -> Byte]
    <2>1. CASE op.kind = "read"
      <3>1. op.at \in Pages
        BY <1>1, <2>1 DEF Ops, Read, Write, Erase
      <3>2. array[op.at] \in [Cols -> Byte]
        BY <3>1 DEF InStep, TypeOK, ChipTypeOK, Content
      <3>3. QED
        BY <1>2, <2>1, <3>2 DEF Prefix, Cols
    <2>2. CASE op.kind # "read"
      <3>1. StatusByte \in Byte
        BY DEF StatusByte, Byte
      <3>2. QED
        BY <1>2, <2>2, <3>1
    <2>3. QED
      BY <2>1, <2>2
  <1>4. fifo = Repeated(s)
    BY DEF InStep, Buffered
  <1>5. slow \in BOOLEAN
    BY DEF InStep, TypeOK, LinkTypeOK
  <1>6. fifo \in Seq(Byte) /\ Len(fifo) = Copies * op.len
    <2> HIDE DEF s
    <2>1. op.len \in Nat
      BY <1>2
    <2>2. QED
      BY <1>3, <1>4, <1>5, <2>1, RepeatedBytes
  <1>7. Len(fifo') = 0 /\ fifo' \in Seq(Byte)
    <2>1. Copies * op.len \in 0 .. Len(fifo)
      BY <1>2, <1>6 DEF Copies
    <2>2. QED
      BY <1>6, <2>1, DropFirstBytes DEF FullRead
  <1>8. Received(op.len) = s
    <2>1. Len(s) = op.len
      BY <1>2, <1>3
    <2>2. CASE slow
      <3>1. \A i \in 1 .. op.len : fifo[2 * (i - 1) + 1] = s[i]
        BY <1>2, <1>4, <2>1, <2>2 DEF Repeated, Copies
      <3>2. QED
        BY <1>3, <2>2, <3>1 DEF Received, Copies
    <2>3. CASE ~slow
      <3>1. \A i \in 1 .. op.len : fifo[i] = s[i]
        BY <1>2, <1>4, <2>1, <2>3 DEF Repeated, Copies
      <3>2. QED
        BY <1>2, <1>3, <2>3, <3>1 DEF Received, Copies
    <2>4. QED
      BY <1>5, <2>2, <2>3
  <1>9. QED
    BY <1>7, <1>8

(* A return leaves an empty buffer, and over a reliable link no read fails. *)
LEMMA ReceiveInStep ==
  ASSUME InStep, Return \/ RetryRead \/ ReadError
  PROVE  Phases'
  <1>1. pc = "receive" /\ faults = 0
    BY DEF InStep, LinkQuiet, Return, RetryRead, ReadError
  <1>2. Return
    BY <1>1 DEF RetryRead, ReadError, ShortRead, Fault
  <1>3. fifo' = <<>> /\ pc' = "idle" /\ UNCHANGED chip
    BY <1>1, <1>2, ReceivedInStep DEF Return
  <1>4. busy = "none"
    BY <1>1 DEF InStep, BusyInWait
  <1>5. QED
    BY <1>1, <1>2, <1>3, <1>4 DEF InStep, Phases, Return, FullRead, chip, LinkQuiet,
       BusyInWait, WaitGuarded, SetUp, Addressed, Loaded, Reading, Readable, StatusAsked,
       Buffered, Performed

(* The chip finishes only while the program waits for it.                   *)
LEMMA FinishInStep ==
  ASSUME InStep, ChipFinishes
  PROVE  Phases'
  <1>1. pc = "wait" /\ busy # "none" /\ busy = WorkOf[op.kind] /\ busy' = "none"
    BY DEF InStep, BusyInWait, ChipFinishes, ChipStep, FinishRead, FinishProgram, FinishErase
  <1>2. op \in Ops /\ op.kind \in {"read", "write", "erase"}
    BY <1>1, OpKinds DEF InStep, TypeOK
  <1>3. UNCHANGED <<link, pc, op, ret, mode, row>>
    BY DEF ChipFinishes, ChipStep, FinishRead, FinishProgram, FinishErase
  <1>4. Readable'
    <2>1. CASE op.kind = "read"
      <3>1. FinishRead
        BY <1>1, <2>1 DEF WorkOf, ChipFinishes, ChipStep, FinishProgram, FinishErase
      <3>2. row = op.at /\ mode = "READSTART"
        BY <1>1, <2>1 DEF InStep, Addressed, Reading, WorkOf
      <3>3. QED
        BY <1>3, <2>1, <3>1, <3>2 DEF Readable, FinishRead
    <2>2. CASE op.kind # "read"
      BY <1>3, <2>2 DEF Readable
    <2>3. QED
      BY <2>1, <2>2
  <1>5. QED
    BY <1>1, <1>3, <1>4 DEF InStep, Phases, LinkQuiet, BusyInWait, WaitGuarded, SetUp,
       Addressed, Loaded, Reading, StatusAsked, Buffered, link

(* Under Reliable and Addressable, InStep holds throughout.  *)
THEOREM StaysInStep ==
  ASSUME Reliable, Addressable
  PROVE  Spec => []InStep
  <1>1. Init => InStep
    BY TypeInit DEF Init, ChipInit, LinkInit, InStep, Reliable, LinkQuiet, BusyInWait,
       WaitGuarded, SetUp, Addressed, Loaded, Reading, Readable, StatusAsked, Buffered,
       Performed
  <1>2. InStep /\ [Next]_vars => InStep'
    <2> SUFFICES ASSUME InStep, [Next]_vars PROVE InStep'
      OBVIOUS
    <2>1. TypeOK'
      BY TypeStep DEF InStep
    <2>2. CASE \E o \in Ops : Start(o)
      BY <2>1, <2>2, StartInStep DEF InStep, Phases
    <2>3. CASE Call
      <3>1. ~TransferError
        BY DEF InStep, LinkQuiet, TransferError, Fault
      <3>2. Phases'
        BY <2>3, <3>1, SetupInStep, AddressInStep, DataInStep, ConfirmInStep, WaitInStep,
           StatusInStep, IssueInStep, ReceiveInStep DEF Call
      <3>3. QED
        BY <2>1, <3>2 DEF InStep, Phases
    <2>4. CASE ChipFinishes
      BY <2>1, <2>4, FinishInStep DEF InStep, Phases
    <2>5. CASE UNCHANGED vars
      BY <2>1, <2>5 DEF InStep, vars, chip, link, LinkQuiet, BusyInWait, WaitGuarded, SetUp,
         Addressed, Loaded, Reading, Readable, StatusAsked, Buffered, Performed,
         Repeated, Copies, StatusByte
    <2>6. QED
      BY <2>2, <2>3, <2>4, <2>5 DEF Next, Exited
  <1>3. QED
    BY <1>1, <1>2, PTL DEF Spec

(* #WP is high from the confirm command of a program or erase to its end.   *)
THEOREM WriteProtectHolds ==
  ASSUME Reliable, Addressable
  PROVE  Spec => []WPHighWhileBusy
  <1>1. InStep => WPHighWhileBusy
    BY DEF InStep, BusyInWait, WaitGuarded, WPHighWhileBusy
  <1>2. QED
    BY <1>1, StaysInStep, PTL

-----------------------------------------------------------------------------
(***************************************************************************)
(* NandData implements NandStore: the cycles of an operation are stutters, *)
(* but for its start, the end of the chip's work and its return.           *)
(***************************************************************************)
(* The vocabulary of NandStore is that of NandData.  *)
LEMMA SameTypes ==
  /\ Store!Ops = Ops
  /\ Store!NoOp = NoOp
  /\ Store!Blank = Blank
  /\ Store!Pages = Pages
  /\ \A ok, d : Store!Reply(ok, d) = Reply(ok, d)
  /\ \A c, n : Store!Prefix(c, n) = Prefix(c, n)
  <1>1. Store!Pages = Pages /\ Store!Blank = Blank
    BY DEF Store!Pages, Pages, Store!Blank, Blank, Store!Cols, Cols
  <1>2. Store!NoOp = NoOp
    BY <1>1 DEF Store!NoOp, NoOp
  <1>3. Store!Blocks = Blocks
    BY <1>1 DEF Store!Blocks, Blocks, Store!BlockOf, BlockOf
  <1>4. Store!Ops = Ops
    BY <1>1, <1>3 DEF Store!Ops, Ops, Store!Read, Read, Store!Write, Write, Store!Erase, Erase
  <1>5. QED
    BY <1>1, <1>2, <1>4 DEF Store!Reply, Reply, Store!Prefix, Prefix

(* Programming and erasing have the results in NandStore they have here.    *)
LEMMA SameResults ==
  /\ \A s, p, d : Store!ProgramResults(s, p, d) = ProgramResults(s, p, d)
  /\ \A s, b : Store!EraseResults(s, b) = EraseResults(s, b)
  <1>1. \A s, b : Store!Erased(s, b) = Erased(s, b)
    BY SameTypes DEF Store!Erased, Erased, Store!BlockOf, BlockOf
  <1>2. \A s, ok : Store!Outcome(s, ok) = Outcome(s, ok)
    BY DEF Store!Outcome, Outcome
  <1>3. Store!Cols = Cols /\ Store!Content = Content
    BY DEF Store!Cols, Cols, Store!Content, Content, Store!Byte, Byte
  <1>4. \A old, d : Store!Programmed(old, d) = Programmed(old, d)
    BY <1>3 DEF Store!Programmed, Programmed
  <1>5. \A low, high : Store!Between(low, high) = Between(low, high)
    BY <1>3 DEF Store!Between, Between
  <1>6. ASSUME NEW s, NEW p, NEW d
        PROVE  Store!ProgramResults(s, p, d) = ProgramResults(s, p, d)
    <2> DEFINE new == Programmed(s[p], d)
               some == IF MayFail THEN Between(new, s[p]) ELSE {}
    <2>1. ProgramResults(s, p, d) =
            {Outcome([s EXCEPT ![p] = new], TRUE)} \cup {Outcome([s EXCEPT ![p] = x], FALSE) : x \in some}
      BY DEF ProgramResults
    <2>2. Store!Programmed(s[p], d) = new
      BY <1>4
    <2>3. Store!Between(new, s[p]) = Between(new, s[p])
      BY <1>5
    <2> HIDE DEF new
    <2>4. Store!ProgramResults(s, p, d) =
            {Store!Outcome([s EXCEPT ![p] = new], TRUE)} \cup {Store!Outcome([s EXCEPT ![p] = x], FALSE) : x \in some}
      BY <2>2, <2>3 DEF Store!ProgramResults
    <2> HIDE DEF some
    <2> QED BY <1>2, <2>1, <2>4
  <1>7. \A s, b : Store!EraseResults(s, b) = EraseResults(s, b)
    BY <1>1, <1>2 DEF Store!EraseResults, EraseResults
  <1>8. QED
    BY <1>6, <1>7

(* A step that leaves the pages, the operation, the last reply and whether  *)
(* the operation has taken effect alone is a stutter of the store.          *)
LEMMA Stutter ==
  ASSUME UNCHANGED <<array, op, ret>>, (Performed' <=> Performed),
         Performed => fail' = fail
  PROVE  UNCHANGED Store!vars
  <1>1. CASE Performed
    <2>1. ReplyOf(op)' = ReplyOf(op)
      BY <1>1 DEF ReplyOf
    <2>2. QED
      BY <1>1, <2>1 DEF Store!vars
  <1>2. CASE ~Performed
    BY <1>2 DEF Store!vars
  <1>3. QED
    BY <1>1, <1>2

(* The start of an operation invokes it.                                    *)
LEMMA StartRefines ==
  ASSUME InStep, NEW o \in Ops, Start(o)
  PROVE  Store!Invoke(o)
  <1>1. op = NoOp /\ ~Performed /\ ~Performed'
    BY DEF InStep, TypeOK, Start, Performed
  <1>2. QED
    BY <1>1, SameTypes DEF Start, chip, Store!Invoke

(* The end of the chip's own work is the moment the operation takes effect.  *)
LEMMA FinishRefines ==
  ASSUME InStep, ChipFinishes
  PROVE  Store!Perform
  <1>1. /\ pc = "wait" /\ busy # "none" /\ busy = WorkOf[op.kind] /\ busy' = "none"
        /\ UNCHANGED <<pc, op, ret>>
    BY DEF InStep, BusyInWait, ChipFinishes, ChipStep, FinishRead, FinishProgram, FinishErase
  <1>2. ~Performed /\ Performed'
    BY <1>1 DEF Performed
  <1>3. op \in Ops /\ op.kind \in {"read", "write", "erase"}
    BY <1>1, OpKinds DEF InStep, TypeOK
  <1>4. IF op.kind = "erase" THEN BlockOf(row) = op.at ELSE row = op.at
    BY <1>1 DEF InStep, Addressed
  <1>5. CASE op.kind = "read"
    <2>1. FinishRead
      BY <1>1, <1>5 DEF WorkOf, ChipFinishes, ChipStep, FinishProgram, FinishErase
    <2>2. array' = array /\ ReplyOf(op)' = Reply(TRUE, Prefix(array[op.at], op.len))
      BY <1>1, <1>5, <2>1 DEF FinishRead, ReplyOf, Reply, Prefix
    <2>3. Store!PerformRead
      BY <1>1, <1>2, <1>5, <2>2, SameTypes DEF Store!PerformRead
    <2>4. QED
      BY <1>1, <1>2, <2>3 DEF Store!Perform
  <1>6. CASE op.kind = "write"
    <2>1. FinishProgram /\ reg = op.data /\ row = op.at
      BY <1>1, <1>4, <1>6 DEF InStep, Loaded, WorkOf, ChipFinishes, ChipStep, FinishRead, FinishErase
    <2>2. PICK r \in ProgramResults(array, op.at, op.data) : array' = r.pages /\ fail' = ~r.ok
      BY <2>1 DEF FinishProgram
    <2>3. r.ok \in BOOLEAN
      BY <1>3, <1>6, <2>2, OpFields, ProgramResultsType, <2>1 DEF InStep, TypeOK, ChipTypeOK
    <2>4. ReplyOf(op)' = Reply(r.ok, <<>>)
      BY <1>1, <1>6, <2>2, <2>3 DEF ReplyOf, Reply
    <2>5. Store!PerformWrite
      BY <1>1, <1>2, <1>6, <2>2, <2>4, SameTypes, SameResults DEF Store!PerformWrite
    <2>6. QED
      BY <1>1, <1>2, <2>5 DEF Store!Perform
  <1>7. CASE op.kind = "erase"
    <2>1. FinishErase /\ BlockOf(row) = op.at
      BY <1>1, <1>4, <1>7 DEF WorkOf, ChipFinishes, ChipStep, FinishRead, FinishProgram
    <2>2. PICK r \in EraseResults(array, op.at) : array' = r.pages /\ fail' = ~r.ok
      BY <2>1 DEF FinishErase
    <2>3. r.ok \in BOOLEAN
      BY <2>2, EraseResultsType DEF InStep, TypeOK, ChipTypeOK
    <2>4. ReplyOf(op)' = Reply(r.ok, <<>>)
      BY <1>1, <1>7, <2>2, <2>3 DEF ReplyOf, Reply
    <2>5. Store!PerformErase
      BY <1>1, <1>2, <1>7, <2>2, <2>4, SameTypes, SameResults DEF Store!PerformErase
    <2>6. QED
      BY <1>1, <1>2, <2>5 DEF Store!Perform
  <1>8. QED
    BY <1>3, <1>5, <1>6, <1>7

(* The return of an operation hands out the reply its effect had.           *)
LEMMA ReturnRefines ==
  ASSUME InStep, Return
  PROVE  Store!Finish
  <1>1. Performed /\ ~Performed' /\ UNCHANGED array
    BY DEF Return, Performed, chip
  <1>2. ret' = ReplyOf(op)
    <2>1. Received(op.len) = IF op.kind = "read" THEN Prefix(array[op.at], op.len)
                             ELSE <<StatusByte>>
      BY ReceivedInStep DEF Return
    <2>2. op \in Ops
      BY DEF InStep, TypeOK, Return
    <2>3. CASE op.kind = "read"
      BY <2>1, <2>3 DEF Return, ReplyOf
    <2>4. CASE op.kind # "read"
      <3>1. op.len = 1 /\ fail \in BOOLEAN
        BY <2>2, <2>4, OpFields DEF InStep, TypeOK, ChipTypeOK
      <3>2. Received(1)[1] = StatusByte
        BY <2>1, <2>4, <3>1
      <3>3. (FailBit \notin Received(1)[1]) = ~fail
        BY <3>1, <3>2 DEF StatusByte
      <3>4. QED
        BY <2>4, <3>3 DEF Return, ReplyOf
    <2>5. QED
      BY <2>3, <2>4
  <1>3. QED
    BY <1>1, <1>2, SameTypes DEF Return, Store!Finish

(* Every other call of the program is a stutter of the store.               *)
LEMMA CallRefines ==
  ASSUME InStep, Reliable, Call, ~Return
  PROVE  UNCHANGED Store!vars
  <1>1. ~TransferError /\ ~RetryRead /\ ~ReadError
    BY DEF InStep, LinkQuiet, TransferError, RetryRead, ReadError, ShortRead, Fault
  <1>2. busy # "none" => pc = "wait"
    BY DEF InStep, BusyInWait
  <1>3. CASE SendSetup \/ SendConfirm
    <2>1. ~Performed /\ UNCHANGED <<array, op, ret>>
      BY <1>3 DEF Performed, SendSetup, SendConfirm, Goto, sendCmd, LatchCommand, chip,
         ReadStatusCommand, SetupCommand, ConfirmCommand, IgnoredCommand
    <2>2. ~Performed'
      <3>1. CASE SendSetup
        BY <3>1 DEF SendSetup, Goto, Performed
      <3>2. CASE SendConfirm
        BY <3>2, ConfirmStarts DEF SendConfirm, Goto, Performed
      <3>3. QED
        BY <1>3, <3>1, <3>2
    <2>3. QED
      BY <2>1, <2>2, Stutter
  <1>4. CASE SendAddress \/ SendData
    <2>1. UNCHANGED <<array, op, ret, fail>> /\ ~Performed /\ ~Performed'
      BY <1>4 DEF SendAddress, SendData, sendAddr, writeData, LatchAddress, DataIn,
         Goto, Performed
    <2>2. QED
      BY <2>1, Stutter
  <1>5. CASE KeepWaiting \/ SeeReady \/ WaitTimesOut \/ IgnoreReady
    <2>1. UNCHANGED <<array, op, ret, fail, busy>> /\ pc = "wait"
      BY <1>5 DEF KeepWaiting, SeeReady, WaitTimesOut, IgnoreReady, Waited, Goto, chip
    <2>2. pc' # "wait" => busy = "none" /\ pc' \in {"issue", "status"}
      <3>1. CASE KeepWaiting
        BY <2>1, <3>1 DEF KeepWaiting
      <3>2. CASE SeeReady
        BY <2>1, <3>2, PollSeesChip DEF SeeReady, PollReady, Response, Waited, Goto
      <3>3. CASE WaitTimesOut
        BY <2>1, <3>3 DEF WaitTimesOut, PollTimeout, Reliable, Waited, Goto
      <3>4. CASE IgnoreReady
        BY <3>4 DEF IgnoreReady, SkipWait, InStep, LinkQuiet
      <3>5. QED
        BY <1>5, <3>1, <3>2, <3>3, <3>4
    <2>3. (Performed' <=> Performed)
      BY <2>1, <2>2 DEF Performed
    <2>4. QED
      BY <2>1, <2>3, Stutter
  <1>6. CASE SendStatus
    <2>1. UNCHANGED <<array, op, ret, fail>>
      BY <1>6 DEF SendStatus, Goto, sendCmd, LatchCommand, ReadStatusCommand, SetupCommand,
         ConfirmCommand, IgnoredCommand, Accepts, Confirms, chip
    <2>2. Performed /\ Performed'
      BY <1>6 DEF SendStatus, Goto, Performed
    <2>3. QED
      BY <2>1, <2>2, Stutter
  <1>7. CASE IssueRead
    <2>1. UNCHANGED <<array, op, ret, fail>> /\ Performed /\ Performed'
      BY <1>7 DEF IssueRead, IssueReads, AfterOutput, Goto, Performed
    <2>2. QED
      BY <2>1, Stutter
  <1>8. QED
    BY <1>1, <1>3, <1>4, <1>5, <1>6, <1>7 DEF Call

(* Over a reliable link, NandData implements the atomic page store: every   *)
(* read returns the page's bytes, every write and erase takes effect once   *)
(* between its start and its return, and !(status & FAIL) tells its result. *)
THEOREM Refinement ==
  ASSUME Reliable, Addressable
  PROVE  Spec => ImplementsStore
  <1>1. Init => Store!Init
    BY SameTypes DEF Init, ChipInit, Store!Init, Performed
  <1>2. InStep /\ [Next]_vars => [Store!Next]_(Store!vars)
    <2> SUFFICES ASSUME InStep, [Next]_vars PROVE [Store!Next]_(Store!vars)
      OBVIOUS
    <2>1. ASSUME NEW o \in Ops, Start(o) PROVE Store!Next
      BY <2>1, StartRefines, SameTypes DEF Store!Next
    <2>2. CASE Return
      BY <2>2, ReturnRefines DEF Store!Next
    <2>3. CASE Call /\ ~Return
      BY <2>3, CallRefines
    <2>4. CASE ChipFinishes
      BY <2>4, FinishRefines DEF Store!Next
    <2>5. CASE UNCHANGED vars
      <3>1. UNCHANGED <<array, op, ret, fail>> /\ (Performed' <=> Performed)
        BY <2>5 DEF vars, chip, Performed
      <3>2. QED
        BY <3>1, Stutter
    <2>6. QED
      BY <2>1, <2>2, <2>3, <2>4, <2>5 DEF Next, Exited
  <1>3. QED
    BY <1>1, <1>2, StaysInStep, PTL DEF Spec, ImplementsStore, Store!Spec
=============================================================================
