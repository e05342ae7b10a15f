------------------------------- MODULE NandData -------------------------------
(***************************************************************************)
(* ftdinandreader/NandData.cpp: readPage, writePage and erasePage, one     *)
(* action per call they make on FtdiNand, run by a caller that starts the  *)
(* next operation when the last one has returned.  The chip finishes its   *)
(* own work at any moment in between.                                      *)
(***************************************************************************)
EXTENDS FtdiNand

VARIABLES
  pc,    \* the call the running operation makes next, "idle" between operations
  op,    \* the running operation and its arguments
  ret    \* what the last operation returned, and the buffer it filled

vars == <<chip, link, pc, op, ret>>

Steps == {"idle", "setup", "address", "data", "confirm", "wait", "status",
          "issue", "receive", "exited"}

(* Chip, link and program keep to their types; in particular the timeouts   *)
(* counted never exceed TIMEOUT_RETRIES and an idle program runs nothing.   *)
TypeOK ==
  /\ ChipTypeOK
  /\ LinkTypeOK
  /\ pc \in Steps
  /\ op \in IF pc = "idle" THEN {NoOp} ELSE Ops
  /\ ret \in Replies

Init ==
  /\ ChipInit
  /\ LinkInit
  /\ pc = "idle"
  /\ op = NoOp
  /\ ret = Reply(TRUE, <<>>)

-----------------------------------------------------------------------------
SetupOf   == [read |-> "READ0", write |-> "SEQIN", erase |-> "ERASE1"]
ConfirmOf == [read |-> "READSTART", write |-> "PAGEPROG", erase |-> "ERASE2"]

AddressOf(o) == IF o.kind = "erase" THEN EraseRow(o.at) ELSE PageRow(o.at)

Goto(step) == pc' = step /\ UNCHANGED <<op, ret>>

Start(o) ==
  /\ pc = "idle"
  /\ op' = o
  /\ pc' = "setup"
  /\ UNCHANGED <<chip, link, ret>>

SendSetup ==
  /\ pc = "setup"
  /\ sendCmd(SetupOf[op.kind])
  /\ Goto("address")

SendAddress_SkipData ==
  /\ pc = "address"
  /\ sendAddr(AddressOf(op))
  /\ Goto("confirm")

SendAddress ==
  /\ pc = "address"
  /\ sendAddr(AddressOf(op))
  /\ Goto(IF op.kind = "write" THEN "data" ELSE "confirm")

SendData ==
  /\ pc = "data"
  /\ writeData(op.data)
  /\ Goto("confirm")

SendConfirm ==
  /\ pc = "confirm"
  /\ sendCmd(ConfirmOf[op.kind])
  /\ Goto("wait")

Waited == Goto(IF op.kind = "read" THEN "issue" ELSE "status")

KeepWaiting  == pc = "wait" /\ PollAgain /\ UNCHANGED <<chip, pc, op, ret>>
SeeReady     == pc = "wait" /\ PollReady /\ Waited /\ UNCHANGED chip
WaitTimesOut == pc = "wait" /\ PollTimeout /\ Waited /\ UNCHANGED chip
IgnoreReady  == pc = "wait" /\ SkipWait /\ Waited /\ UNCHANGED chip

\* status(): NAND_CMD_STATUS, then one byte.
SendStatus ==
  /\ pc = "status"
  /\ sendCmd("STATUS")
  /\ Goto("issue")

IssueRead ==
  /\ pc = "issue"
  /\ IssueReads(op.len)
  /\ Goto("receive")

\* The operation returns: readPage its buffer, the others !(status & FAIL).
Return ==
  /\ pc = "receive"
  /\ FullRead(op.len)
  /\ ret' = IF op.kind = "read" THEN Reply(TRUE, Received(op.len))
            ELSE Reply(FailBit \notin Received(1)[1], <<>>)
  /\ pc' = "idle"
  /\ op' = NoOp
  /\ UNCHANGED chip

\* "short read ... retrying": all read cycles are issued again.  In slow mode
\* an error of -1 ends up here too, halved to 0 bytes.
RetryRead ==
  /\ pc = "receive"
  /\ ShortRead(op.len)
  /\ Goto("issue")
  /\ UNCHANGED chip

\* error() prints and calls exit(0): for every error code, but in slow mode not
\* for -1 (any other code, halved, is still negative).
ReadError ==
  /\ pc = "receive"
  /\ ShortRead(op.len)
  /\ Goto("exited")
  /\ UNCHANGED chip

\* ftdi_write_data or the read of a poll reports an error.
TransferError ==
  /\ pc \notin {"idle", "receive", "exited"}
  /\ pc = "wait" => rbErrorCount # -1
  /\ Fault
  /\ Goto("exited")
  /\ UNCHANGED <<chip, pins, fifo, slow, rbErrorCount, polls>>

Exited == pc = "exited" /\ UNCHANGED vars

ChipFinishes == ChipStep /\ UNCHANGED <<link, pc, op, ret>>

Call ==
  \/ SendSetup \/ SendAddress \/ SendData \/ SendConfirm
  \/ KeepWaiting \/ SeeReady \/ WaitTimesOut \/ IgnoreReady
  \/ SendStatus \/ IssueRead \/ Return \/ RetryRead \/ ReadError
  \/ TransferError

Next ==
  \/ \E o \in Ops : Start(o)
  \/ Call
  \/ Exited
  \/ ChipFinishes

Spec == Init /\ [][Next]_vars

(***************************************************************************)
(* The program blocks only in usleep and in USB transfers with timeouts,   *)
(* so a call it is in goes on.  Nothing is asked of the chip, which may    *)
(* stay busy for ever.                                                     *)
(***************************************************************************)
Fairness == WF_vars(Call)

FairSpec == Spec /\ Fairness

-----------------------------------------------------------------------------
(***************************************************************************)
(* What the link and the chip must grant the driver.  RowSpan is 2^16 and  *)
(* ErasePages 64 in the code.                                              *)
(***************************************************************************)
Addressable == NPages <= RowSpan /\ ErasePages = PagesPerBlock
Reliable    == MaxFaults = 0 /\ ChipInTime

\* The running operation has taken effect on the chip.
Performed ==
  \/ pc \in {"status", "issue", "receive"}
  \/ pc = "wait" /\ busy = "none"

ReplyOf(o) ==
  IF o.kind = "read" THEN Reply(TRUE, Prefix(array[o.at], o.len))
  ELSE Reply(~fail, <<>>)

\* Where program and chip are relative to each other when the link is reliable:
\* the strengthening of WPHighWhileBusy and of the refinement that is inductive.
WorkOf == [read |-> "read", write |-> "prog", erase |-> "erase"]

LinkQuiet == faults = 0 /\ rbErrorCount = 0 /\ pc # "exited"

BusyInWait == busy # "none" => pc = "wait" /\ busy = WorkOf[op.kind]

WaitGuarded == pc = "wait" => "WP" \in pins

SetUp == pc \in {"address", "data", "confirm"} => mode = SetupOf[op.kind]

Addressed ==
  pc \in {"data", "confirm"} \/ busy # "none" =>
    IF op.kind = "erase" THEN BlockOf(row) = op.at ELSE row = op.at

Loaded == op.kind = "write" /\ (pc = "confirm" \/ busy # "none") => reg = op.data

Reading == busy = "read" => mode = "READSTART"

Readable ==
  op.kind = "read" /\ Performed /\ pc # "receive" =>
    reg = array[op.at] /\ col = 0 /\ mode = "READSTART"

StatusAsked ==
  /\ pc = "status" => op.kind # "read"
  /\ op.kind # "read" /\ pc = "issue" => mode = "STATUS"

Buffered ==
  fifo = IF pc # "receive" THEN <<>>
         ELSE Repeated(IF op.kind = "read" THEN Prefix(array[op.at], op.len)
                       ELSE <<StatusByte>>)

(* Under Reliable and Addressable the buffer holds exactly what the running *)
(* read cycles produced, the chip is busy only while the program waits, and *)
(* it works at the address and on the data of the running operation.        *)
InStep ==
  /\ TypeOK
  /\ LinkQuiet /\ BusyInWait /\ WaitGuarded /\ SetUp
  /\ Addressed /\ Loaded /\ Reading /\ Readable /\ StatusAsked /\ Buffered

Store == INSTANCE NandStore WITH
           store <- array, job <- op, reply <- ret,
           outcome <- IF Performed THEN {ReplyOf(op)} ELSE {}

(* Over a link without faults and with a chip that meets the timeout, the   *)
(* command, address, data, status and read cycles of NandData.cpp amount to *)
(* the atomic page operations of NandStore.                                 *)
ImplementsStore == Store!Spec

(* readPage, writePage and erasePage return, or the program exits: waitReady *)
(* is bounded, and the read loop of nandRead ends when short reads do.       *)
CallReturns == (pc = "setup") ~> (pc \in {"idle", "exited"})

(* #WP stays high from the confirm command to the end of a program or erase, *)
(* although every nandRead pulls it low.                                     *)
WPHighWhileBusy == busy \in {"prog", "erase"} => "WP" \in pins

\* Between setup and confirm command: a chip that took the setup command is
\* idle until the confirm command of the same operation, whatever came before.
Prepared ==
  mode \in {"SEQIN", "ERASE1"} =>
    /\ busy = "none"
    /\ pc \in {"address", "data", "confirm", "exited"}
    /\ pc # "exited" => mode = SetupOf[op.kind]
    /\ pc \in {"data", "confirm"} => row = AddressOf(op) % NPages
    /\ pc = "confirm" /\ op.kind = "write" => reg = op.data

(* A program or erase that the chip starts is the one the running operation *)
(* asks for, at its address and with its data, even after timeouts and lost *)
(* answers have put the program ahead of the chip.                          *)
NoStrayWork ==
  [][busy = "none" /\ busy' \in {"prog", "erase"} =>
       /\ op.kind = IF busy' = "prog" THEN "write" ELSE "erase"
       /\ row = AddressOf(op) % NPages
       /\ busy' = "prog" => reg = op.data]_vars

(* "Waits till the R-/B-line to go high" (FtdiNand.cpp:260): the chip is    *)
(* ready once waitReady has returned, when a read goes on to its read       *)
(* cycles and the others to the status command.                             *)
ReadyAfterWait == pc \in {"status", "issue"} => busy = "none"

(* A read that returns gives the page's bytes, after a "short read ...      *)
(* retrying" (FtdiNand.cpp:113) too.                                        *)
ReadReturnsPage ==
  [][op.kind = "read" /\ pc = "receive" /\ pc' = "idle" =>
       ret'.data = Prefix(array[op.at], op.len)]_vars
=============================================================================
