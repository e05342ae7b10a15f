-------------------------------- MODULE Ftdi --------------------------------
(***************************************************************************)
(* The data calls of libftdi on one device: ftdi_read_data and             *)
(* ftdi_write_data, and their asynchronous forms, of which the program may *)
(* have one of each direction at a time, whose callbacks run whenever it   *)
(* waits in some call.  The read buffer of the context keeps what a        *)
(* transfer brought beyond the bytes asked for.                            *)
(*                                                                         *)
(* The bytes of either direction are numbered as they are sent; a status   *)
(* byte is 0.  A transfer of libusb is what the caller sees of it: pending *)
(* or cancelled in the kernel, then over, with a status and a length.      *)
(* One that the library frees too early lives on as a stray.               *)
(***************************************************************************)
EXTENDS Integers, Sequences

CONSTANTS
  PacketSize,              \* max_packet_size
  ReadChunk, WriteChunk,   \* readbuffer_chunksize, writebuffer_chunksize
  ReadSizes, WriteSizes,   \* how much the program asks for
  DeviceData,              \* how many bytes the device has to send
  Calls, Mishaps           \* how many calls that start something, and mishaps

ASSUME FtdiAssumption ==
  /\ PacketSize \in Nat /\ PacketSize > 2
  /\ ReadChunk \in Nat \ {0} /\ ReadChunk % PacketSize = 0 /\ WriteChunk \in Nat \ {0}
  /\ ReadSizes \subseteq Nat \ {0} /\ WriteSizes \subseteq Nat \ {0}
  /\ {DeviceData, Calls, Mishaps} \subseteq Nat

VARIABLES
  readbuffer, readbuffer_offset, readbuffer_remaining,   \* the context
  call,       \* the call the program waits in: [name, dir]
  tc,         \* the transfer control, or the local variables, of each direction
  transfer,   \* and its transfer
  sent, device_got, gone,   \* the device
  received, given,          \* what the program has read and written for good
  dropped,                  \* a call of that direction has failed or was cancelled
  calls, mishaps,
  stray                     \* the transfers freed in flight: [dir, transfer]

contextVars == <<readbuffer, readbuffer_offset, readbuffer_remaining>>
deviceVars == <<sent, device_got, gone>>
boundVars == <<calls, mishaps>>
ftdiVars == <<contextVars, call, tc, transfer, deviceVars, received, given, dropped, boundVars>>

Dirs == {"in", "out"}
Idle == [name |-> "idle", dir |-> "in"]
NoControl ==
  [how |-> "none", size |-> 0, offset |-> 0, buf |-> <<>>, completed |-> FALSE,
   transfer |-> FALSE, status |-> "COMPLETED"]
NoTransfer == [state |-> "none", first |-> 0, length |-> 0, status |-> "COMPLETED"]

FtdiInit ==
  /\ readbuffer = [p \in 1 .. ReadChunk |-> 0] /\ readbuffer_offset = 0 /\ readbuffer_remaining = 0
  /\ call = Idle /\ tc = [d \in Dirs |-> NoControl] /\ transfer = [d \in Dirs |-> NoTransfer]
  /\ sent = 0 /\ device_got = <<>> /\ gone = FALSE
  /\ received = <<>> /\ given = 0 /\ dropped = [d \in Dirs |-> FALSE]
  /\ calls = Calls /\ mishaps = Mishaps /\ stray = {}

Starts(d) == call = Idle /\ tc[d].how = "none" /\ calls > 0 /\ calls' = calls - 1
Waits(name, d) == call = [name |-> name, dir |-> d]
Over(d) == transfer[d].state = "over"
Mishap == mishaps > 0 /\ mishaps' = mishaps - 1
Interval(a, b) == [k \in 1 .. (b - a) |-> a + k]

\* Submission: first is the number of the byte the transfer begins with.
Submitted(first, length) ==
  IF gone THEN [state |-> "over", first |-> first, length |-> 0, status |-> "NO_DEVICE"]
  ELSE [state |-> "pending", first |-> first, length |-> length, status |-> "COMPLETED"]

-----------------------------------------------------------------------------
\* A packet is two status bytes and its payload. Stripping them off, in place.
Payload == PacketSize - 2
Data(n) == n - 2 * ((n + PacketSize - 1) \div PacketSize)

Raw(first, n) ==
  [p \in 1 .. n |-> LET q == (p - 1) % PacketSize
                    IN IF q < 2 THEN 0 ELSE first + ((p - 1) \div PacketSize) * Payload + q - 2]

memmove(b, to, from, n) ==
  [p \in DOMAIN b |-> IF p - 1 \in to .. (to + n - 1) THEN b[p - to + from] ELSE b[p]]

Stripped(b, offset, n) ==
  LET chunks == n \div PacketSize
      remains == n % PacketSize
      packet(c, i, k) == memmove(c, offset + Payload * i, offset + PacketSize * i, k)
      whole[i \in 0 .. chunks - 1] == IF i = 0 THEN b ELSE packet(whole[i - 1], i, Payload)
  IN IF n - 2 <= Payload THEN b
     ELSE IF remains > 2 THEN packet(whole[chunks - 1], chunks, remains - 2) ELSE whole[chunks - 1]

StrippedLength_StatusCounted(n) ==
  LET chunks == n \div PacketSize
      remains == n % PacketSize
  IN IF n - 2 <= Payload THEN n - 2
     ELSE IF remains > 2 THEN n - 2 - 2 * chunks ELSE n - 2 * chunks

StrippedLength(n) ==
  LET chunks == n \div PacketSize
      remains == n % PacketSize
  IN IF n - 2 <= Payload THEN n - 2
     ELSE IF remains > 2 THEN n - 2 - 2 * chunks
     ELSE n - 2 - (2 * (chunks - 1) + remains)

Buffered(n) == SubSeq(readbuffer, readbuffer_offset + 1, readbuffer_offset + n)

\* What a transfer of more than status bytes does: as much as was asked for is
\* copied, and the rest stays in the read buffer.
Taken(t, x) ==
  LET offset == readbuffer_offset + 2
      filled == Raw(x.first, x.length) \o SubSeq(readbuffer, x.length + 1, ReadChunk)
      b == Stripped(filled, offset, x.length)
      length == StrippedLength(x.length)
      fits == t.offset + length <= t.size
      part == IF fits THEN length ELSE t.size - t.offset
  IN [buffer |-> b,
      offset |-> IF ~fits THEN offset + part ELSE IF t.how = "async" THEN 0 ELSE offset,
      remaining |-> length - part,
      control |-> [t EXCEPT !.buf = @ \o SubSeq(b, offset + 1, offset + part), !.offset = @ + part]]

Full(t) == t.offset = t.size

-----------------------------------------------------------------------------
\* Everything the program wants is in the read buffer.
ReadFromBuffer(how, size) ==
  /\ Starts("in") /\ size <= readbuffer_remaining
  /\ IF how = "sync" THEN received' = received \o Buffered(size) /\ tc' = tc
     ELSE /\ tc' = [tc EXCEPT !["in"] = [NoControl EXCEPT
               !.how = how, !.size = size, !.offset = size, !.buf = Buffered(size), !.completed = TRUE]]
          /\ received' = received
  /\ readbuffer_offset' = readbuffer_offset + size
  /\ readbuffer_remaining' = readbuffer_remaining - size
  /\ UNCHANGED <<readbuffer, call, transfer, deviceVars, given, dropped, mishaps>>

\* ftdi_read_data up to its first transfer, and ftdi_read_data_submit. A refused
\* submission of the latter loses what was in the buffer.
StartRead(how, size) ==
  /\ Starts("in") /\ size > readbuffer_remaining
  /\ readbuffer_remaining' = 0 /\ readbuffer_offset' = 0
  /\ IF how = "async" /\ gone
     THEN /\ dropped' = [dropped EXCEPT !["in"] = TRUE]
          /\ UNCHANGED <<call, tc, transfer>>
     ELSE /\ tc' = [tc EXCEPT !["in"] = [NoControl EXCEPT
               !.how = how, !.size = size, !.offset = readbuffer_remaining,
               !.buf = Buffered(readbuffer_remaining), !.transfer = TRUE]]
          /\ transfer' = [transfer EXCEPT !["in"] = Submitted(0, ReadChunk)]
          /\ call' = IF how = "sync" THEN [name |-> "bulk", dir |-> "in"] ELSE call
          /\ dropped' = dropped
  /\ UNCHANGED <<readbuffer, deviceVars, received, given, mishaps>>

\* The loop of ftdi_read_data: an error, no data, enough data, or once more.
ReadFails ==
  /\ Waits("bulk", "in") /\ Over("in") /\ transfer["in"].status # "COMPLETED"
  /\ call' = Idle /\ tc' = [tc EXCEPT !["in"] = NoControl]
  /\ transfer' = [transfer EXCEPT !["in"] = NoTransfer]
  /\ dropped' = [dropped EXCEPT !["in"] = TRUE]
  /\ UNCHANGED <<contextVars, deviceVars, received, given, boundVars>>

ReadReturns(t) ==
  /\ call' = Idle /\ tc' = [tc EXCEPT !["in"] = NoControl]
  /\ transfer' = [transfer EXCEPT !["in"] = NoTransfer]
  /\ received' = received \o t.buf

ReadNothing ==
  /\ Waits("bulk", "in") /\ Over("in") /\ transfer["in"].status = "COMPLETED"
  /\ transfer["in"].length <= 2
  /\ ReadReturns(tc["in"])
  /\ UNCHANGED <<contextVars, deviceVars, given, dropped, boundVars>>

ReadChunkDone ==
  /\ Waits("bulk", "in") /\ Over("in") /\ transfer["in"].status = "COMPLETED"
  /\ transfer["in"].length > 2
  /\ LET x == Taken(tc["in"], transfer["in"])
     IN /\ readbuffer' = x.buffer
        /\ IF Full(x.control)
           THEN /\ readbuffer_offset' = x.offset /\ readbuffer_remaining' = x.remaining
                /\ ReadReturns(x.control)
           ELSE /\ readbuffer_offset' = 0 /\ readbuffer_remaining' = 0
                /\ tc' = [tc EXCEPT !["in"] = x.control]
                /\ transfer' = [transfer EXCEPT !["in"] = Submitted(0, ReadChunk)]
                /\ UNCHANGED <<call, received>>
  /\ UNCHANGED <<deviceVars, given, dropped, boundVars>>

GoesOn_Cancelled(d, t, next) ==
  LET over == Full(t) \/ gone
  IN /\ tc' = [tc EXCEPT ![d] = [t EXCEPT !.completed = over, !.status = transfer[d].status]]
     /\ transfer' = [transfer EXCEPT ![d] = IF over THEN NoTransfer ELSE next]

\* The callbacks run while the program waits in some call. What is wanted is
\* submitted until it is there, whatever the status, unless it was cancelled.
GoesOn(d, t, next) ==
  LET over == Full(t) \/ transfer[d].status = "CANCELLED" \/ gone
  IN /\ tc' = [tc EXCEPT ![d] = [t EXCEPT !.completed = over, !.status = transfer[d].status]]
     /\ transfer' = [transfer EXCEPT ![d] = IF over THEN NoTransfer ELSE next]

ftdi_read_data_cb ==
  /\ call # Idle /\ tc["in"].how = "async" /\ Over("in")
  /\ LET x == Taken(tc["in"], transfer["in"])
     IN IF transfer["in"].length > 2
        THEN /\ readbuffer' = x.buffer /\ readbuffer_offset' = x.offset
             /\ readbuffer_remaining' = x.remaining
             /\ GoesOn("in", x.control, Submitted(0, ReadChunk))
        ELSE UNCHANGED contextVars /\ GoesOn("in", tc["in"], Submitted(0, ReadChunk))
  /\ UNCHANGED <<call, deviceVars, received, given, dropped, boundVars>>
-----------------------------------------------------------------------------
\* Writing: the next chunk of the buffer, which holds the bytes after given.
Chunk(t) ==
  Submitted(given + t.offset + 1, IF t.offset + WriteChunk > t.size THEN t.size - t.offset ELSE WriteChunk)

StartWrite(how, size) ==
  /\ Starts("out")
  /\ IF how = "async" /\ gone THEN UNCHANGED <<call, tc, transfer>>
     ELSE LET t == [NoControl EXCEPT !.how = how, !.size = size, !.transfer = TRUE]
          IN /\ tc' = [tc EXCEPT !["out"] = t] /\ transfer' = [transfer EXCEPT !["out"] = Chunk(t)]
             /\ call' = IF how = "sync" THEN [name |-> "bulk", dir |-> "out"] ELSE call
  /\ UNCHANGED <<contextVars, deviceVars, received, given, dropped, mishaps>>

Sent_Chunk(t) == [t EXCEPT !.offset = IF @ + WriteChunk > t.size THEN t.size ELSE @ + WriteChunk]

Sent(t) == [t EXCEPT !.offset = @ + transfer["out"].length]

WriteFails ==
  /\ Waits("bulk", "out") /\ Over("out") /\ transfer["out"].status # "COMPLETED"
  /\ call' = Idle /\ tc' = [tc EXCEPT !["out"] = NoControl]
  /\ transfer' = [transfer EXCEPT !["out"] = NoTransfer]
  /\ dropped' = [dropped EXCEPT !["out"] = TRUE] /\ given' = given + tc["out"].size
  /\ UNCHANGED <<contextVars, deviceVars, received, boundVars>>

WriteChunkDone ==
  /\ Waits("bulk", "out") /\ Over("out") /\ transfer["out"].status = "COMPLETED"
  /\ LET t == Sent(tc["out"])
     IN IF Full(t)
        THEN /\ call' = Idle /\ tc' = [tc EXCEPT !["out"] = NoControl]
             /\ transfer' = [transfer EXCEPT !["out"] = NoTransfer]
             /\ given' = given + t.offset
        ELSE /\ tc' = [tc EXCEPT !["out"] = t] /\ transfer' = [transfer EXCEPT !["out"] = Chunk(t)]
             /\ UNCHANGED <<call, given>>
  /\ UNCHANGED <<contextVars, deviceVars, received, dropped, boundVars>>

ftdi_write_data_cb ==
  /\ call # Idle /\ tc["out"].how = "async" /\ Over("out")
  /\ LET t == Sent(tc["out"]) IN GoesOn("out", t, Chunk(t))
  /\ UNCHANGED <<contextVars, call, deviceVars, received, given, dropped, boundVars>>

-----------------------------------------------------------------------------
\* ftdi_transfer_data_done and ftdi_transfer_data_cancel; libusb finds a
\* transfer to cancel as long as it is not over.
Wait(name, d) ==
  /\ call = Idle /\ tc[d].how = "async" /\ call' = [name |-> name, dir |-> d]

libusb_cancel_transfer(d) ==
  transfer' = [transfer EXCEPT ![d].state = IF @ = "pending" THEN "cancelled" ELSE @]

ftdi_transfer_data_done(d) ==
  /\ Wait("done", d)
  /\ UNCHANGED <<contextVars, tc, transfer, deviceVars, received, given, dropped, boundVars>>

DoneReturns(d) ==
  /\ Waits("done", d) /\ tc[d].completed
  /\ LET t == tc[d]
         good == ~t.transfer \/ t.status = "COMPLETED"
     IN /\ dropped' = [dropped EXCEPT ![d] = @ \/ ~good]
        /\ received' = IF good /\ d = "in" THEN received \o t.buf ELSE received
        /\ given' = IF d = "in" THEN given ELSE given + (IF good THEN t.offset ELSE t.size)
  /\ call' = Idle /\ tc' = [tc EXCEPT ![d] = NoControl]
  /\ UNCHANGED <<contextVars, transfer, deviceVars, boundVars>>

\* The handling of events fails: the rest is that of a cancellation.
DoneFails(d) ==
  /\ Waits("done", d) /\ ~tc[d].completed /\ Mishap
  /\ libusb_cancel_transfer(d) /\ call' = [name |-> "cancel", dir |-> d]
  /\ UNCHANGED <<contextVars, tc, deviceVars, received, given, dropped, calls>>

\* In there a wait that fails, if only by a signal, ends the call: the transfer,
\* still active, is freed with its control.
CancelBreaks(d) ==
  /\ Waits("cancel", d) /\ ~tc[d].completed /\ Mishap
  /\ stray' = stray \cup {[dir |-> d, transfer |-> transfer[d]]}
  /\ dropped' = [dropped EXCEPT ![d] = TRUE]
  /\ given' = IF d = "in" THEN given ELSE given + tc[d].size
  /\ call' = Idle /\ tc' = [tc EXCEPT ![d] = NoControl]
  /\ transfer' = [transfer EXCEPT ![d] = NoTransfer]
  /\ UNCHANGED <<contextVars, deviceVars, received, calls>>

ftdi_transfer_data_cancel(d) ==
  /\ Wait("cancel", d)
  /\ IF tc[d].completed THEN transfer' = transfer ELSE libusb_cancel_transfer(d)
  /\ UNCHANGED <<contextVars, tc, deviceVars, received, given, dropped, boundVars>>

CancelReturns(d) ==
  /\ Waits("cancel", d) /\ tc[d].completed
  /\ dropped' = [dropped EXCEPT ![d] = TRUE]
  /\ given' = IF d = "in" THEN given ELSE given + tc[d].size
  /\ call' = Idle /\ tc' = [tc EXCEPT ![d] = NoControl]
  /\ UNCHANGED <<contextVars, transfer, deviceVars, received, boundVars>>

-----------------------------------------------------------------------------
\* The device ends a transfer that reads when it is full or with a packet that
\* is not; one that is cut off has whole packets only.
Lengths(status) ==
  IF status = "COMPLETED"
  THEN {n \in 2 .. ReadChunk : n = ReadChunk \/ n % PacketSize \in 2 .. (PacketSize - 1)}
  ELSE {n \in 0 .. (ReadChunk - 1) : n % PacketSize = 0}

InOver(status, n) == [state |-> "over", first |-> sent + 1, length |-> n, status |-> status]
Sendable(status) == {n \in Lengths(status) : sent + Data(n) <= DeviceData}

CutOff(x, status) ==
  IF x.state = "cancelled" THEN status = "CANCELLED" /\ mishaps' = mishaps
  ELSE x.state = "pending" /\ status \in {"TIMED_OUT", "ERROR"} /\ Mishap

InEnds ==
  /\ \E status \in {"COMPLETED", "TIMED_OUT", "ERROR", "CANCELLED"} :
       /\ IF status = "COMPLETED" THEN transfer["in"].state = "pending" /\ mishaps' = mishaps
          ELSE CutOff(transfer["in"], status)
       /\ \E n \in Sendable(status) :
            /\ transfer' = [transfer EXCEPT !["in"] = InOver(status, n)]
            /\ sent' = sent + Data(n)
  /\ UNCHANGED <<contextVars, call, tc, device_got, gone, received, given, dropped, calls>>

OutEnds ==
  /\ LET x == transfer["out"]
     IN \E status \in {"COMPLETED", "TIMED_OUT", "ERROR", "CANCELLED"} :
          /\ IF status = "COMPLETED" THEN x.state = "pending" /\ mishaps' = mishaps ELSE CutOff(x, status)
          /\ \E n \in IF status = "COMPLETED" THEN {x.length} ELSE 0 .. (x.length - 1) :
               /\ transfer' = [transfer EXCEPT !["out"] = [x EXCEPT
                                 !.state = "over", !.length = n, !.status = status]]
               /\ device_got' = device_got \o Interval(x.first - 1, x.first - 1 + n)
  /\ UNCHANGED <<contextVars, call, tc, sent, gone, received, given, dropped, calls>>

Unplugged ==
  /\ ~gone /\ Mishap /\ gone' = TRUE
  /\ transfer' = [d \in Dirs |-> IF transfer[d].state \in {"pending", "cancelled"}
                                 THEN [transfer[d] EXCEPT !.state = "over", !.length = 0, !.status = "NO_DEVICE"]
                                 ELSE transfer[d]]
  /\ UNCHANGED <<contextVars, call, tc, sent, device_got, received, given, dropped, calls>>

-----------------------------------------------------------------------------
\* A stray ends like any transfer.
Ended(s) == [s EXCEPT !.transfer = [NoTransfer EXCEPT !.state = "over"]]

StrayEnds(s) ==
  /\ LET x == s.transfer
         status == IF x.state = "cancelled" THEN "CANCELLED" ELSE "COMPLETED"
     IN /\ x.state # "over"
        /\ \/ /\ s.dir = "in" /\ device_got' = device_got
              /\ \E n \in Sendable(status) : sent' = sent + Data(n)
           \/ /\ s.dir = "out" /\ sent' = sent
              /\ \E n \in IF status = "COMPLETED" THEN {x.length} ELSE 0 .. (x.length - 1) :
                   device_got' = device_got \o Interval(x.first - 1, x.first - 1 + n)
  /\ stray' = (stray \ {s}) \cup {Ended(s)}
  /\ UNCHANGED <<contextVars, call, tc, transfer, gone, received, given, dropped, boundVars>>

\* The next wait for events may call its callback, which works on freed memory:
\* the read buffer, the caller's, or a further submission. The model ends here.
LateCallback(s) ==
  /\ call.name \notin {"idle", "over"} /\ s.transfer.state = "over"
  /\ call' = [name |-> "undefined", dir |-> s.dir]
  /\ UNCHANGED <<contextVars, tc, transfer, deviceVars, received, given, dropped, boundVars, stray>>

StrayUnplugged == stray' = {Ended(s) : s \in stray}

Strays ==
  \/ \E d \in Dirs : CancelBreaks(d)
  \/ \E s \in stray : StrayEnds(s) \/ LateCallback(s)

-----------------------------------------------------------------------------
Reading == ReadFails \/ ReadNothing \/ ReadChunkDone
Writing == WriteFails \/ WriteChunkDone
Callbacks == ftdi_read_data_cb \/ ftdi_write_data_cb
Waiting(d) == DoneReturns(d) \/ CancelReturns(d)

Data_calls ==
  \/ \E how \in {"sync", "async"} :
       \/ \E size \in ReadSizes : ReadFromBuffer(how, size) \/ StartRead(how, size)
       \/ \E size \in WriteSizes : StartWrite(how, size)
  \/ Reading \/ Writing \/ Callbacks
  \/ \E d \in Dirs :
       ftdi_transfer_data_done(d) \/ ftdi_transfer_data_cancel(d) \/ DoneFails(d) \/ Waiting(d)
=============================================================================
