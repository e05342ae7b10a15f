----------------------------- MODULE FtdiStream -----------------------------
(***************************************************************************)
(* ftdi_readstream, the last call of a program that has used the data      *)
(* calls of Ftdi before: several transfers are kept in flight, and a       *)
(* callback of the program gets the payload of each packet until it says   *)
(* stop.  The call returns when a transfer has failed, or when nothing     *)
(* happened during one wait for events.                                    *)
(***************************************************************************)
EXTENDS Ftdi

CONSTANTS
  NumTransfers,   \* numTransfers, of a chunk each
  ReadTimeouts    \* the values of usb_read_timeout, in milliseconds

ASSUME StreamAssumption == NumTransfers \in Nat \ {0} /\ ReadTimeouts \subseteq Nat

VARIABLE stream   \* the transfers in flight, and the FTDIStreamState

vars == <<ftdiVars, stray, stream>>

Init ==
  /\ FtdiInit
  /\ stream = [transfers |-> <<>>, result |-> "none", activity |-> TRUE, stop |-> FALSE, timeout |-> 0]

ReadStream(timeout) ==
  /\ call = Idle /\ (\A d \in Dirs : tc[d].how = "none") /\ calls > 0 /\ calls' = calls - 1
  /\ ~gone
  /\ readbuffer_offset' = 0 /\ readbuffer_remaining' = 0
  /\ dropped' = [dropped EXCEPT !["in"] = @ \/ readbuffer_remaining > 0]
  /\ stream' = [stream EXCEPT !.transfers = [k \in 1 .. NumTransfers |-> Submitted(0, ReadChunk)],
                           !.timeout = timeout]
  /\ call' = [name |-> "stream", dir |-> "in"]
  /\ UNCHANGED <<readbuffer, tc, transfer, deviceVars, received, given, mishaps>>

\* The timeout is given to libusb as microseconds alone, and libusb refuses a
\* second or more: the wait for events then fails before it has seen any.
Events == stream.timeout * 1000 < 1000000

FirstOver == stream.transfers # <<>> /\ Head(stream.transfers).state = "over"

\* The payloads of a transfer: each packet's bytes behind its two status bytes.
Payloads(x) ==
  LET at(q) == (q \div Payload) * PacketSize + 2 + (q % Payload)
  IN [k \in 1 .. Data(x.length) |-> Raw(x.first, x.length)[at(k - 1) + 1]]

Resubmitted ==
  [stream EXCEPT !.transfers = Tail(@) \o (IF gone THEN <<>> ELSE <<Submitted(0, ReadChunk)>>),
                 !.result = IF gone THEN "error" ELSE "none", !.activity = TRUE]

\* The callback's answer to the last packet counts; once it says stop it does
\* so until the end.
ftdi_readstream_cb(stop) ==
  /\ call.name = "stream" /\ Events
  /\ FirstOver /\ Head(stream.transfers).status = "COMPLETED"
  /\ stream.stop => stop
  /\ received' = received \o Payloads(Head(stream.transfers))
  /\ stream' = IF stop THEN [stream EXCEPT !.transfers = Tail(@), !.activity = TRUE, !.stop = TRUE]
               ELSE Resubmitted
  /\ UNCHANGED <<contextVars, call, tc, transfer, deviceVars, given, dropped, boundVars>>

StreamError ==
  /\ call.name = "stream" /\ Events
  /\ FirstOver /\ Head(stream.transfers).status # "COMPLETED"
  /\ stream' = [stream EXCEPT !.transfers = Tail(@), !.result = "error", !.activity = TRUE]
  /\ dropped' = [dropped EXCEPT !["in"] = TRUE]
  /\ UNCHANGED <<contextVars, call, tc, transfer, deviceVars, received, given, boundVars>>

Judged_ResultOnly == stream.result

\* A wait for events that saw none ends the stream.
Judged ==
  IF ~stream.activity THEN "quiet"
  ELSE IF stream.result = "none" /\ ~Events THEN "error" ELSE stream.result

\* The wait was for events that had come, or it was in vain: nothing was in
\* flight, or the device was silent.
StreamRound ==
  /\ call.name = "stream"
  /\ IF stream.activity \/ stream.transfers = <<>> \/ ~Events THEN mishaps' = mishaps
     ELSE ~FirstOver /\ ~gone /\ Mishap
  /\ stream' = [stream EXCEPT !.result = Judged, !.activity = FALSE]
  /\ call' = IF Judged = "none" THEN call ELSE [name |-> "over", dir |-> "in"]
  /\ UNCHANGED <<contextVars, tc, transfer, deviceVars, received, given, dropped, calls>>

\* The wait itself fails, or a second signal interrupts it.
StreamWaitFails ==
  /\ call.name = "stream" /\ Events /\ Mishap
  /\ stream' = [stream EXCEPT !.result = IF stream.activity /\ @ = "none" THEN "error" ELSE Judged,
                              !.activity = FALSE]
  /\ call' = [name |-> "over", dir |-> "in"]
  /\ UNCHANGED <<contextVars, tc, transfer, deviceVars, received, given, dropped, calls>>

\* The transfers are filled in the order of their submission.
Next_to_fill == {k \in DOMAIN stream.transfers :
                   \A j \in 1 .. k : (stream.transfers[j].state = "pending") <=> (j = k)}

StreamEnds ==
  /\ call.name = "stream"
  /\ \E k \in Next_to_fill, status \in {"COMPLETED", "ERROR"} :
       /\ IF status = "ERROR" THEN Mishap ELSE mishaps' = mishaps
       /\ \E n \in Sendable(status) :
            /\ stream' = [stream EXCEPT !.transfers[k] = InOver(status, n)]
            /\ sent' = sent + Data(n)
  /\ UNCHANGED <<contextVars, call, tc, transfer, device_got, gone, received, given, dropped, calls>>

StreamUnplugged ==
  stream' = [stream EXCEPT !.transfers =
    [k \in DOMAIN @ |-> IF @[k].state = "over" THEN @[k]
                        ELSE [@[k] EXCEPT !.state = "over", !.status = "NO_DEVICE", !.length = 0]]]

Finished ==
  /\ call.name \in {"over", "undefined"} \/ (call = Idle /\ calls = 0 /\ \A d \in Dirs : tc[d].how = "none")
  /\ UNCHANGED vars

StreamCallbacks == (\E stop \in BOOLEAN : ftdi_readstream_cb(stop)) \/ StreamError

Steps ==
  \/ (Data_calls \/ InEnds \/ OutEnds) /\ UNCHANGED stream
  \/ Unplugged /\ StreamUnplugged
  \/ (\E timeout \in ReadTimeouts : ReadStream(timeout))
  \/ StreamCallbacks \/ StreamRound \/ StreamWaitFails \/ StreamEnds

Next ==
  \/ call.name # "undefined" /\ Steps /\ (IF gone' = gone THEN UNCHANGED stray ELSE StrayUnplugged)
  \/ call.name # "undefined" /\ Strays /\ UNCHANGED stream
  \/ Finished

Program ==
  /\ \/ (Reading \/ Writing \/ \E d \in Dirs : Waiting(d)) /\ UNCHANGED stream
     \/ StreamCallbacks \/ StreamRound
  /\ UNCHANGED stray

\* The device answers every transfer that reads, if only with status bytes when
\* its latency timer runs out, takes what is written or lets it time out, and the
\* program gets the events it waits for. Nobody has to start or to cancel
\* anything, and nothing is certain of a stray.
Fairness ==
  /\ WF_vars(((InEnds /\ UNCHANGED stream) \/ StreamEnds) /\ UNCHANGED stray)
  /\ WF_vars(OutEnds /\ UNCHANGED <<stream, stray>>)
  /\ WF_vars(ftdi_read_data_cb /\ UNCHANGED <<stream, stray>>)
  /\ WF_vars(ftdi_write_data_cb /\ UNCHANGED <<stream, stray>>)
  /\ WF_vars(Program)

Spec == Init /\ [][Next]_vars /\ Fairness
-----------------------------------------------------------------------------
Increasing(s) == \A k \in 1 .. (Len(s) - 1) : s[k] < s[k + 1]

InFlight(x) == IF x.state = "over" THEN Payloads(x) ELSE <<>>
StreamedUpTo[k \in 0 .. Len(stream.transfers)] ==
  IF k = 0 THEN <<>> ELSE StreamedUpTo[k - 1] \o InFlight(stream.transfers[k])
Streamed == StreamedUpTo[Len(stream.transfers)]

\* libusb asks of ftdi_transfer_data_cancel and _done, as of every caller, that
\* no active transfer is freed, whatever ends the wait for its completion.
NoneFreedActive == stray = {}

\* As long as no transfer was freed in flight: what the program has read came in
\* that order, without status bytes and nothing twice; and as long as no call
\* failed and none was cancelled, it is, with what is still under way, all the
\* device sent.
ReadInOrder == NoneFreedActive =>
  /\ Increasing(received) /\ \A k \in DOMAIN received : received[k] \in 1 .. sent
  /\ ~dropped["in"] /\ call.name # "over" =>
       received \o tc["in"].buf \o Buffered(readbuffer_remaining) \o InFlight(transfer["in"]) \o Streamed
         = Interval(0, sent)

\* As long as no transfer was freed in flight: what the device got is in the order
\* of the buffers, nothing twice; and as long as no call failed and none was
\* cancelled, nothing is missing.
WrittenInOrder == NoneFreedActive =>
  /\ Increasing(device_got)
  /\ ~dropped["out"] =>
       device_got = Interval(0, given + tc["out"].offset + (IF Over("out") THEN transfer["out"].length ELSE 0))

\* A synchronous call returns, and so does the wait for a transfer that was
\* cancelled in time, unless the callback of a freed transfer runs in it.
CallsReturn ==
  /\ (call.name = "bulk") ~> (call.name # "bulk")
  /\ (\E d \in Dirs : Waits("cancel", d) /\ transfer[d].state = "cancelled") ~> (call.name # "cancel")

\* ftdi_transfer_data_cancel cancels its transfer, whenever it comes, and so it
\* returns.
CancelEnds == \A d \in Dirs : Waits("cancel", d) ~> ~Waits("cancel", d)

\* After the callback said stop the stream ends, and unless something went
\* wrong it leaves no transfer behind.
StreamReturns ==
  stream.stop ~> (call.name \in {"over", "undefined"} /\ (mishaps = Mishaps => stream.transfers = <<>>))
=============================================================================
