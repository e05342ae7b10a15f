-------------------------------- MODULE Usbfs --------------------------------
(***************************************************************************)
(* A bulk transfer as the Linux backend of libusb sees it: the URBs it is  *)
(* split into, what the kernel does with them, and how they are reaped.    *)
(* An URB has room for one unit of data; the device numbers the units it   *)
(* transfers, so that the buffer shows which unit is where.                *)
(***************************************************************************)
EXTENDS Naturals, Sequences, SequencesExt, FiniteSetsExt

Failures == {"EPIPE", "EPROTO"}
UrbStates == {"new", "pending", "ok", "ENOENT", "ESHUTDOWN", "reaped"} \cup Failures
Actions == {"NORMAL", "SUBMIT_FAILED", "CANCELLED", "COMPLETED_EARLY", "ERROR"}
Statuses == {"COMPLETED", "ERROR", "TIMED_OUT", "CANCELLED", "STALL", "NO_DEVICE"}

\* A transfer of n URBs before submission. queue is the kernel's list of
\* completed URBs, sent what the device has transferred.
NewUrbs(n) ==
  [state |-> [i \in 1 .. n |-> "new"], got |-> [i \in 1 .. n |-> 0],
   queue |-> <<>>, sent |-> 0, buffer |-> [i \in 1 .. n |-> 0], transferred |-> 0,
   num_retired |-> 0, reap_action |-> "NORMAL", reap_status |-> "COMPLETED"]

Number(u) == Len(u.state)
Pending(u) == {i \in DOMAIN u.state : u.state[i] = "pending"}

-----------------------------------------------------------------------------
\* The kernel: URB i of the transfer ends in state s with n units of data.
Ended(u, i, s, n) ==
  [u EXCEPT !.state[i] = s, !.got[i] = n, !.queue = Append(@, i),
            !.sent = @ + n, !.buffer[i] = IF n = 0 THEN @ ELSE u.sent + 1]

\* After a stall the endpoint is halted.
Halted(u) == u.reap_status = "STALL" \/ \E i \in DOMAIN u.state : u.state[i] = "EPIPE"

\* The elements of a set of URBs from the first on, and from the last on.
FromFirst(S) == [k \in 1 .. Cardinality(S) |-> CHOOSE i \in S : Cardinality({j \in S : j < i}) = k - 1]
FromLast(S)  == [k \in 1 .. Cardinality(S) |-> CHOOSE i \in S : Cardinality({j \in S : j > i}) = k - 1]

\* The first pending URB completes: full, short or with an error.
Completions(u) ==
  IF Pending(u) = {} \/ Halted(u) THEN {}
  ELSE LET i == Min(Pending(u))
       IN {Ended(u, i, "ok", 1), Ended(u, i, "ok", 0)}

Errors(u) == {Ended(u, Min(Pending(u)), e, 0) : e \in IF Pending(u) = {} THEN {} ELSE Failures}

\* IOCTL_USBFS_DISCARDURB on the pending ones of S, from the last to the first.
\* The URB the device was serving may have its data all the same.
discard_urbs(u, S) ==
  LET killed == S \cap Pending(u)
      first == Min(Pending(u))
      dead == [u EXCEPT !.state = [i \in DOMAIN @ |-> IF i \in killed THEN "ENOENT" ELSE @[i]],
                        !.queue = @ \o FromLast(killed)]
      late == [dead EXCEPT !.got[first] = 1, !.sent = @ + 1, !.buffer[first] = u.sent + 1]
  IN {dead} \cup IF killed # {} /\ first \in killed /\ ~Halted(u) THEN {late} ELSE {}

\* The device is gone.
ShutDown(u) ==
  [u EXCEPT !.state = [i \in DOMAIN @ |-> IF @[i] = "pending" THEN "ESHUTDOWN" ELSE @[i]],
            !.queue = @ \o FromFirst(Pending(u))]

\* The descriptor is closed, or the URBs were freed.
Forgotten(u) ==
  [u EXCEPT !.state = [i \in DOMAIN @ |-> IF @[i] = "new" THEN "new" ELSE "reaped"], !.queue = <<>>]

-----------------------------------------------------------------------------
\* All URBs are accepted, or all before URB i > 1: the rest count as retired,
\* and unless the kernel said the transfer ended early the accepted ones are
\* discarded.
Submitted(u, i) ==
  [u EXCEPT !.state = [k \in DOMAIN @ |-> IF k < i THEN "pending" ELSE "new"],
            !.num_retired = Number(u) + 1 - i]

submit_bulk_transfer(u) ==
  {Submitted(u, Number(u) + 1)}
  \cup UNION {discard_urbs([Submitted(u, i) EXCEPT !.reap_action = "SUBMIT_FAILED"], 1 .. (i - 1)) :
                i \in 2 .. Number(u)}

\* Only whether the last URB was still there decides: the others were ready
\* to be reaped if it was not found.
CancelFound(u) == Number(u) \in Pending(u)

op_cancel_transfer(u) ==
  {IF CancelFound(u) /\ v.reap_action # "ERROR" THEN [v EXCEPT !.reap_action = "CANCELLED"] ELSE v :
     v \in discard_urbs(u, DOMAIN u.state)}

Surplus_Stays(u, i) == [u EXCEPT !.transferred = @ + u.got[i]]

\* A surplus of data is moved to the end of what was received before.
Surplus(u, i) ==
  IF u.got[i] = 0 THEN u
  ELSE [u EXCEPT !.buffer[u.transferred + 1] = u.buffer[i], !.transferred = @ + 1]

Reaped(u, i) ==
  [u EXCEPT !.state[i] = "reaped", !.queue = Tail(@), !.num_retired = @ + 1]

\* The reaped URB met a normal transfer: what its status makes of it.
Judged(u, i, status) ==
  IF status = "ESHUTDOWN" THEN [u EXCEPT !.reap_status = "NO_DEVICE"]
  ELSE IF status = "EPIPE" THEN [u EXCEPT !.reap_status = IF @ = "COMPLETED" THEN "STALL" ELSE @]
  ELSE IF status = "EPROTO" THEN [u EXCEPT !.reap_action = "ERROR",
                                           !.reap_status = IF @ = "COMPLETED" THEN "ERROR" ELSE @]
  ELSE IF u.num_retired < Number(u) /\ u.got[i] = 0 THEN [u EXCEPT !.reap_action = "COMPLETED_EARLY"]
  ELSE u

\* handle_bulk_completion of the first URB of the queue.
handle_bulk_completion(u) ==
  LET i == Head(u.queue)
      status == u.state[i]
      v == Reaped(u, i)
      w == Judged([v EXCEPT !.transferred = @ + u.got[i]], i, status)
      last == v.num_retired = Number(u)
  IN IF u.reap_action # "NORMAL"
     THEN {[Surplus(v, i) EXCEPT !.reap_status =
              IF last /\ u.reap_action # "COMPLETED_EARLY" /\ @ = "COMPLETED" THEN "ERROR" ELSE @]}
     ELSE IF last \/ (status \notin Failures \cup {"ESHUTDOWN"} /\ u.got[i] = 1) THEN {w}
     ELSE discard_urbs(w, (i + 1) .. Number(u))

\* The last of them is reaped: the URBs are freed and the transfer is over.
AllRetired(u) == u.num_retired = Number(u)
=============================================================================
