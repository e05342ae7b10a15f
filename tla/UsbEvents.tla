------------------------------ MODULE UsbEvents ------------------------------
(***************************************************************************)
(* Threads that make synchronous bulk transfers on one libusb context:     *)
(* whoever gets the event lock handles the events of all of them, the      *)
(* others wait for its broadcast; transfers time out, devices are closed   *)
(* or disappear meanwhile.                                                 *)
(*                                                                         *)
(* A thread t has a device handle and a transfer of its own, both named t. *)
(* A critical section without a wait inside is one step; a lock that is    *)
(* held while its owner waits is a variable: the event lock, the lock of   *)
(* the list of flying transfers (a timeout is handled under it), the lock  *)
(* of the event waiters and, as pc[t] = "backend", the lock of transfer t. *)
(***************************************************************************)
EXTENDS Usbfs

CONSTANTS
  Thread,
  Timeout,    \* the timeout of each thread's transfer, 0 for none
  Setups,     \* the URBs of each thread's transfer (0: it takes no part), whether
              \* the context uses a timer and the kernel gives back the URBs of a
              \* lost device, who closes which handle, and which mishaps may
              \* happen to whom (one of them does, at most)
  None

Mishaps == {"refused", "partly refused", "error", "unplugged", "interrupt", "failure", "signal"}

ASSUME EventsAssumption ==
  /\ IsFiniteSet(Thread)
  /\ Timeout \in [Thread -> Nat]
  /\ Setups \subseteq [num_urbs : [Thread -> Nat], using_timer : BOOLEAN, reap_after_disconnect : BOOLEAN,
                       closer : [Thread -> Thread], mishaps : SUBSET (Mishaps \X Thread)]
  /\ None \notin Thread \cup Statuses \cup {"refused"}

VARIABLES
  \* the threads
  pc,          \* where each thread is
  back,        \* where it goes when handle_timeouts is done, or handling events failed
  systime,     \* the time it read for handle_timeouts
  reported,    \* what its poll found: [event, timer, ready, error]
  until,       \* when its poll or wait times out, 0 for the 60 seconds
  subject,     \* the transfer or handle it is dealing with: [of, status]
  \* the context
  flying_transfers, flying_transfers_lock, events_lock, event_handler_active,
  event_waiters_lock, device_close, event_flags, signalled, event_sources,
  event_data, timer,
  \* the transfers, and their URBs
  transfer, urbs,
  \* the rest of the world
  setup, now, open, gone, mishaps

threadVars == <<pc, back, systime, reported, until, subject>>
listVars == <<flying_transfers, flying_transfers_lock, timer>>
lockVars == <<events_lock, event_handler_active, event_waiters_lock>>
eventVars == <<device_close, event_flags, signalled, event_sources, event_data>>
transferVars == <<transfer, urbs>>
worldVars == <<setup, now, open, gone, mishaps>>
vars == <<threadVars, listVars, lockVars, eventVars, transferVars, worldVars>>

Users == {t \in Thread : setup.num_urbs[t] # 0}
Nothing == [event |-> FALSE, timer |-> FALSE, ready |-> {}, error |-> {}]
NoSubject == [of |-> None, status |-> "COMPLETED"]
NewTransfer ==
  [state_flags |-> {}, timeout_flags |-> {}, deadline |-> 0, handle |-> TRUE,
   completed |-> FALSE, calls |-> 0, status |-> "COMPLETED", result |-> None,
   given_up |-> FALSE]   \* its caller has cancelled it

Init ==
  /\ setup \in Setups
  /\ pc = [t \in Thread |-> IF t \in Users THEN "submit" ELSE "end"] /\ back = [t \in Thread |-> "wait"]
  /\ systime = [t \in Thread |-> 0] /\ reported = [t \in Thread |-> Nothing]
  /\ until = [t \in Thread |-> 0] /\ subject = [t \in Thread |-> NoSubject]
  /\ flying_transfers = <<>> /\ flying_transfers_lock = None /\ timer = 0
  /\ events_lock = None /\ event_handler_active = FALSE /\ event_waiters_lock = None
  /\ device_close = 0 /\ event_flags = {"SOURCES_MODIFIED"} /\ signalled = TRUE
  /\ event_sources = Users /\ event_data = {}
  /\ transfer = [t \in Thread |-> NewTransfer] /\ urbs = [t \in Thread |-> NewUrbs(setup.num_urbs[t])]
  /\ now = 1 /\ open = Users /\ gone = {} /\ mishaps = setup.mishaps

Go(t, label) == pc' = [pc EXCEPT ![t] = label]
At(t, label) == pc[t] = label
Locked(x) == pc[x] = "backend"
Mishap(m, t) == <<m, t>> \in mishaps /\ mishaps' = {}
world == <<setup, now, open, gone>>

-----------------------------------------------------------------------------
\* The list of flying transfers is sorted by deadline, those without at the end.
Handled(x) == "HANDLED" \in transfer[x].timeout_flags
ToHandle_All(list) == {i \in DOMAIN list : transfer[list[i]].deadline # 0}

\* The places on it of the timeouts that are still to be handled.
ToHandle(list) == {i \in DOMAIN list : ~Handled(list[i]) /\ transfer[list[i]].deadline # 0}

FirstTimeout(list) ==
  IF ToHandle(list) = {} THEN 0 ELSE transfer[list[Min(ToHandle(list))]].deadline

add_to_flying_list_First(x, deadline) ==
  /\ flying_transfers' = <<x>> \o flying_transfers
  /\ timer' = IF setup.using_timer /\ deadline # 0 THEN deadline ELSE timer

add_to_flying_list(x, deadline) ==
  LET later(y) == transfer[y].deadline = 0 \/ transfer[y].deadline > deadline
      first == {i \in DOMAIN flying_transfers : deadline # 0 /\ later(flying_transfers[i])}
      at == IF first = {} THEN Len(flying_transfers) + 1 ELSE Min(first)
  IN /\ flying_transfers' = InsertAt(flying_transfers, at, x)
     /\ timer' = IF setup.using_timer /\ deadline # 0 /\ at = 1 THEN deadline ELSE timer

arm_timer_for_next_timeout(list) == timer' = IF setup.using_timer THEN FirstTimeout(list) ELSE timer

list_del(list, x) ==
  IF x \in ToSet(list) THEN RemoveAt(list, CHOOSE i \in DOMAIN list : list[i] = x) ELSE list

remove_from_flying_list_NoRearm(x) ==
  flying_transfers' = list_del(flying_transfers, x) /\ timer' = timer

remove_from_flying_list(x) ==
  /\ flying_transfers' = list_del(flying_transfers, x)
  /\ IF transfer[x].deadline # 0 /\ flying_transfers # <<>> /\ Head(flying_transfers) = x
     THEN arm_timer_for_next_timeout(list_del(flying_transfers, x))
     ELSE timer' = timer

-----------------------------------------------------------------------------
\* libusb_submit_transfer. The lock of the transfer is held from here...
Submit(t) ==
  /\ At(t, "submit") /\ flying_transfers_lock = None
  /\ LET deadline == IF Timeout[t] = 0 THEN 0 ELSE now + Timeout[t]
     IN /\ add_to_flying_list(t, deadline)
        /\ transfer' = [transfer EXCEPT ![t].deadline = deadline]
  /\ Go(t, "backend")
  /\ UNCHANGED <<back, systime, reported, until, subject, flying_transfers_lock,
                 lockVars, eventVars, urbs, worldVars>>

\* ... to here.
BackendSubmits(t) ==
  /\ At(t, "backend") /\ t \notin gone
  /\ \E u \in submit_bulk_transfer(urbs[t]) :
       /\ IF u.reap_action = "NORMAL" THEN mishaps' = mishaps ELSE Mishap("partly refused", t)
       /\ urbs' = [urbs EXCEPT ![t] = u]
  /\ transfer' = [transfer EXCEPT ![t].state_flags = @ \cup {"IN_FLIGHT"}]
  /\ Go(t, "wait")
  /\ UNCHANGED <<back, systime, reported, until, subject, listVars, lockVars, eventVars, world>>

BackendRefuses(t) ==
  /\ At(t, "backend")
  /\ IF t \in gone THEN mishaps' = mishaps ELSE Mishap("refused", t)
  /\ Go(t, "unsubmit")
  /\ UNCHANGED <<back, systime, reported, until, subject, listVars, lockVars, eventVars,
                 transferVars, world>>

\* The caller frees the transfer and has the error.
Unsubmit(t) ==
  /\ At(t, "unsubmit") /\ flying_transfers_lock = None
  /\ remove_from_flying_list(t)
  /\ transfer' = [transfer EXCEPT ![t] = [NewTransfer EXCEPT !.result = "refused"]]
  /\ Go(t, "close")
  /\ UNCHANGED <<back, systime, reported, until, subject, flying_transfers_lock, lockVars,
                 eventVars, urbs, worldVars>>

\* libusb_cancel_transfer, under the lock of the transfer: whether it succeeds,
\* the flags of the transfer and the URBs after it.
Cancellable(x) ==
  /\ "IN_FLIGHT" \in transfer[x].state_flags
  /\ "CANCELLING" \notin transfer[x].state_flags
CancelSucceeds(x) == Cancellable(x) /\ x \notin gone /\ CancelFound(urbs[x])

CancelFlags(x) ==
  IF ~Cancellable(x) THEN transfer[x].state_flags
  ELSE transfer[x].state_flags \cup {"CANCELLING"} \cup (IF x \in gone THEN {"DEVICE_DISAPPEARED"} ELSE {})

CancelUrbs(x) ==
  IF Cancellable(x) /\ x \notin gone
  THEN \E u \in op_cancel_transfer(urbs[x]) : urbs' = [urbs EXCEPT ![x] = u]
  ELSE urbs' = urbs

-----------------------------------------------------------------------------
\* handle_timeouts: under the lock of the list, and waiting for the locks of
\* the transfers that have expired.
CallHandleTimeouts(t, then) == Go(t, "lock_flying") /\ back' = [back EXCEPT ![t] = then]

LockFlying(t) ==
  /\ At(t, "lock_flying") /\ flying_transfers_lock = None
  /\ flying_transfers_lock' = t /\ systime' = [systime EXCEPT ![t] = now]
  /\ Go(t, "timeouts")
  /\ UNCHANGED <<back, reported, until, subject, flying_transfers, timer, lockVars, eventVars,
                 transferVars, worldVars>>

Expired(t) ==
  IF FirstTimeout(flying_transfers) \in 1 .. systime[t]
  THEN {flying_transfers[Min(ToHandle(flying_transfers))]} ELSE {}

HandleTimeout(t) ==
  /\ At(t, "timeouts")
  /\ \E x \in Expired(t) :
       /\ ~Locked(x)
       /\ transfer' = [transfer EXCEPT
            ![x].timeout_flags = @ \cup {"HANDLED"},
            ![x].state_flags = CancelFlags(x)]
       /\ CancelUrbs(x)
       /\ Go(t, IF CancelSucceeds(x) THEN "timed_out" ELSE "timeouts")
       /\ subject' = [subject EXCEPT ![t].of = x]
  /\ UNCHANGED <<back, systime, reported, until, listVars, lockVars, eventVars, worldVars>>

TimedOut(t) ==
  /\ At(t, "timed_out")
  /\ transfer' = [transfer EXCEPT ![subject[t].of].timeout_flags = @ \cup {"TIMED_OUT"}]
  /\ Go(t, "timeouts")
  /\ UNCHANGED <<back, systime, reported, until, subject, listVars, lockVars, eventVars, urbs, worldVars>>

\* handle_timer_trigger arms the timer for the next before it lets go of the list.
TimeoutsHandled(t) ==
  /\ At(t, "timeouts") /\ Expired(t) = {}
  /\ flying_transfers_lock' = None
  /\ IF back[t] = "reap" THEN arm_timer_for_next_timeout(flying_transfers) ELSE timer' = timer
  /\ Go(t, back[t])
  /\ back' = [back EXCEPT ![t] = "wait"] /\ systime' = [systime EXCEPT ![t] = 0]
  /\ subject' = [subject EXCEPT ![t] = NoSubject]
  /\ UNCHANGED <<reported, until, flying_transfers, lockVars, eventVars, transferVars, worldVars>>

HandleTimeouts(t) == LockFlying(t) \/ HandleTimeout(t) \/ TimedOut(t) \/ TimeoutsHandled(t)

-----------------------------------------------------------------------------
\* sync_transfer_wait_for_completion. The caller takes the status and frees
\* the transfer.
Freed(t, result) ==
  [transfer EXCEPT ![t] = [NewTransfer EXCEPT !.result = result, !.given_up = transfer[t].given_up]]

Return(t) ==
  /\ At(t, "wait") \/ At(t, "woken")
  /\ LET closed == At(t, "woken") /\ ~transfer[t].handle
     IN /\ transfer[t].completed \/ closed
        /\ transfer' = Freed(t, IF closed THEN "NO_DEVICE" ELSE transfer[t].status)
  /\ urbs' = [urbs EXCEPT ![t] = NewUrbs(setup.num_urbs[t])]
  /\ until' = [until EXCEPT ![t] = 0]
  /\ Go(t, "close")
  /\ UNCHANGED <<back, systime, reported, subject, listVars, lockVars, eventVars, worldVars>>

\* When handling events has failed it cancels its transfer and waits on, without a
\* look at the handle: where that was closed, what follows is undefined and the
\* thread is left there.
GiveUp(t) ==
  /\ At(t, "cancel") /\ transfer[t].handle
  /\ transfer' = [transfer EXCEPT ![t].state_flags = CancelFlags(t),
                                  ![t].given_up = @ \/ CancelSucceeds(t)]
  /\ CancelUrbs(t)
  /\ Go(t, "wait")
  /\ UNCHANGED <<back, systime, reported, until, subject, listVars, lockVars, eventVars, worldVars>>

\* libusb_handle_events_timeout_completed: the next timeout, unless a timer
\* takes care of it.
NextTimeout(t) ==
  /\ At(t, "wait") \/ (At(t, "woken") /\ transfer[t].handle)
  /\ ~transfer[t].completed
  /\ LET next == IF setup.using_timer THEN 0 ELSE FirstTimeout(flying_transfers)
     IN /\ setup.using_timer \/ flying_transfers_lock = None
        /\ IF next \in 1 .. now
           THEN CallHandleTimeouts(t, "woken") /\ until' = until
           ELSE Go(t, "try") /\ until' = [until EXCEPT ![t] = next] /\ back' = back
  /\ UNCHANGED <<systime, reported, subject, listVars, lockVars, eventVars, transferVars, worldVars>>

PrepareEvents_ClearsEvent ==
  /\ event_data' = IF "SOURCES_MODIFIED" \in event_flags THEN event_sources ELSE event_data
  /\ event_flags' = event_flags \ {"SOURCES_MODIFIED"}
  /\ signalled' = FALSE
  /\ UNCHANGED <<device_close, event_sources>>

\* handle_events brings the list of descriptors to poll up to date.
PrepareEvents ==
  /\ event_data' = IF "SOURCES_MODIFIED" \in event_flags THEN event_sources ELSE event_data
  /\ event_flags' = event_flags \ {"SOURCES_MODIFIED"}
  /\ signalled' = (signalled /\ event_flags' # {})
  /\ UNCHANGED <<device_close, event_sources>>

\* libusb_try_lock_events looks for someone closing a device, then tries.
Try(t) ==
  /\ At(t, "try") /\ Go(t, IF device_close > 0 THEN "waiters" ELSE "trylock")
  /\ UNCHANGED <<back, systime, reported, until, subject, listVars, lockVars, eventVars,
                 transferVars, worldVars>>

TryLock(t) ==
  /\ At(t, "trylock")
  /\ IF events_lock = None
     THEN /\ events_lock' = t /\ event_handler_active' = TRUE
          /\ IF transfer[t].completed
             THEN Go(t, "unlock") /\ UNCHANGED eventVars
             ELSE Go(t, "poll") /\ PrepareEvents
     ELSE UNCHANGED <<events_lock, event_handler_active, eventVars>> /\ Go(t, "waiters")
  /\ UNCHANGED <<back, systime, reported, until, subject, listVars, event_waiters_lock,
                 transferVars, worldVars>>

\* There is no memory for the list of descriptors: handle_events has freed the old
\* one, and the sources stay modified.
NoMemory(t) ==
  /\ At(t, "trylock") /\ events_lock = None /\ ~transfer[t].completed
  /\ "SOURCES_MODIFIED" \in event_flags /\ Mishap("failure", t)
  /\ events_lock' = t /\ event_handler_active' = TRUE /\ event_data' = {}
  /\ back' = [back EXCEPT ![t] = "cancel"] /\ Go(t, "unlock")
  /\ UNCHANGED <<systime, reported, until, subject, listVars, event_waiters_lock, device_close,
                 event_flags, signalled, event_sources, transferVars, world>>

\* With the waiters locked, the completion is looked for again, then the handler.
Waiters(t) ==
  /\ At(t, "waiters") /\ event_waiters_lock = None
  /\ IF transfer[t].completed
     THEN Go(t, "woken") /\ event_waiters_lock' = event_waiters_lock
     ELSE Go(t, "active") /\ event_waiters_lock' = t
  /\ UNCHANGED <<back, systime, reported, until, subject, listVars, events_lock,
                 event_handler_active, eventVars, transferVars, worldVars>>

libusb_event_handler_active == device_close > 0 \/ event_handler_active

WaitOrRetry_Waits(t) ==
  /\ At(t, "active") /\ event_waiters_lock' = None
  /\ Go(t, "waiting")
  /\ UNCHANGED <<back, systime, reported, until, subject, listVars, events_lock,
                 event_handler_active, eventVars, transferVars, worldVars>>

WaitOrRetry(t) ==
  /\ At(t, "active") /\ event_waiters_lock' = None
  /\ Go(t, IF libusb_event_handler_active THEN "waiting" ELSE "try")
  /\ UNCHANGED <<back, systime, reported, until, subject, listVars, events_lock,
                 event_handler_active, eventVars, transferVars, worldVars>>

OnTime(t) == until[t] \in 1 .. now

\* The wait times out at the next timeout. One of a minute is left out: the
\* handler polls no longer than that, and wakes the waiters up.
WaitTimesOut(t) ==
  /\ At(t, "waiting") /\ OnTime(t)
  /\ CallHandleTimeouts(t, "woken")
  /\ UNCHANGED <<systime, reported, until, subject, listVars, lockVars, eventVars, transferVars, worldVars>>

-----------------------------------------------------------------------------
\* handle_events polls the event, the timer and the devices of the list.
Rings == timer # 0 /\ timer <= now
Readable == {h \in event_data \cap open : urbs[h].queue # <<>> \/ h \in gone}

TimeoutsToCome ==
  \/ \E x \in ToSet(flying_transfers) : transfer[x].deadline > now
  \/ \E t \in Thread : until[t] > now /\ pc[t] \in {"poll", "waiting"}

\* A minute is longer than any timeout of a transfer and any step of a thread.
Asleep(t) ==
  \/ At(t, "end")
  \/ At(t, "waiting") /\ ~OnTime(t)
  \/ At(t, "poll") /\ ~OnTime(t) /\ ~signalled /\ ~Rings /\ Readable = {}

AfterAMinute(t) == until[t] = 0 /\ ~TimeoutsToCome /\ \A s \in Thread : Asleep(s)

Poll(t) ==
  /\ At(t, "poll") /\ (signalled \/ Rings \/ Readable # {})
  /\ reported' = [reported EXCEPT ![t] =
       [event |-> signalled, timer |-> Rings, ready |-> Readable, error |-> Readable \cap gone]]
  /\ Go(t, "events")
  /\ UNCHANGED <<back, systime, until, subject, listVars, lockVars, eventVars, transferVars, worldVars>>

PollTimesOut(t, late) ==
  /\ At(t, "poll") /\ late /\ ~signalled /\ ~Rings /\ Readable = {}
  /\ IF setup.using_timer THEN Go(t, "unlock") /\ back' = back ELSE CallHandleTimeouts(t, "unlock")
  /\ UNCHANGED <<systime, reported, until, subject, listVars, lockVars, eventVars, transferVars, worldVars>>

\* The poll fails, or the reaping of an URB; or a signal interrupts the poll, after
\* which the caller just waits on.
HandlingFails(t) ==
  /\ At(t, "poll") \/ (At(t, "reap") /\ reported[t].ready \ reported[t].error # {})
  /\ \/ Mishap("failure", t) /\ back' = [back EXCEPT ![t] = "cancel"]
     \/ At(t, "poll") /\ Mishap("signal", t) /\ back' = [back EXCEPT ![t] = "again"]
  /\ Go(t, "unlock")
  /\ UNCHANGED <<systime, reported, until, subject, listVars, lockVars, eventVars, transferVars, world>>

\* The flags of a message are taken; devices come after the timer.
handle_event_trigger(t) ==
  /\ At(t, "events")
  /\ IF reported[t].event
     THEN /\ event_flags' = event_flags \ {"USER_INTERRUPT"}
          /\ signalled' = (signalled /\ event_flags' # {})
     ELSE UNCHANGED <<event_flags, signalled>>
  /\ IF reported[t].timer THEN CallHandleTimeouts(t, "reap") ELSE Go(t, "reap") /\ back' = back
  /\ UNCHANGED <<systime, reported, until, subject, listVars, lockVars, device_close, event_sources,
                 event_data, transferVars, worldVars>>
-----------------------------------------------------------------------------
\* op_handle_events: the devices that are ready, in the order of the list.
Device(t) == CHOOSE h \in reported[t].ready : TRUE
Broken(t) == Device(t) \in reported[t].error
AtDevice(t) == At(t, "reap") /\ reported[t].ready # {}

DeviceDone(t) ==
  reported' = [reported EXCEPT ![t].ready = @ \ {Device(t)}, ![t].error = @ \ {Device(t)}]

\* usbi_event_source_notification and its like: only the first flag signals.
Notify(flag) ==
  event_flags' = event_flags \cup {flag} /\ signalled' = (signalled \/ event_flags = {})

\* A device that reports an error is not polled again.
RemoveBroken(t) ==
  /\ AtDevice(t) /\ Broken(t) /\ Device(t) \in event_sources
  /\ event_sources' = event_sources \ {Device(t)} /\ Notify("SOURCES_MODIFIED")
  /\ UNCHANGED <<threadVars, listVars, lockVars, device_close, event_data, transferVars, worldVars>>

\* A disconnected device gives up its URBs only where the kernel says so.
Reapable(h) == urbs[h].queue # <<>> /\ (h \in gone => setup.reap_after_disconnect)

Reap(t) ==
  /\ AtDevice(t) /\ (Broken(t) => Device(t) \notin event_sources)
  /\ LET h == Device(t)
     IN /\ Reapable(h) /\ ~Locked(h)
        /\ \E u \in handle_bulk_completion(urbs[h]) :
             /\ urbs' = [urbs EXCEPT ![h] = u]
             /\ IF ~AllRetired(u) THEN UNCHANGED <<pc, subject>>
                ELSE /\ subject' = [subject EXCEPT ![t] = [of |-> h, status |-> u.reap_status]]
                     /\ Go(t, IF u.reap_action = "CANCELLED" THEN "cancellation" ELSE "completion")
  /\ UNCHANGED <<back, systime, reported, until, listVars, lockVars, eventVars, transfer, worldVars>>

NothingToReap(t) ==
  /\ AtDevice(t) /\ ~Broken(t) /\ ~Reapable(Device(t))
  /\ DeviceDone(t)
  /\ UNCHANGED <<pc, back, systime, until, subject, listVars, lockVars, eventVars, transferVars, worldVars>>

Orphans_Any(h) == {x \in ToSet(flying_transfers) : x = h /\ transfer[x].handle}

\* usbi_handle_disconnect ends what is still in flight; a transfer that failed
\* to be submitted is left to libusb_submit_transfer.
Orphans(h) ==
  {x \in ToSet(flying_transfers) : x = h /\ transfer[x].handle /\ "IN_FLIGHT" \in transfer[x].state_flags}

Disconnected(t) ==
  /\ AtDevice(t) /\ Broken(t) /\ Device(t) \notin event_sources /\ ~Reapable(Device(t))
  /\ flying_transfers_lock = None /\ ~Locked(Device(t))
  /\ IF Orphans(Device(t)) = {}
     THEN DeviceDone(t) /\ UNCHANGED <<pc, subject, urbs>>
     ELSE /\ subject' = [subject EXCEPT ![t] = [of |-> Device(t), status |-> "NO_DEVICE"]]
          /\ urbs' = [urbs EXCEPT ![Device(t)] = Forgotten(@)]
          /\ Go(t, "completion") /\ reported' = reported
  /\ UNCHANGED <<back, systime, until, listVars, lockVars, eventVars, transfer, worldVars>>

Cancellation_Unlocked(t) ==
  /\ At(t, "cancellation")
  /\ subject' = [subject EXCEPT ![t].status =
       IF "TIMED_OUT" \in transfer[subject[t].of].timeout_flags THEN "TIMED_OUT" ELSE "CANCELLED"]
  /\ Go(t, "completion")
  /\ UNCHANGED <<back, systime, reported, until, listVars, lockVars, eventVars, transferVars, worldVars>>

\* usbi_handle_transfer_cancellation: whose idea the cancellation was is known
\* once the list is free.
Cancellation(t) ==
  /\ At(t, "cancellation") /\ flying_transfers_lock = None
  /\ subject' = [subject EXCEPT ![t].status =
       IF "TIMED_OUT" \in transfer[subject[t].of].timeout_flags THEN "TIMED_OUT" ELSE "CANCELLED"]
  /\ Go(t, "completion")
  /\ UNCHANGED <<back, systime, reported, until, listVars, lockVars, eventVars, transferVars, worldVars>>

\* usbi_handle_transfer_completion: off the list, no longer in flight, and the
\* callback; the steps between are of no concern to other threads.
Completion(t) ==
  /\ At(t, "completion") /\ flying_transfers_lock = None /\ ~Locked(subject[t].of)
  /\ remove_from_flying_list(subject[t].of)
  /\ LET x == subject[t].of
     IN transfer' = [transfer EXCEPT ![x].state_flags = @ \ {"IN_FLIGHT"}, ![x].completed = TRUE,
                                     ![x].status = subject[t].status, ![x].calls = @ + 1]
  /\ Go(t, "reap") /\ subject' = [subject EXCEPT ![t] = NoSubject]
  /\ UNCHANGED <<back, systime, reported, until, flying_transfers_lock, lockVars, eventVars,
                 urbs, worldVars>>

\* libusb_unlock_events, when all that was reported is dealt with.
UnlockEvents(t) ==
  /\ At(t, "unlock") \/ (At(t, "reap") /\ reported[t].ready = {})
  /\ event_handler_active' = FALSE /\ events_lock' = None
  /\ Go(t, "broadcast") /\ reported' = [reported EXCEPT ![t] = Nothing]
  /\ UNCHANGED <<back, systime, until, subject, listVars, event_waiters_lock, eventVars,
                 transferVars, worldVars>>

\* Where the thread goes when it has handled the events, or closed a handle.
Afterwards(t) ==
  IF transfer[t].result # None THEN "close"
  ELSE IF back[t] = "cancel" THEN "cancel" ELSE IF back[t] = "again" THEN "wait" ELSE "woken"

Broadcast(t) ==
  /\ At(t, "broadcast") /\ event_waiters_lock = None
  /\ pc' = [s \in Thread |-> IF s = t THEN Afterwards(t)
                             ELSE IF pc[s] = "waiting" THEN "woken" ELSE pc[s]]
  /\ back' = [back EXCEPT ![t] = "wait"]
  /\ UNCHANGED <<systime, reported, until, subject, listVars, lockVars, eventVars,
                 transferVars, worldVars>>

HandleEvents(t) ==
  \/ Poll(t) \/ PollTimesOut(t, OnTime(t)) \/ handle_event_trigger(t)
  \/ RemoveBroken(t) \/ Reap(t) \/ NothingToReap(t) \/ Disconnected(t)
  \/ Cancellation(t) \/ Completion(t)
  \/ UnlockEvents(t) \/ Broadcast(t)

-----------------------------------------------------------------------------
\* libusb_close of the handles the thread has to close. Another thread's
\* handle is closed whenever its transfer has been submitted, finished or not.
ToClose(t) ==
  {h \in open : setup.closer[h] = t /\ (h = t \/ pc[h] \notin {"submit", "backend", "unsubmit", "wait"})}

AnnounceClose(t) ==
  /\ At(t, "close") /\ ToClose(t) # {}
  /\ device_close' = device_close + 1
  /\ IF device_close = 0 THEN Notify("DEVICE_CLOSE")
     ELSE event_flags' = event_flags /\ signalled' = (signalled \/ event_flags = {})
  /\ subject' = [subject EXCEPT ![t].of = CHOOSE h \in ToClose(t) : TRUE]
  /\ Go(t, "lock_events")
  /\ UNCHANGED <<back, systime, reported, until, listVars, lockVars, event_sources, event_data,
                 transferVars, worldVars>>

LockEvents_Busy(t) ==
  /\ At(t, "lock_events")
  /\ events_lock' = t /\ event_handler_active' = TRUE
  /\ Go(t, "do_close")
  /\ UNCHANGED <<back, systime, reported, until, subject, listVars, event_waiters_lock, eventVars,
                 transferVars, worldVars>>

LockEvents(t) ==
  /\ At(t, "lock_events") /\ events_lock = None
  /\ events_lock' = t /\ event_handler_active' = TRUE
  /\ Go(t, "do_close")
  /\ UNCHANGED <<back, systime, reported, until, subject, listVars, event_waiters_lock, eventVars,
                 transferVars, worldVars>>

\* A transfer of the handle is taken off the list and loses its handle; the
\* descriptor leaves the sources and is closed, and the kernel forgets its URBs.
DoClose(t) ==
  /\ At(t, "do_close") /\ flying_transfers_lock = None
  /\ LET h == subject[t].of
     IN /\ IF h \in ToSet(flying_transfers)
           THEN /\ ~Locked(h)
                /\ flying_transfers' = list_del(flying_transfers, h)
                /\ transfer' = [transfer EXCEPT ![h].handle = FALSE]
           ELSE UNCHANGED <<flying_transfers, transfer>>
        /\ IF h \in event_sources
           THEN event_sources' = event_sources \ {h} /\ Notify("SOURCES_MODIFIED")
           ELSE UNCHANGED <<event_sources, event_flags, signalled>>
        /\ open' = open \ {h} /\ urbs' = [urbs EXCEPT ![h] = Forgotten(@)]
  /\ Go(t, "closed")
  /\ UNCHANGED <<back, systime, reported, until, subject, flying_transfers_lock, timer, lockVars,
                 device_close, event_data, setup, now, gone, mishaps>>

Closed(t) ==
  /\ At(t, "closed")
  /\ device_close' = device_close - 1
  /\ event_flags' = IF device_close' = 0 THEN event_flags \ {"DEVICE_CLOSE"} ELSE event_flags
  /\ signalled' = (signalled /\ event_flags' # {})
  /\ Go(t, "unlock") /\ subject' = [subject EXCEPT ![t] = NoSubject]
  /\ UNCHANGED <<back, systime, reported, until, listVars, lockVars, event_sources, event_data,
                 transferVars, worldVars>>

AllClosed(t) ==
  /\ At(t, "close") /\ \A h \in open : setup.closer[h] # t
  /\ Go(t, "end")
  /\ UNCHANGED <<back, systime, reported, until, subject, listVars, lockVars, eventVars,
                 transferVars, worldVars>>

Close(t) ==
  \/ AnnounceClose(t) \/ LockEvents(t) \/ DoClose(t) \/ Closed(t) \/ AllClosed(t)

-----------------------------------------------------------------------------
\* The rest of the world: the devices, the kernel, the clock, the application.
DeviceAnswers(h) ==
  /\ h \in open \ gone
  /\ \/ /\ \E u \in Completions(urbs[h]) : urbs' = [urbs EXCEPT ![h] = u]
        /\ mishaps' = mishaps
     \/ /\ \E u \in Errors(urbs[h]) : urbs' = [urbs EXCEPT ![h] = u]
        /\ Mishap("error", h)
  /\ UNCHANGED <<threadVars, listVars, lockVars, eventVars, transfer, world>>

Unplugged(h) ==
  /\ h \in open \ gone /\ ~Locked(h) /\ Mishap("unplugged", h)
  /\ gone' = gone \cup {h} /\ urbs' = [urbs EXCEPT ![h] = ShutDown(@)]
  /\ UNCHANGED <<threadVars, listVars, lockVars, eventVars, transfer, setup, now, open>>

\* libusb_interrupt_event_handler, by the application, of a thread that sleeps.
Interrupt(t) ==
  /\ At(t, "poll") \/ At(t, "waiting")
  /\ Mishap("interrupt", t) /\ Notify("USER_INTERRUPT")
  /\ UNCHANGED <<threadVars, listVars, lockVars, device_close, event_sources, event_data,
                 transferVars, world>>

Tick ==
  /\ TimeoutsToCome
  /\ now' = now + 1
  /\ UNCHANGED <<threadVars, listVars, lockVars, eventVars, transferVars, setup,
                 open, gone, mishaps>>

Finished == (\A t \in Thread : At(t, "end")) /\ UNCHANGED vars

Step(t) ==
  \/ Submit(t) \/ BackendSubmits(t) \/ BackendRefuses(t) \/ Unsubmit(t)
  \/ HandleTimeouts(t) \/ Return(t) \/ GiveUp(t) \/ NextTimeout(t) \/ Try(t) \/ TryLock(t) \/ Waiters(t)
  \/ WaitOrRetry(t) \/ WaitTimesOut(t) \/ HandleEvents(t) \/ Close(t)

Late(t) == PollTimesOut(t, AfterAMinute(t))

Next ==
  \/ \E t \in Thread : Step(t) \/ Late(t) \/ NoMemory(t) \/ HandlingFails(t)
  \/ \E t \in Thread : DeviceAnswers(t) \/ Unplugged(t) \/ Interrupt(t)
  \/ Tick \/ Finished

\* Every thread runs and time passes. A device need not answer.
Fairness == WF_vars(Tick) /\ \A t \in Thread : WF_vars(Step(t) \/ Late(t))

Spec == Init /\ [][Next]_vars /\ Fairness
-----------------------------------------------------------------------------
TypeOK ==
  /\ subject \in [Thread -> [of : Thread \cup {None}, status : Statuses]]
  /\ \A t \in Thread : reported[t].ready \subseteq Thread /\ until[t] \in Nat /\ systime[t] \in Nat
  /\ {flying_transfers_lock, events_lock, event_waiters_lock} \subseteq Thread \cup {None}
  /\ device_close \in 0 .. Cardinality(Thread)
  /\ event_flags \subseteq {"SOURCES_MODIFIED", "DEVICE_CLOSE", "USER_INTERRUPT"}
  /\ \A x \in Thread :
       /\ transfer[x].state_flags \subseteq {"IN_FLIGHT", "CANCELLING", "DEVICE_DISAPPEARED"}
       /\ transfer[x].timeout_flags \subseteq {"HANDLED", "TIMED_OUT"}
       /\ transfer[x].result \in Statuses \cup {None, "refused"}
       /\ Range(urbs[x].state) \subseteq UrbStates /\ urbs[x].reap_action \in Actions
       /\ urbs[x].num_retired \in 0 .. Number(urbs[x]) /\ urbs[x].transferred \in 0 .. Number(urbs[x])

\* The event is signalled exactly while some flag is up, and the flag of a close
\* while somebody closes: no one polls through a close or a change of the
\* sources, and no one spins on a stale event.
EventSignalled ==
  /\ signalled <=> event_flags # {}
  /\ "DEVICE_CLOSE" \in event_flags <=> device_close # 0
  /\ device_close = Cardinality({t \in Thread : pc[t] \in {"lock_events", "do_close", "closed"}})

\* What is in flight is on the list, once, and the list is in the order of the
\* deadlines, so that the first that has not expired ends the search.
FlyingInOrder ==
  /\ \A x \in Thread :
       "IN_FLIGHT" \in transfer[x].state_flags /\ transfer[x].handle => x \in ToSet(flying_transfers)
  /\ \A i, j \in DOMAIN flying_transfers :
       i < j => LET d == transfer[flying_transfers[i]].deadline
                    e == transfer[flying_transfers[j]].deadline
                IN flying_transfers[i] # flying_transfers[j] /\ (e = 0 \/ (d # 0 /\ d <= e))

\* The timer is set for the first timeout to be handled, or an expired transfer
\* is at the head of the list, and the timer is set when that is taken off.
TimerSet ==
  setup.using_timer /\ flying_transfers_lock = None /\ FirstTimeout(flying_transfers) # 0
    => Handled(Head(flying_transfers)) \/ timer \in 1 .. FirstTimeout(flying_transfers)

\* A transfer that is over reports all the data the device moved for it, in
\* order and without holes, whatever cancelled it, and no URB of it is left.
DataKept ==
  \A x \in Thread : transfer[x].calls > 0 =>
    /\ Pending(urbs[x]) = {} /\ urbs[x].queue = <<>>
    /\ \/ transfer[x].status = "NO_DEVICE" /\ ~setup.reap_after_disconnect
       \/ urbs[x].transferred = urbs[x].sent /\ \A k \in 1 .. urbs[x].sent : urbs[x].buffer[k] = k

\* A transfer is cancelled by its timeout or by its caller, who gives up when
\* handling events fails, and its status says by which, whoever was quicker.
TimeoutReported ==
  \A x \in Thread :
    IF transfer[x].given_up THEN "TIMED_OUT" \notin {transfer[x].status, transfer[x].result}
    ELSE "CANCELLED" \notin {transfer[x].status, transfer[x].result}

\* A transfer is called back once, and neither after its handle was closed nor
\* when its submission fails.
CalledOnce ==
  \A x \in Thread :
    transfer[x].calls <= IF transfer[x].handle /\ pc[x] \notin {"backend", "unsubmit"} THEN 1 ELSE 0

\* The event handler polls and completes on open handles only.
HandlesOpen ==
  \A t \in Thread :
    /\ pc[t] = "poll" => event_data \subseteq open
    /\ pc[t] \in {"cancellation", "completion"} => subject[t].of \in open

\* When everyone sleeps, nobody has anything to wake up for.
NoLostWakeup ==
  (\A t \in Thread : Asleep(t)) =>
    \A t \in Thread : ~At(t, "end") /\ transfer[t].handle =>
      ~transfer[t].completed /\ transfer[t].deadline \notin 1 .. now

\* Transfers with a timeout end, and every handle gets closed.
EveryoneReturns == (\A t \in Thread : Timeout[t] # 0) => <>(\A t \in Thread : At(t, "end"))
=============================================================================
