---------------------------- MODULE UsbEvents_proofs ----------------------------
(***************************************************************************)
(* What holds of every run of the event handling, for any number of        *)
(* threads, URBs and timeouts, whoever closes which handle, and whatever   *)
(* the device, the kernel and the clock do.                                *)
(***************************************************************************)
EXTENDS UsbEvents, Usbfs_proofs

(***************************************************************************)
(* Sequences.                                                              *)
(***************************************************************************)

\* InsertAt, element by element.
LEMMA Inserted ==
  ASSUME NEW S, NEW list \in Seq(S), NEW x \in S, NEW at \in 1 .. Len(list) + 1
  PROVE  /\ InsertAt(list, at, x) \in Seq(S) /\ Len(InsertAt(list, at, x)) = Len(list) + 1
         /\ \A i \in 1 .. Len(list) + 1 :
              InsertAt(list, at, x)[i] = IF i < at THEN list[i] ELSE IF i = at THEN x ELSE list[i - 1]
<1> DEFINE before == SubSeq(list, 1, at - 1)
           after == SubSeq(list, at, Len(list))
<1>1. /\ before \in Seq(S) /\ Len(before) = at - 1
      /\ \A i \in 1 .. at - 1 : before[i] = list[i]
  OBVIOUS
<1>2. /\ after \in Seq(S) /\ Len(after) = Len(list) - at + 1
      /\ \A i \in 1 .. Len(list) - at + 1 : after[i] = list[at + i - 1]
  OBVIOUS
<1> HIDE DEF before, after
<1> DEFINE most == before \o <<x>>
<1>3. /\ most \in Seq(S) /\ Len(most) = at
      /\ \A i \in 1 .. at : most[i] = IF i < at THEN list[i] ELSE x
  BY <1>1
<1> HIDE DEF most
<1>4. /\ most \o after \in Seq(S) /\ Len(most \o after) = Len(list) + 1
      /\ \A i \in 1 .. Len(list) + 1 :
           (most \o after)[i] = IF i < at THEN list[i] ELSE IF i = at THEN x ELSE list[i - 1]
  <2>1. /\ most \o after \in Seq(S) /\ Len(most \o after) = at + (Len(list) - at + 1)
        /\ \A i \in 1 .. at + (Len(list) - at + 1) :
             (most \o after)[i] = IF i <= at THEN most[i] ELSE after[i - at]
    <3>1. /\ most \o after \in Seq(S) /\ Len(most \o after) = Len(most) + Len(after)
          /\ \A i \in 1 .. Len(most) + Len(after) :
               (most \o after)[i] = IF i <= Len(most) THEN most[i] ELSE after[i - Len(most)]
      BY <1>2, <1>3, ConcatProperties
    <3> QED BY <1>2, <1>3, <3>1
  <2>2. at + (Len(list) - at + 1) = Len(list) + 1
    OBVIOUS
  <2>3. \A i \in 1 .. Len(list) + 1 : i > at => i - at \in 1 .. Len(list) - at + 1 /\ at + (i - at) - 1 = i - 1
    OBVIOUS
  <2> QED BY <1>2, <1>3, <2>1, <2>2, <2>3
<1> QED BY <1>4 DEF InsertAt, most, before, after

\* RemoveAt, element by element.
LEMMA Removed ==
  ASSUME NEW S, NEW list \in Seq(S), NEW at \in 1 .. Len(list)
  PROVE  LET new == RemoveAt(list, at)
         IN /\ new \in Seq(S) /\ Len(new) = Len(list) - 1
            /\ \A i \in 1 .. Len(list) - 1 : new[i] = IF i < at THEN list[i] ELSE list[i + 1]
<1> DEFINE before == SubSeq(list, 1, at - 1)
           after == SubSeq(list, at + 1, Len(list))
<1>1. /\ before \in Seq(S) /\ Len(before) = at - 1
      /\ \A i \in 1 .. at - 1 : before[i] = list[i]
  OBVIOUS
<1>2. /\ after \in Seq(S) /\ Len(after) = Len(list) - at
      /\ \A i \in 1 .. Len(list) - at : after[i] = list[at + i]
  OBVIOUS
<1> HIDE DEF before, after
<1>3. /\ before \o after \in Seq(S) /\ Len(before \o after) = Len(list) - 1
      /\ \A i \in 1 .. Len(list) - 1 : (before \o after)[i] = IF i < at THEN list[i] ELSE list[i + 1]
  <2>1. /\ before \o after \in Seq(S) /\ Len(before \o after) = (at - 1) + (Len(list) - at)
        /\ \A i \in 1 .. (at - 1) + (Len(list) - at) :
             (before \o after)[i] = IF i <= at - 1 THEN before[i] ELSE after[i - (at - 1)]
    <3>1. /\ before \o after \in Seq(S) /\ Len(before \o after) = Len(before) + Len(after)
          /\ \A i \in 1 .. Len(before) + Len(after) :
               (before \o after)[i] = IF i <= Len(before) THEN before[i] ELSE after[i - Len(before)]
      BY <1>1, <1>2, ConcatProperties
    <3> QED BY <1>1, <1>2, <3>1
  <2>2. (at - 1) + (Len(list) - at) = Len(list) - 1
    OBVIOUS
  <2>3. \A i \in 1 .. Len(list) - 1 :
          ~(i < at) => i - (at - 1) \in 1 .. Len(list) - at /\ at + (i - (at - 1)) = i + 1
    OBVIOUS
  <2> QED BY <1>1, <1>2, <2>1, <2>2, <2>3
<1> QED BY <1>3 DEF RemoveAt, before, after

\* A place x has in a list, if it is on it.
LEMMA PlaceOf ==
  ASSUME NEW S, NEW list \in Seq(S), NEW x
  PROVE  x \in ToSet(list) <=> \E i \in 1 .. Len(list) : list[i] = x
BY DEF ToSet

\* list_del, element by element.
LEMMA Deleted ==
  ASSUME NEW S, NEW list \in Seq(S), NEW x
  PROVE  /\ list_del(list, x) \in Seq(S)
         /\ x \notin ToSet(list) => list_del(list, x) = list
         /\ x \in ToSet(list) =>
              \E at \in 1 .. Len(list) :
                /\ list[at] = x
                /\ Len(list_del(list, x)) = Len(list) - 1
                /\ \A i \in 1 .. Len(list) - 1 :
                     list_del(list, x)[i] = IF i < at THEN list[i] ELSE list[i + 1]
<1> DEFINE at == CHOOSE i \in DOMAIN list : list[i] = x
<1>1. CASE x \notin ToSet(list)
  BY <1>1 DEF list_del
<1>2. CASE x \in ToSet(list)
  <2>1. at \in 1 .. Len(list) /\ list[at] = x
    BY <1>2, PlaceOf
  <2>2. list_del(list, x) = RemoveAt(list, at)
    BY <1>2 DEF list_del
  <2> HIDE DEF at
  <2>3. LET new == RemoveAt(list, at)
        IN /\ new \in Seq(S) /\ Len(new) = Len(list) - 1
           /\ \A i \in 1 .. Len(list) - 1 : new[i] = IF i < at THEN list[i] ELSE list[i + 1]
    BY <2>1, Removed
  <2> QED BY <1>2, <2>1, <2>2, <2>3
<1> QED BY <1>1, <1>2

(***************************************************************************)
(* The variables' types.                                                   *)
(***************************************************************************)
HandlerLabels == {"poll", "events", "reap", "cancellation", "completion", "unlock"}
CloserLabels  == {"lock_events", "do_close", "closed"}
TimeoutLabels == {"lock_flying", "timeouts", "timed_out"}
EarlyLabels   == {"submit", "backend", "unsubmit"}
Labels ==
  HandlerLabels \cup CloserLabels \cup TimeoutLabels \cup EarlyLabels
    \cup {"wait", "woken", "try", "trylock", "waiters", "active", "waiting", "again", "cancel", "broadcast", "close", "end"}

Reports == [event : BOOLEAN, timer : BOOLEAN, ready : SUBSET Thread, error : SUBSET Thread]

ThreadType ==
  /\ pc \in [Thread -> Labels]
  /\ back \in [Thread -> {"wait", "woken", "reap", "unlock", "cancel", "again"}]
  /\ subject \in [Thread -> [of : Thread \cup {None}, status : Statuses]]
  /\ reported \in [Thread -> Reports]
  /\ until \in [Thread -> Nat] /\ systime \in [Thread -> Nat]

Transfers ==
  [state_flags : SUBSET {"IN_FLIGHT", "CANCELLING", "DEVICE_DISAPPEARED"},
   timeout_flags : SUBSET {"HANDLED", "TIMED_OUT"}, deadline : Nat, handle : BOOLEAN,
   completed : BOOLEAN, calls : Nat, status : Statuses, result : Statuses \cup {None, "refused"},
   given_up : BOOLEAN]

Flags == {"SOURCES_MODIFIED", "DEVICE_CLOSE", "USER_INTERRUPT"}

ContextType ==
  /\ flying_transfers \in Seq(Thread) /\ timer \in Nat
  /\ flying_transfers_lock \in Thread \cup {None}
  /\ events_lock \in Thread \cup {None} /\ event_waiters_lock \in Thread \cup {None}
  /\ event_handler_active \in BOOLEAN
  /\ device_close \in Int /\ signalled \in BOOLEAN
  /\ event_flags \in SUBSET Flags
  /\ event_sources \in SUBSET Thread /\ event_data \in SUBSET Thread

WorldType ==
  setup \in Setups /\ now \in Nat \ {0} /\ open \in SUBSET Thread /\ gone \in SUBSET Thread

InFlight(x) == "IN_FLIGHT" \in transfer[x].state_flags

UrbsSound ==
  /\ DOMAIN urbs = Thread
  /\ \A x \in Thread : Sound(urbs[x], setup.num_urbs[x])

\* Nobody touches a transfer that is not submitted yet.
EarlyFresh == \A x \in Thread : pc[x] \in EarlyLabels => ~InFlight(x) /\ Fresh(urbs[x])

\* Who is dealing with a transfer or a handle knows which.
Subjects ==
  \A t \in Thread : pc[t] \in CloserLabels \cup {"timed_out", "cancellation", "completion"} =>
    subject[t].of \in Thread

TransferType == transfer \in [Thread -> Transfers]

Types == ThreadType /\ ContextType /\ WorldType /\ TransferType /\ UrbsSound /\ EarlyFresh /\ Subjects

-----------------------------------------------------------------------------
\* The number of URBs is one.
LEMMA NumUrbs ==
  ASSUME NEW s \in Setups, NEW x \in Thread
  PROVE  s.num_urbs[x] \in Nat
BY EventsAssumption

\* The next timeout is a deadline of a transfer on the list, or 0.
LEMMA FirstTimeoutType ==
  ASSUME TransferType, NEW list \in Seq(Thread)
  PROVE  /\ FirstTimeout(list) \in Nat
         /\ ToHandle(list) # {} => Min(ToHandle(list)) \in 1 .. Len(list) /\ Min(ToHandle(list)) \in ToHandle(list)
                                   /\ \A j \in ToHandle(list) : Min(ToHandle(list)) <= j
         /\ FirstTimeout(list) # 0 => ToHandle(list) # {} /\ list[Min(ToHandle(list))] \in Thread
<1>1. ToHandle(list) \in SUBSET (1 .. Len(list)) /\ ToHandle(list) \in SUBSET Nat
  BY DEF ToHandle
<1>2. ASSUME ToHandle(list) # {}
      PROVE  /\ Min(ToHandle(list)) \in 1 .. Len(list) /\ Min(ToHandle(list)) \in ToHandle(list)
             /\ \A j \in ToHandle(list) : Min(ToHandle(list)) <= j
  BY <1>1, <1>2, MinIn
<1>3. CASE ToHandle(list) = {}
  BY <1>3 DEF FirstTimeout
<1>4. CASE ToHandle(list) # {}
  <2>1. list[Min(ToHandle(list))] \in Thread
    BY <1>2, <1>4
  <2>2. transfer[list[Min(ToHandle(list))]].deadline \in Nat
    BY <2>1 DEF TransferType, Transfers
  <2> QED BY <1>2, <1>4, <2>1, <2>2 DEF FirstTimeout
<1> QED BY <1>3, <1>4

\* What has expired is on the list.
LEMMA ExpiredOnList ==
  ASSUME Types, NEW t \in Thread, NEW x \in Expired(t)
  PROVE  x \in Thread /\ x \in ToSet(flying_transfers)
<1>1. flying_transfers \in Seq(Thread) /\ systime[t] \in Nat /\ TransferType
  BY DEF Types, ContextType, ThreadType
<1>2. FirstTimeout(flying_transfers) # 0 /\ x = flying_transfers[Min(ToHandle(flying_transfers))]
  BY <1>1 DEF Expired
<1>3. Min(ToHandle(flying_transfers)) \in 1 .. Len(flying_transfers) /\ x \in Thread
  BY <1>1, <1>2, FirstTimeoutType
<1> QED BY <1>1, <1>2, <1>3, PlaceOf

(***************************************************************************)
(* What a step changes: one fact for each variable, so that the invariant  *)
(* of a variable is proved over the actions that touch it.                 *)
(***************************************************************************)

\* A step of the system is one of these, or leaves everything as it is.
LEMMA Steps ==
  ASSUME [Next]_vars
  PROVE  \/ \E t \in Thread : 
              \/ Submit(t) \/ BackendSubmits(t) \/ BackendRefuses(t) \/ Unsubmit(t)
              \/ LockFlying(t) \/ HandleTimeout(t) \/ TimedOut(t) \/ TimeoutsHandled(t)
              \/ Return(t) \/ GiveUp(t) \/ NextTimeout(t) \/ Try(t) \/ TryLock(t) \/ NoMemory(t) \/ Waiters(t)
              \/ WaitOrRetry(t) \/ WaitTimesOut(t) \/ Poll(t) \/ (\E late : PollTimesOut(t, late)) \/ handle_event_trigger(t)
              \/ HandlingFails(t) \/ RemoveBroken(t) \/ Reap(t) \/ NothingToReap(t) \/ Disconnected(t)
              \/ Cancellation(t) \/ Completion(t) \/ UnlockEvents(t) \/ Broadcast(t)
              \/ AnnounceClose(t) \/ LockEvents(t) \/ DoClose(t) \/ Closed(t) \/ AllClosed(t)
              \/ DeviceAnswers(t) \/ Unplugged(t) \/ Interrupt(t)
         \/ Tick \/ UNCHANGED vars
BY DEF Next, Step, HandleTimeouts, HandleEvents, Close, Late, Finished

\* Who changes a transfer.
LEMMA TransferChanges ==
  ASSUME [Next]_vars
  PROVE  \/ UNCHANGED transfer
         \/ \E t \in Thread : \/ Submit(t) \/ BackendSubmits(t) \/ Unsubmit(t)
                               \/ HandleTimeout(t) \/ TimedOut(t) \/ Return(t) \/ Completion(t)
                               \/ DoClose(t)
                               \/ GiveUp(t)
<1>1. ASSUME NEW t \in Thread,
             \/ BackendRefuses(t) \/ LockFlying(t) \/ TimeoutsHandled(t) \/ NextTimeout(t)
             \/ Try(t) \/ TryLock(t) \/ Waiters(t) \/ WaitOrRetry(t) \/ WaitTimesOut(t)
             \/ Poll(t) \/ (\E late : PollTimesOut(t, late)) \/ handle_event_trigger(t)
             \/ RemoveBroken(t) \/ Reap(t) \/ NothingToReap(t) \/ Disconnected(t)
             \/ Cancellation(t) \/ UnlockEvents(t) \/ Broadcast(t) \/ AnnounceClose(t)
             \/ LockEvents(t) \/ Closed(t) \/ AllClosed(t) \/ DeviceAnswers(t) \/ Unplugged(t)
             \/ Interrupt(t)
             \/ NoMemory(t) \/ HandlingFails(t)
      PROVE  UNCHANGED transfer
  BY <1>1 DEF transferVars, BackendRefuses, LockFlying, TimeoutsHandled, NextTimeout, Try,
    TryLock, Waiters, WaitOrRetry, WaitTimesOut, Poll, PollTimesOut, handle_event_trigger,
    RemoveBroken, Reap, NothingToReap, Disconnected, Cancellation, UnlockEvents, Broadcast,
    AnnounceClose, LockEvents, Closed, AllClosed, DeviceAnswers, Unplugged, Interrupt,
    NoMemory, HandlingFails
<1>2. CASE Tick \/ UNCHANGED vars
  BY <1>2 DEF Tick, transferVars, vars
<1> QED BY <1>1, <1>2, Steps

\* Who changes URBs.
LEMMA UrbChanges ==
  ASSUME [Next]_vars
  PROVE  \/ UNCHANGED urbs
         \/ \E t \in Thread : \/ BackendSubmits(t) \/ HandleTimeout(t) \/ Return(t) \/ Reap(t)
                               \/ Disconnected(t) \/ DoClose(t) \/ DeviceAnswers(t)
                               \/ Unplugged(t)
                               \/ GiveUp(t)
<1>1. ASSUME NEW t \in Thread,
             \/ Submit(t) \/ BackendRefuses(t) \/ Unsubmit(t) \/ LockFlying(t) \/ TimedOut(t)
             \/ TimeoutsHandled(t) \/ NextTimeout(t) \/ Try(t) \/ TryLock(t) \/ Waiters(t)
             \/ WaitOrRetry(t) \/ WaitTimesOut(t) \/ Poll(t)
             \/ (\E late : PollTimesOut(t, late)) \/ handle_event_trigger(t) \/ RemoveBroken(t)
             \/ NothingToReap(t) \/ Cancellation(t) \/ Completion(t) \/ UnlockEvents(t)
             \/ Broadcast(t) \/ AnnounceClose(t) \/ LockEvents(t) \/ Closed(t) \/ AllClosed(t)
             \/ Interrupt(t)
             \/ NoMemory(t) \/ HandlingFails(t)
      PROVE  UNCHANGED urbs
  BY <1>1 DEF transferVars, Submit, BackendRefuses, Unsubmit, LockFlying, TimedOut,
    TimeoutsHandled, NextTimeout, Try, TryLock, Waiters, WaitOrRetry, WaitTimesOut, Poll,
    PollTimesOut, handle_event_trigger, RemoveBroken, NothingToReap, Cancellation,
    Completion, UnlockEvents, Broadcast, AnnounceClose, LockEvents, Closed, AllClosed,
    Interrupt,
    NoMemory, HandlingFails
<1>2. CASE Tick \/ UNCHANGED vars
  BY <1>2 DEF Tick, transferVars, vars
<1> QED BY <1>1, <1>2, Steps

\* Who changes the list.
LEMMA ListChanges ==
  ASSUME [Next]_vars
  PROVE  \/ UNCHANGED flying_transfers
         \/ \E t \in Thread : \/ Submit(t) \/ Unsubmit(t) \/ Completion(t) \/ DoClose(t)
<1>1. ASSUME NEW t \in Thread,
             \/ BackendSubmits(t) \/ BackendRefuses(t) \/ LockFlying(t) \/ HandleTimeout(t)
             \/ TimedOut(t) \/ TimeoutsHandled(t) \/ Return(t) \/ NextTimeout(t) \/ Try(t)
             \/ TryLock(t) \/ Waiters(t) \/ WaitOrRetry(t) \/ WaitTimesOut(t) \/ Poll(t)
             \/ (\E late : PollTimesOut(t, late)) \/ handle_event_trigger(t) \/ RemoveBroken(t)
             \/ Reap(t) \/ NothingToReap(t) \/ Disconnected(t) \/ Cancellation(t)
             \/ UnlockEvents(t) \/ Broadcast(t) \/ AnnounceClose(t) \/ LockEvents(t)
             \/ Closed(t) \/ AllClosed(t) \/ DeviceAnswers(t) \/ Unplugged(t) \/ Interrupt(t)
             \/ GiveUp(t) \/ NoMemory(t) \/ HandlingFails(t)
      PROVE  UNCHANGED flying_transfers
  BY <1>1 DEF listVars, BackendSubmits, BackendRefuses, LockFlying, HandleTimeout,
    TimedOut, TimeoutsHandled, Return, NextTimeout, Try, TryLock, Waiters, WaitOrRetry,
    WaitTimesOut, Poll, PollTimesOut, handle_event_trigger, RemoveBroken, Reap,
    NothingToReap, Disconnected, Cancellation, UnlockEvents, Broadcast, AnnounceClose,
    LockEvents, Closed, AllClosed, DeviceAnswers, Unplugged, Interrupt,
    GiveUp, NoMemory, HandlingFails
<1>2. CASE Tick \/ UNCHANGED vars
  BY <1>2 DEF Tick, listVars, vars
<1> QED BY <1>1, <1>2, Steps

\* Who sets the timer.
LEMMA TimerChanges ==
  ASSUME [Next]_vars
  PROVE  \/ UNCHANGED timer
         \/ \E t \in Thread : \/ Submit(t) \/ Unsubmit(t) \/ TimeoutsHandled(t)
                               \/ Completion(t)
<1>1. ASSUME NEW t \in Thread,
             \/ BackendSubmits(t) \/ BackendRefuses(t) \/ LockFlying(t) \/ HandleTimeout(t)
             \/ TimedOut(t) \/ Return(t) \/ NextTimeout(t) \/ Try(t) \/ TryLock(t)
             \/ Waiters(t) \/ WaitOrRetry(t) \/ WaitTimesOut(t) \/ Poll(t)
             \/ (\E late : PollTimesOut(t, late)) \/ handle_event_trigger(t) \/ RemoveBroken(t)
             \/ Reap(t) \/ NothingToReap(t) \/ Disconnected(t) \/ Cancellation(t)
             \/ UnlockEvents(t) \/ Broadcast(t) \/ AnnounceClose(t) \/ LockEvents(t)
             \/ DoClose(t) \/ Closed(t) \/ AllClosed(t) \/ DeviceAnswers(t) \/ Unplugged(t)
             \/ Interrupt(t)
             \/ GiveUp(t) \/ NoMemory(t) \/ HandlingFails(t)
      PROVE  UNCHANGED timer
  BY <1>1 DEF listVars, BackendSubmits, BackendRefuses, LockFlying, HandleTimeout,
    TimedOut, Return, NextTimeout, Try, TryLock, Waiters, WaitOrRetry, WaitTimesOut, Poll,
    PollTimesOut, handle_event_trigger, RemoveBroken, Reap, NothingToReap, Disconnected,
    Cancellation, UnlockEvents, Broadcast, AnnounceClose, LockEvents, DoClose, Closed,
    AllClosed, DeviceAnswers, Unplugged, Interrupt,
    GiveUp, NoMemory, HandlingFails
<1>2. CASE Tick \/ UNCHANGED vars
  BY <1>2 DEF Tick, listVars, vars
<1> QED BY <1>1, <1>2, Steps

\* Who takes or leaves the lock of the list.
LEMMA ListLockChanges ==
  ASSUME [Next]_vars
  PROVE  \/ UNCHANGED flying_transfers_lock
         \/ \E t \in Thread : \/ LockFlying(t) \/ TimeoutsHandled(t)
<1>1. ASSUME NEW t \in Thread,
             \/ Submit(t) \/ BackendSubmits(t) \/ BackendRefuses(t) \/ Unsubmit(t)
             \/ HandleTimeout(t) \/ TimedOut(t) \/ Return(t) \/ NextTimeout(t) \/ Try(t)
             \/ TryLock(t) \/ Waiters(t) \/ WaitOrRetry(t) \/ WaitTimesOut(t) \/ Poll(t)
             \/ (\E late : PollTimesOut(t, late)) \/ handle_event_trigger(t) \/ RemoveBroken(t)
             \/ Reap(t) \/ NothingToReap(t) \/ Disconnected(t) \/ Cancellation(t)
             \/ Completion(t) \/ UnlockEvents(t) \/ Broadcast(t) \/ AnnounceClose(t)
             \/ LockEvents(t) \/ DoClose(t) \/ Closed(t) \/ AllClosed(t) \/ DeviceAnswers(t)
             \/ Unplugged(t) \/ Interrupt(t)
             \/ GiveUp(t) \/ NoMemory(t) \/ HandlingFails(t)
      PROVE  UNCHANGED flying_transfers_lock
  BY <1>1 DEF listVars, Submit, BackendSubmits, BackendRefuses, Unsubmit, HandleTimeout,
    TimedOut, Return, NextTimeout, Try, TryLock, Waiters, WaitOrRetry, WaitTimesOut, Poll,
    PollTimesOut, handle_event_trigger, RemoveBroken, Reap, NothingToReap, Disconnected,
    Cancellation, Completion, UnlockEvents, Broadcast, AnnounceClose, LockEvents, DoClose,
    Closed, AllClosed, DeviceAnswers, Unplugged, Interrupt,
    GiveUp, NoMemory, HandlingFails
<1>2. CASE Tick \/ UNCHANGED vars
  BY <1>2 DEF Tick, listVars, vars
<1> QED BY <1>1, <1>2, Steps

\* Who takes or leaves the event lock.
LEMMA EventLockChanges ==
  ASSUME [Next]_vars
  PROVE  \/ UNCHANGED <<events_lock, event_handler_active>>
         \/ \E t \in Thread : \/ TryLock(t) \/ UnlockEvents(t) \/ LockEvents(t)
                               \/ NoMemory(t)
<1>1. ASSUME NEW t \in Thread,
             \/ Submit(t) \/ BackendSubmits(t) \/ BackendRefuses(t) \/ Unsubmit(t)
             \/ LockFlying(t) \/ HandleTimeout(t) \/ TimedOut(t) \/ TimeoutsHandled(t)
             \/ Return(t) \/ NextTimeout(t) \/ Try(t) \/ Waiters(t) \/ WaitOrRetry(t)
             \/ WaitTimesOut(t) \/ Poll(t) \/ (\E late : PollTimesOut(t, late))
             \/ handle_event_trigger(t) \/ RemoveBroken(t) \/ Reap(t) \/ NothingToReap(t)
             \/ Disconnected(t) \/ Cancellation(t) \/ Completion(t) \/ Broadcast(t)
             \/ AnnounceClose(t) \/ DoClose(t) \/ Closed(t) \/ AllClosed(t) \/ DeviceAnswers(t)
             \/ Unplugged(t) \/ Interrupt(t)
             \/ GiveUp(t) \/ HandlingFails(t)
      PROVE  UNCHANGED <<events_lock, event_handler_active>>
  BY <1>1 DEF lockVars, Submit, BackendSubmits, BackendRefuses, Unsubmit, LockFlying,
    HandleTimeout, TimedOut, TimeoutsHandled, Return, NextTimeout, Try, Waiters,
    WaitOrRetry, WaitTimesOut, Poll, PollTimesOut, handle_event_trigger, RemoveBroken,
    Reap, NothingToReap, Disconnected, Cancellation, Completion, Broadcast, AnnounceClose,
    DoClose, Closed, AllClosed, DeviceAnswers, Unplugged, Interrupt,
    GiveUp, HandlingFails
<1>2. CASE Tick \/ UNCHANGED vars
  BY <1>2 DEF Tick, lockVars, vars
<1> QED BY <1>1, <1>2, Steps

\* Who takes or leaves the lock of the waiters.
LEMMA WaitersLockChanges ==
  ASSUME [Next]_vars
  PROVE  \/ UNCHANGED event_waiters_lock
         \/ \E t \in Thread : \/ Waiters(t) \/ WaitOrRetry(t)
<1>1. ASSUME NEW t \in Thread,
             \/ Submit(t) \/ BackendSubmits(t) \/ BackendRefuses(t) \/ Unsubmit(t)
             \/ LockFlying(t) \/ HandleTimeout(t) \/ TimedOut(t) \/ TimeoutsHandled(t)
             \/ Return(t) \/ NextTimeout(t) \/ Try(t) \/ TryLock(t) \/ WaitTimesOut(t)
             \/ Poll(t) \/ (\E late : PollTimesOut(t, late)) \/ handle_event_trigger(t)
             \/ RemoveBroken(t) \/ Reap(t) \/ NothingToReap(t) \/ Disconnected(t)
             \/ Cancellation(t) \/ Completion(t) \/ UnlockEvents(t) \/ Broadcast(t)
             \/ AnnounceClose(t) \/ LockEvents(t) \/ DoClose(t) \/ Closed(t) \/ AllClosed(t)
             \/ DeviceAnswers(t) \/ Unplugged(t) \/ Interrupt(t)
             \/ GiveUp(t) \/ NoMemory(t) \/ HandlingFails(t)
      PROVE  UNCHANGED event_waiters_lock
  BY <1>1 DEF lockVars, Submit, BackendSubmits, BackendRefuses, Unsubmit, LockFlying,
    HandleTimeout, TimedOut, TimeoutsHandled, Return, NextTimeout, Try, TryLock,
    WaitTimesOut, Poll, PollTimesOut, handle_event_trigger, RemoveBroken, Reap,
    NothingToReap, Disconnected, Cancellation, Completion, UnlockEvents, Broadcast,
    AnnounceClose, LockEvents, DoClose, Closed, AllClosed, DeviceAnswers, Unplugged,
    Interrupt,
    GiveUp, NoMemory, HandlingFails
<1>2. CASE Tick \/ UNCHANGED vars
  BY <1>2 DEF Tick, lockVars, vars
<1> QED BY <1>1, <1>2, Steps

\* Who changes the event and its flags.
LEMMA EventChanges ==
  ASSUME [Next]_vars
  PROVE  \/ UNCHANGED <<device_close, event_flags, signalled, event_data>>
         \/ \E t \in Thread : \/ TryLock(t) \/ handle_event_trigger(t) \/ RemoveBroken(t)
                               \/ AnnounceClose(t) \/ DoClose(t) \/ Closed(t) \/ Interrupt(t)
                               \/ NoMemory(t)
<1>1. ASSUME NEW t \in Thread,
             \/ Submit(t) \/ BackendSubmits(t) \/ BackendRefuses(t) \/ Unsubmit(t)
             \/ LockFlying(t) \/ HandleTimeout(t) \/ TimedOut(t) \/ TimeoutsHandled(t)
             \/ Return(t) \/ NextTimeout(t) \/ Try(t) \/ Waiters(t) \/ WaitOrRetry(t)
             \/ WaitTimesOut(t) \/ Poll(t) \/ (\E late : PollTimesOut(t, late)) \/ Reap(t)
             \/ NothingToReap(t) \/ Disconnected(t) \/ Cancellation(t) \/ Completion(t)
             \/ UnlockEvents(t) \/ Broadcast(t) \/ LockEvents(t) \/ AllClosed(t)
             \/ DeviceAnswers(t) \/ Unplugged(t)
             \/ GiveUp(t) \/ HandlingFails(t)
      PROVE  UNCHANGED <<device_close, event_flags, signalled, event_data>>
  BY <1>1 DEF eventVars, Submit, BackendSubmits, BackendRefuses, Unsubmit, LockFlying,
    HandleTimeout, TimedOut, TimeoutsHandled, Return, NextTimeout, Try, Waiters,
    WaitOrRetry, WaitTimesOut, Poll, PollTimesOut, Reap, NothingToReap, Disconnected,
    Cancellation, Completion, UnlockEvents, Broadcast, LockEvents, AllClosed,
    DeviceAnswers, Unplugged,
    GiveUp, HandlingFails
<1>2. CASE Tick \/ UNCHANGED vars
  BY <1>2 DEF Tick, eventVars, vars
<1> QED BY <1>1, <1>2, Steps

\* Who changes the sources and the list of descriptors.
LEMMA SourceChanges ==
  ASSUME [Next]_vars
  PROVE  \/ UNCHANGED event_sources
         \/ \E t \in Thread : \/ RemoveBroken(t) \/ DoClose(t)
<1>1. ASSUME NEW t \in Thread,
             \/ Submit(t) \/ BackendSubmits(t) \/ BackendRefuses(t) \/ Unsubmit(t)
             \/ LockFlying(t) \/ HandleTimeout(t) \/ TimedOut(t) \/ TimeoutsHandled(t)
             \/ Return(t) \/ NextTimeout(t) \/ Try(t) \/ TryLock(t) \/ Waiters(t)
             \/ WaitOrRetry(t) \/ WaitTimesOut(t) \/ Poll(t)
             \/ (\E late : PollTimesOut(t, late)) \/ handle_event_trigger(t) \/ Reap(t)
             \/ NothingToReap(t) \/ Disconnected(t) \/ Cancellation(t) \/ Completion(t)
             \/ UnlockEvents(t) \/ Broadcast(t) \/ AnnounceClose(t) \/ LockEvents(t)
             \/ Closed(t) \/ AllClosed(t) \/ DeviceAnswers(t) \/ Unplugged(t) \/ Interrupt(t)
             \/ GiveUp(t) \/ NoMemory(t) \/ HandlingFails(t)
      PROVE  UNCHANGED event_sources
  BY <1>1 DEF eventVars, PrepareEvents, Submit, BackendSubmits, BackendRefuses, Unsubmit,
    LockFlying, HandleTimeout, TimedOut, TimeoutsHandled, Return, NextTimeout, Try,
    TryLock, Waiters, WaitOrRetry, WaitTimesOut, Poll, PollTimesOut, handle_event_trigger,
    Reap, NothingToReap, Disconnected, Cancellation, Completion, UnlockEvents, Broadcast,
    AnnounceClose, LockEvents, Closed, AllClosed, DeviceAnswers, Unplugged, Interrupt,
    GiveUp, NoMemory, HandlingFails
<1>2. CASE Tick \/ UNCHANGED vars
  BY <1>2 DEF Tick, eventVars, vars
<1> QED BY <1>1, <1>2, Steps

\* Who changes what it notes.
LEMMA SubjectChanges ==
  ASSUME [Next]_vars
  PROVE  \/ UNCHANGED subject
         \/ \E t \in Thread : \/ HandleTimeout(t) \/ TimeoutsHandled(t) \/ Reap(t)
                               \/ Disconnected(t) \/ Cancellation(t) \/ Completion(t)
                               \/ AnnounceClose(t) \/ Closed(t)
<1>1. ASSUME NEW t \in Thread,
             \/ Submit(t) \/ BackendSubmits(t) \/ BackendRefuses(t) \/ Unsubmit(t)
             \/ LockFlying(t) \/ TimedOut(t) \/ Return(t) \/ NextTimeout(t) \/ Try(t)
             \/ TryLock(t) \/ Waiters(t) \/ WaitOrRetry(t) \/ WaitTimesOut(t) \/ Poll(t)
             \/ (\E late : PollTimesOut(t, late)) \/ handle_event_trigger(t) \/ RemoveBroken(t)
             \/ NothingToReap(t) \/ UnlockEvents(t) \/ Broadcast(t) \/ LockEvents(t)
             \/ DoClose(t) \/ AllClosed(t) \/ DeviceAnswers(t) \/ Unplugged(t) \/ Interrupt(t)
             \/ GiveUp(t) \/ NoMemory(t) \/ HandlingFails(t)
      PROVE  UNCHANGED subject
  BY <1>1 DEF threadVars, Submit, BackendSubmits, BackendRefuses, Unsubmit, LockFlying,
    TimedOut, Return, NextTimeout, Try, TryLock, Waiters, WaitOrRetry, WaitTimesOut, Poll,
    PollTimesOut, handle_event_trigger, RemoveBroken, NothingToReap, UnlockEvents,
    Broadcast, LockEvents, DoClose, AllClosed, DeviceAnswers, Unplugged, Interrupt,
    GiveUp, NoMemory, HandlingFails
<1>2. CASE Tick \/ UNCHANGED vars
  BY <1>2 DEF Tick, threadVars, vars
<1> QED BY <1>1, <1>2, Steps

\* Who changes what it found.
LEMMA ReportChanges ==
  ASSUME [Next]_vars
  PROVE  \/ UNCHANGED reported
         \/ \E t \in Thread : \/ Poll(t) \/ NothingToReap(t) \/ Disconnected(t)
                               \/ UnlockEvents(t)
<1>1. ASSUME NEW t \in Thread,
             \/ Submit(t) \/ BackendSubmits(t) \/ BackendRefuses(t) \/ Unsubmit(t)
             \/ LockFlying(t) \/ HandleTimeout(t) \/ TimedOut(t) \/ TimeoutsHandled(t)
             \/ Return(t) \/ NextTimeout(t) \/ Try(t) \/ TryLock(t) \/ Waiters(t)
             \/ WaitOrRetry(t) \/ WaitTimesOut(t) \/ (\E late : PollTimesOut(t, late))
             \/ handle_event_trigger(t) \/ RemoveBroken(t) \/ Reap(t) \/ Cancellation(t)
             \/ Completion(t) \/ Broadcast(t) \/ AnnounceClose(t) \/ LockEvents(t)
             \/ DoClose(t) \/ Closed(t) \/ AllClosed(t) \/ DeviceAnswers(t) \/ Unplugged(t)
             \/ Interrupt(t)
             \/ GiveUp(t) \/ NoMemory(t) \/ HandlingFails(t)
      PROVE  UNCHANGED reported
  BY <1>1 DEF threadVars, Submit, BackendSubmits, BackendRefuses, Unsubmit, LockFlying,
    HandleTimeout, TimedOut, TimeoutsHandled, Return, NextTimeout, Try, TryLock, Waiters,
    WaitOrRetry, WaitTimesOut, PollTimesOut, handle_event_trigger, RemoveBroken, Reap,
    Cancellation, Completion, Broadcast, AnnounceClose, LockEvents, DoClose, Closed,
    AllClosed, DeviceAnswers, Unplugged, Interrupt,
    GiveUp, NoMemory, HandlingFails
<1>2. CASE Tick \/ UNCHANGED vars
  BY <1>2 DEF Tick, threadVars, vars
<1> QED BY <1>1, <1>2, Steps

\* Who changes where it goes back to.
LEMMA BackChanges ==
  ASSUME [Next]_vars
  PROVE  \/ UNCHANGED back
         \/ \E t \in Thread : \/ TimeoutsHandled(t) \/ NextTimeout(t) \/ WaitTimesOut(t)
                               \/ (\E late : PollTimesOut(t, late)) \/ handle_event_trigger(t)
                               \/ NoMemory(t) \/ HandlingFails(t) \/ Broadcast(t)
<1>1. ASSUME NEW t \in Thread,
             \/ Submit(t) \/ BackendSubmits(t) \/ BackendRefuses(t) \/ Unsubmit(t)
             \/ LockFlying(t) \/ HandleTimeout(t) \/ TimedOut(t) \/ Return(t) \/ Try(t)
             \/ TryLock(t) \/ Waiters(t) \/ WaitOrRetry(t) \/ Poll(t) \/ RemoveBroken(t)
             \/ Reap(t) \/ NothingToReap(t) \/ Disconnected(t) \/ Cancellation(t)
             \/ Completion(t) \/ UnlockEvents(t) \/ AnnounceClose(t)
             \/ LockEvents(t) \/ DoClose(t) \/ Closed(t) \/ AllClosed(t) \/ DeviceAnswers(t)
             \/ Unplugged(t) \/ Interrupt(t)
             \/ GiveUp(t)
      PROVE  UNCHANGED back
  BY <1>1 DEF threadVars, Submit, BackendSubmits, BackendRefuses, Unsubmit, LockFlying,
    HandleTimeout, TimedOut, Return, Try, TryLock, Waiters, WaitOrRetry, Poll,
    RemoveBroken, Reap, NothingToReap, Disconnected, Cancellation, Completion,
    UnlockEvents, AnnounceClose, LockEvents, DoClose, Closed, AllClosed,
    DeviceAnswers, Unplugged, Interrupt,
    GiveUp
<1>2. CASE Tick \/ UNCHANGED vars
  BY <1>2 DEF Tick, threadVars, vars
<1> QED BY <1>1, <1>2, Steps

\* Who changes the times it noted.
LEMMA TimeChanges ==
  ASSUME [Next]_vars
  PROVE  \/ UNCHANGED <<until, systime>>
         \/ \E t \in Thread : \/ LockFlying(t) \/ TimeoutsHandled(t) \/ Return(t)
                               \/ NextTimeout(t)
<1>1. ASSUME NEW t \in Thread,
             \/ Submit(t) \/ BackendSubmits(t) \/ BackendRefuses(t) \/ Unsubmit(t)
             \/ HandleTimeout(t) \/ TimedOut(t) \/ Try(t) \/ TryLock(t) \/ Waiters(t)
             \/ WaitOrRetry(t) \/ WaitTimesOut(t) \/ Poll(t)
             \/ (\E late : PollTimesOut(t, late)) \/ handle_event_trigger(t) \/ RemoveBroken(t)
             \/ Reap(t) \/ NothingToReap(t) \/ Disconnected(t) \/ Cancellation(t)
             \/ Completion(t) \/ UnlockEvents(t) \/ Broadcast(t) \/ AnnounceClose(t)
             \/ LockEvents(t) \/ DoClose(t) \/ Closed(t) \/ AllClosed(t) \/ DeviceAnswers(t)
             \/ Unplugged(t) \/ Interrupt(t)
             \/ GiveUp(t) \/ NoMemory(t) \/ HandlingFails(t)
      PROVE  UNCHANGED <<until, systime>>
  BY <1>1 DEF threadVars, Submit, BackendSubmits, BackendRefuses, Unsubmit, HandleTimeout,
    TimedOut, Try, TryLock, Waiters, WaitOrRetry, WaitTimesOut, Poll, PollTimesOut,
    handle_event_trigger, RemoveBroken, Reap, NothingToReap, Disconnected, Cancellation,
    Completion, UnlockEvents, Broadcast, AnnounceClose, LockEvents, DoClose, Closed,
    AllClosed, DeviceAnswers, Unplugged, Interrupt,
    GiveUp, NoMemory, HandlingFails
<1>2. CASE Tick \/ UNCHANGED vars
  BY <1>2 DEF Tick, threadVars, vars
<1> QED BY <1>1, <1>2, Steps

\* Who closes a handle or loses a device.
LEMMA WorldChanges ==
  ASSUME [Next]_vars
  PROVE  \/ UNCHANGED <<setup, open, gone>>
         \/ \E t \in Thread : \/ DoClose(t) \/ Unplugged(t)
<1>1. ASSUME NEW t \in Thread,
             \/ Submit(t) \/ BackendSubmits(t) \/ BackendRefuses(t) \/ Unsubmit(t)
             \/ LockFlying(t) \/ HandleTimeout(t) \/ TimedOut(t) \/ TimeoutsHandled(t)
             \/ Return(t) \/ NextTimeout(t) \/ Try(t) \/ TryLock(t) \/ Waiters(t)
             \/ WaitOrRetry(t) \/ WaitTimesOut(t) \/ Poll(t)
             \/ (\E late : PollTimesOut(t, late)) \/ handle_event_trigger(t) \/ RemoveBroken(t)
             \/ Reap(t) \/ NothingToReap(t) \/ Disconnected(t) \/ Cancellation(t)
             \/ Completion(t) \/ UnlockEvents(t) \/ Broadcast(t) \/ AnnounceClose(t)
             \/ LockEvents(t) \/ Closed(t) \/ AllClosed(t) \/ DeviceAnswers(t) \/ Interrupt(t)
             \/ GiveUp(t) \/ NoMemory(t) \/ HandlingFails(t)
      PROVE  UNCHANGED <<setup, open, gone>>
  BY <1>1 DEF worldVars, world, Submit, BackendSubmits, BackendRefuses, Unsubmit,
    LockFlying, HandleTimeout, TimedOut, TimeoutsHandled, Return, NextTimeout, Try,
    TryLock, Waiters, WaitOrRetry, WaitTimesOut, Poll, PollTimesOut, handle_event_trigger,
    RemoveBroken, Reap, NothingToReap, Disconnected, Cancellation, Completion,
    UnlockEvents, Broadcast, AnnounceClose, LockEvents, Closed, AllClosed, DeviceAnswers,
    Interrupt,
    GiveUp, NoMemory, HandlingFails
<1>2. CASE Tick \/ UNCHANGED vars
  BY <1>2 DEF Tick, vars, world, worldVars
<1> QED BY <1>1, <1>2, Steps

\* Time passes with the clock only.
LEMMA NowChanges ==
  ASSUME [Next]_vars
  PROVE  now' = now \/ Tick
<1>1. ASSUME NEW t \in Thread,
             \/ Submit(t) \/ BackendSubmits(t) \/ BackendRefuses(t) \/ Unsubmit(t)
             \/ LockFlying(t) \/ HandleTimeout(t) \/ TimedOut(t) \/ TimeoutsHandled(t)
             \/ Return(t) \/ NextTimeout(t) \/ Try(t) \/ TryLock(t) \/ Waiters(t)
             \/ WaitOrRetry(t) \/ WaitTimesOut(t) \/ Poll(t)
             \/ (\E late : PollTimesOut(t, late)) \/ handle_event_trigger(t) \/ RemoveBroken(t)
             \/ Reap(t) \/ NothingToReap(t) \/ Disconnected(t) \/ Cancellation(t)
             \/ Completion(t) \/ UnlockEvents(t) \/ Broadcast(t) \/ AnnounceClose(t)
             \/ LockEvents(t) \/ DoClose(t) \/ Closed(t) \/ AllClosed(t) \/ DeviceAnswers(t)
             \/ Unplugged(t) \/ Interrupt(t)
             \/ GiveUp(t) \/ NoMemory(t) \/ HandlingFails(t)
      PROVE  now' = now
  BY <1>1 DEF worldVars, world, Submit, BackendSubmits, BackendRefuses, Unsubmit,
    LockFlying, HandleTimeout, TimedOut, TimeoutsHandled, Return, NextTimeout, Try,
    TryLock, Waiters, WaitOrRetry, WaitTimesOut, Poll, PollTimesOut, handle_event_trigger,
    RemoveBroken, Reap, NothingToReap, Disconnected, Cancellation, Completion,
    UnlockEvents, Broadcast, AnnounceClose, LockEvents, DoClose, Closed, AllClosed,
    DeviceAnswers, Unplugged, Interrupt,
    GiveUp, NoMemory, HandlingFails
<1>2. CASE UNCHANGED vars
  BY <1>2 DEF vars, worldVars
<1> QED BY <1>1, <1>2, Steps

(***************************************************************************)
(* The types are inductive.                                                *)
(***************************************************************************)

\* Threads go from label to label.
LEMMA LabelsKept ==
  ASSUME Types, [Next]_vars
  PROVE  pc' \in [Thread -> Labels]
<1> USE DEF Go, At, threadVars, Labels, HandlerLabels, CloserLabels, TimeoutLabels, EarlyLabels
<1>1. pc \in [Thread -> Labels] /\ back \in [Thread -> {"wait", "woken", "reap", "unlock", "cancel", "again"}]
  BY DEF Types, ThreadType
<1>2. ASSUME NEW t \in Thread,
             \/ Submit(t) \/ BackendSubmits(t) \/ BackendRefuses(t) \/ Unsubmit(t)
             \/ LockFlying(t) \/ HandleTimeout(t) \/ TimedOut(t) \/ TimeoutsHandled(t)
      PROVE  pc' \in [Thread -> Labels]
  BY <1>1, <1>2
     DEF Submit, BackendSubmits, BackendRefuses, Unsubmit, LockFlying, HandleTimeout, TimedOut, TimeoutsHandled
<1>3. ASSUME NEW t \in Thread,
             \/ Return(t) \/ GiveUp(t) \/ NextTimeout(t) \/ Try(t) \/ TryLock(t) \/ NoMemory(t) \/ Waiters(t)
             \/ WaitOrRetry(t) \/ WaitTimesOut(t)
      PROVE  pc' \in [Thread -> Labels]
  BY <1>1, <1>3 DEF Return, GiveUp, NextTimeout, CallHandleTimeouts, Try, TryLock, NoMemory, Waiters, WaitOrRetry, WaitTimesOut
<1>4. ASSUME NEW t \in Thread,
             \/ Poll(t) \/ HandlingFails(t) \/ (\E late : PollTimesOut(t, late)) \/ handle_event_trigger(t)
             \/ RemoveBroken(t) \/ Reap(t) \/ NothingToReap(t) \/ Disconnected(t)
             \/ Cancellation(t) \/ Completion(t)
      PROVE  pc' \in [Thread -> Labels]
  BY <1>1, <1>4 DEF Poll, HandlingFails, PollTimesOut, CallHandleTimeouts, handle_event_trigger, RemoveBroken, Reap,
    NothingToReap, Disconnected, Cancellation, Completion
<1>5. ASSUME NEW t \in Thread,
             \/ UnlockEvents(t) \/ Broadcast(t) \/ AnnounceClose(t) \/ LockEvents(t) \/ DoClose(t)
             \/ Closed(t) \/ AllClosed(t)
      PROVE  pc' \in [Thread -> Labels]
  BY <1>1, <1>5 DEF UnlockEvents, Broadcast, Afterwards, AnnounceClose, LockEvents, DoClose, Closed, AllClosed
<1>6. ASSUME NEW t \in Thread, DeviceAnswers(t) \/ Unplugged(t) \/ Interrupt(t)
      PROVE  pc' = pc
  BY <1>6 DEF DeviceAnswers, Unplugged, Interrupt
<1>7. CASE Tick \/ UNCHANGED vars
  BY <1>1, <1>7 DEF Tick, vars
<1> QED BY <1>1, <1>2, <1>3, <1>4, <1>5, <1>6, <1>7, Steps

\* The device the handler is at is one that was ready.
LEMMA DeviceKnown ==
  ASSUME Types, NEW t \in Thread, AtDevice(t)
  PROVE  Device(t) \in reported[t].ready /\ Device(t) \in Thread
<1>1. reported[t].ready \in SUBSET Thread /\ reported[t].ready # {}
  BY DEF Types, ThreadType, Reports, AtDevice
<1> QED BY <1>1 DEF Device

\* The URBs of each transfer are sound.
LEMMA UrbsOf ==
  ASSUME Types, NEW x \in Thread
  PROVE  setup.num_urbs[x] \in Nat /\ Sound(urbs[x], setup.num_urbs[x])
BY NumUrbs DEF Types, WorldType, UrbsSound

\* What reaping makes of the URBs.
LEMMA ReapMakes ==
  ASSUME Types, NEW t \in Thread, Reap(t)
  PROVE  \E u : LET h == Device(t)
                IN /\ h \in Thread /\ h \in reported[t].ready /\ pc[t] = "reap"
                   /\ urbs' = [urbs EXCEPT ![h] = u] /\ Sound(u, setup.num_urbs[h])
                   /\ urbs[h].queue # <<>>
                   /\ u.reap_action = "CANCELLED" => urbs[h].reap_action = "CANCELLED"
                   /\ IF ~AllRetired(u) THEN UNCHANGED <<pc, subject>>
                      ELSE /\ subject' = [subject EXCEPT ![t] = [of |-> h, status |-> u.reap_status]]
                           /\ pc' = [pc EXCEPT ![t] = IF u.reap_action = "CANCELLED" THEN "cancellation" ELSE "completion"]
<1> DEFINE h == Device(t)
<1>1. h \in Thread /\ h \in reported[t].ready
  BY DeviceKnown DEF Reap
<1>2. setup.num_urbs[h] \in Nat /\ Sound(urbs[h], setup.num_urbs[h])
  BY <1>1, UrbsOf
<1>3. pc[t] = "reap" /\ urbs[h].queue # <<>>
  BY DEF Reap, AtDevice, At, Reapable
<1>4. PICK u \in handle_bulk_completion(urbs[h]) :
        /\ urbs' = [urbs EXCEPT ![h] = u]
        /\ IF ~AllRetired(u) THEN UNCHANGED <<pc, subject>>
           ELSE /\ subject' = [subject EXCEPT ![t] = [of |-> h, status |-> u.reap_status]]
                /\ pc' = [pc EXCEPT ![t] = IF u.reap_action = "CANCELLED" THEN "cancellation" ELSE "completion"]
  BY DEF Reap, Go
<1>5. Sound(u, setup.num_urbs[h]) /\ (u.reap_action = "CANCELLED" => urbs[h].reap_action = "CANCELLED")
  BY <1>2, <1>3, <1>4, CompletionSound
<1> QED BY <1>1, <1>3, <1>4, <1>5

SubjectType == subject \in [Thread -> [of : Thread \cup {None}, status : Statuses]]

\* What a thread notes is a transfer or a handle, and a status.
LEMMA SubjectsKept ==
  ASSUME Types, [Next]_vars
  PROVE  SubjectType'
<1>1. SubjectType
  BY DEF Types, ThreadType, SubjectType
<1>2. ASSUME NEW t \in Thread, HandleTimeout(t)
      PROVE  SubjectType'
  <2>1. PICK x \in Expired(t) : subject' = [subject EXCEPT ![t].of = x]
    BY <1>2 DEF HandleTimeout
  <2>2. x \in Thread
    BY ExpiredOnList
  <2> QED BY <1>1, <2>1, <2>2 DEF SubjectType
<1>3. ASSUME NEW t \in Thread, TimeoutsHandled(t) \/ Completion(t) \/ Closed(t)
      PROVE  SubjectType'
  <2>1. subject' = [subject EXCEPT ![t] = NoSubject]
    BY <1>3 DEF TimeoutsHandled, Completion, Closed
  <2>2. NoSubject \in [of : Thread \cup {None}, status : Statuses]
    BY DEF NoSubject, Statuses
  <2> QED BY <1>1, <2>1, <2>2 DEF SubjectType
<1>4. ASSUME NEW t \in Thread, Reap(t)
      PROVE  SubjectType'
  <2>1. PICK u : LET h == Device(t)
                 IN h \in Thread /\ Sound(u, setup.num_urbs[h])
                    /\ (subject' = subject \/ subject' = [subject EXCEPT ![t] = [of |-> h, status |-> u.reap_status]])
    BY <1>4, ReapMakes
  <2>2. u.reap_status \in Statuses
    BY <2>1 DEF Sound, UrbType
  <2> QED BY <1>1, <2>1, <2>2 DEF SubjectType
<1>5. ASSUME NEW t \in Thread, Disconnected(t)
      PROVE  SubjectType'
  <2>1. Device(t) \in Thread
    BY <1>5, DeviceKnown DEF Disconnected
  <2>2. subject' = subject \/ subject' = [subject EXCEPT ![t] = [of |-> Device(t), status |-> "NO_DEVICE"]]
    BY <1>5 DEF Disconnected
  <2> QED BY <1>1, <2>1, <2>2 DEF SubjectType, Statuses
<1>6. ASSUME NEW t \in Thread, Cancellation(t)
      PROVE  SubjectType'
  <2>1. PICK s \in Statuses : subject' = [subject EXCEPT ![t].status = s]
    BY <1>6 DEF Cancellation, Statuses
  <2> QED BY <1>1, <2>1 DEF SubjectType
<1>7. ASSUME NEW t \in Thread, AnnounceClose(t)
      PROVE  SubjectType'
  <2>1. (CHOOSE h \in ToClose(t) : TRUE) \in Thread
    BY <1>7 DEF AnnounceClose, ToClose, Types, WorldType
  <2>2. subject' = [subject EXCEPT ![t].of = CHOOSE h \in ToClose(t) : TRUE]
    BY <1>7 DEF AnnounceClose
  <2> QED BY <1>1, <2>1, <2>2 DEF SubjectType
<1> QED BY <1>1, <1>2, <1>3, <1>4, <1>5, <1>6, <1>7, SubjectChanges DEF SubjectType

ReportType == reported \in [Thread -> Reports]

\* What a poll reports is about the threads' handles.
LEMMA ReportsKept ==
  ASSUME Types, [Next]_vars
  PROVE  ReportType'
<1>1. ReportType
  BY DEF Types, ThreadType, ReportType
<1>2. ASSUME NEW t \in Thread, Poll(t)
      PROVE  ReportType'
  <2>1. Readable \in SUBSET Thread /\ signalled \in BOOLEAN
    BY DEF Readable, Types, ContextType
  <2>2. Rings \in BOOLEAN
    BY DEF Rings
  <2>3. [event |-> signalled, timer |-> Rings, ready |-> Readable, error |-> Readable \cap gone] \in Reports
    BY <2>1, <2>2 DEF Reports
  <2> QED BY <1>1, <1>2, <2>3 DEF Poll, ReportType
<1>3. ASSUME NEW t \in Thread, DeviceDone(t)
      PROVE  ReportType'
  <2> DEFINE one == [reported EXCEPT ![t].ready = @ \ {Device(t)}]
  <2>1. one \in [Thread -> Reports]
    BY <1>1 DEF ReportType, Reports
  <2>2. reported' = [one EXCEPT ![t].error = @ \ {Device(t)}]
    BY <1>1, <1>3 DEF DeviceDone, ReportType, Reports
  <2> HIDE DEF one
  <2> QED BY <2>1, <2>2 DEF ReportType, Reports
<1>4. ASSUME NEW t \in Thread, UnlockEvents(t)
      PROVE  ReportType'
  <2>1. Nothing \in Reports
    BY DEF Nothing, Reports
  <2> QED BY <1>1, <1>4, <2>1 DEF UnlockEvents, ReportType
<1>5. ASSUME NEW t \in Thread, NothingToReap(t) \/ Disconnected(t)
      PROVE  ReportType'
  BY <1>1, <1>3, <1>5 DEF NothingToReap, Disconnected, ReportType
<1> QED BY <1>1, <1>2, <1>4, <1>5, ReportChanges DEF ReportType

TimeType ==
  /\ back \in [Thread -> {"wait", "woken", "reap", "unlock", "cancel", "again"}]
  /\ until \in [Thread -> Nat] /\ systime \in [Thread -> Nat]

\* The times the threads have noted, and where they go after handle_timeouts.
LEMMA TimesKept ==
  ASSUME Types, [Next]_vars
  PROVE  TimeType'
<1>1. TimeType
  BY DEF Types, ThreadType, TimeType
<1>2. back' \in [Thread -> {"wait", "woken", "reap", "unlock", "cancel", "again"}]
  BY <1>1, BackChanges
     DEF TimeType, TimeoutsHandled, NextTimeout, WaitTimesOut, PollTimesOut, handle_event_trigger,
    NoMemory, HandlingFails, Broadcast, CallHandleTimeouts
<1>3. ASSUME NEW t \in Thread, NextTimeout(t)
      PROVE  until' \in [Thread -> Nat] /\ systime' \in [Thread -> Nat]
  <2>1. FirstTimeout(flying_transfers) \in Nat
    BY FirstTimeoutType DEF Types, ContextType
  <2> QED BY <1>1, <1>3, <2>1 DEF TimeType, NextTimeout
<1>4. ASSUME NEW t \in Thread, LockFlying(t) \/ TimeoutsHandled(t) \/ Return(t)
      PROVE  until' \in [Thread -> Nat] /\ systime' \in [Thread -> Nat]
  BY <1>1, <1>4 DEF TimeType, LockFlying, TimeoutsHandled, Return, Types, WorldType
<1>5. until' \in [Thread -> Nat] /\ systime' \in [Thread -> Nat]
  BY <1>1, <1>3, <1>4, TimeChanges DEF TimeType
<1> QED BY <1>2, <1>5 DEF TimeType

\* The types of the threads' variables.
LEMMA ThreadTypeKept ==
  ASSUME Types, [Next]_vars
  PROVE  ThreadType'
BY LabelsKept, SubjectsKept, ReportsKept, TimesKept DEF ThreadType, SubjectType, ReportType, TimeType

\* Where a new transfer gets on the list.
LEMMA AddType ==
  ASSUME Types, NEW x \in Thread, NEW d \in Nat, add_to_flying_list(x, d)
  PROVE  flying_transfers' \in Seq(Thread) /\ timer' \in Nat
<1> DEFINE later(y) == transfer[y].deadline = 0 \/ transfer[y].deadline > d
           first == {i \in DOMAIN flying_transfers : d # 0 /\ later(flying_transfers[i])}
           at == IF first = {} THEN Len(flying_transfers) + 1 ELSE Min(first)
<1>1. flying_transfers \in Seq(Thread) /\ timer \in Nat
  BY DEF Types, ContextType
<1>2. first \in SUBSET (1 .. Len(flying_transfers)) /\ first \in SUBSET Nat
  BY <1>1
<1>3. at \in 1 .. Len(flying_transfers) + 1
  <2> HIDE DEF first
  <2>1. CASE first = {}
    BY <1>1, <2>1
  <2>2. CASE first # {}
    <3>1. Min(first) \in 1 .. Len(flying_transfers)
      BY <1>2, <2>2, MinIn
    <3> QED BY <1>1, <2>2, <3>1
  <2> QED BY <2>1, <2>2
<1>4. flying_transfers' = InsertAt(flying_transfers, at, x) /\ (timer' = d \/ timer' = timer)
  BY DEF add_to_flying_list
<1> HIDE DEF at
<1> QED BY <1>1, <1>3, <1>4, Inserted

\* remove_from_flying_list keeps the types of the list and of the timer.
LEMMA RemoveType ==
  ASSUME Types, NEW x, remove_from_flying_list(x)
  PROVE  flying_transfers' \in Seq(Thread) /\ timer' \in Nat
<1>1. flying_transfers \in Seq(Thread) /\ timer \in Nat /\ TransferType
  BY DEF Types, ContextType
<1>2. list_del(flying_transfers, x) \in Seq(Thread)
  BY <1>1, Deleted
<1>3. FirstTimeout(list_del(flying_transfers, x)) \in Nat
  BY <1>1, <1>2, FirstTimeoutType
<1> QED BY <1>1, <1>2, <1>3 DEF remove_from_flying_list, arm_timer_for_next_timeout

\* The types of the list and of the timer.
LEMMA ListTypeKept ==
  ASSUME Types, [Next]_vars
  PROVE  flying_transfers' \in Seq(Thread) /\ timer' \in Nat
<1>1. flying_transfers \in Seq(Thread) /\ timer \in Nat /\ TransferType
  BY DEF Types, ContextType
<1>2. ASSUME NEW t \in Thread, Submit(t)
      PROVE  flying_transfers' \in Seq(Thread) /\ timer' \in Nat
  <2>1. (IF Timeout[t] = 0 THEN 0 ELSE now + Timeout[t]) \in Nat
    BY EventsAssumption DEF Types, WorldType
  <2> QED BY <1>2, <2>1, AddType DEF Submit
<1>3. ASSUME NEW t \in Thread, Unsubmit(t) \/ Completion(t)
      PROVE  flying_transfers' \in Seq(Thread) /\ timer' \in Nat
  BY <1>3, RemoveType DEF Unsubmit, Completion
<1>4. ASSUME NEW t \in Thread, TimeoutsHandled(t)
      PROVE  flying_transfers' \in Seq(Thread) /\ timer' \in Nat
  BY <1>1, <1>4, FirstTimeoutType DEF TimeoutsHandled, arm_timer_for_next_timeout
<1>5. ASSUME NEW t \in Thread, DoClose(t)
      PROVE  flying_transfers' \in Seq(Thread) /\ timer' \in Nat
  <2>1. list_del(flying_transfers, subject[t].of) \in Seq(Thread)
    BY <1>1, Deleted
  <2> QED BY <1>1, <1>5, <2>1 DEF DoClose
<1> QED BY <1>1, <1>2, <1>3, <1>4, <1>5, ListChanges, TimerChanges

\* The types of the context.
LEMMA ContextTypeKept ==
  ASSUME Types, [Next]_vars
  PROVE  ContextType'
<1>1. ContextType
  BY DEF Types
<1>2. flying_transfers_lock' \in Thread \cup {None}
  BY <1>1, ListLockChanges DEF ContextType, LockFlying, TimeoutsHandled
<1>3. events_lock' \in Thread \cup {None} /\ event_handler_active' \in BOOLEAN
  BY <1>1, EventLockChanges DEF ContextType, TryLock, NoMemory, UnlockEvents, LockEvents
<1>4. event_waiters_lock' \in Thread \cup {None}
  BY <1>1, WaitersLockChanges DEF ContextType, Waiters, WaitOrRetry
<1>5. event_sources' \in SUBSET Thread
  BY <1>1, SourceChanges DEF ContextType, RemoveBroken, DoClose
<1>6. ASSUME NEW t \in Thread, TryLock(t) \/ NoMemory(t) \/ handle_event_trigger(t) \/ RemoveBroken(t)
      PROVE  /\ device_close' \in Int /\ signalled' \in BOOLEAN
             /\ event_flags' \in SUBSET Flags /\ event_data' \in SUBSET Thread
  BY <1>1, <1>6
     DEF ContextType, Flags, TryLock, NoMemory, PrepareEvents, eventVars, handle_event_trigger, RemoveBroken, Notify
<1>7. ASSUME NEW t \in Thread, AnnounceClose(t)
      PROVE  /\ device_close' \in Int /\ signalled' \in BOOLEAN
             /\ event_flags' \in SUBSET Flags /\ event_data' \in SUBSET Thread
  <2>1. device_close' = device_close + 1 /\ event_data' = event_data
    BY <1>7 DEF AnnounceClose
  <2>2. /\ event_flags' = event_flags \/ event_flags' = event_flags \cup {"DEVICE_CLOSE"}
        /\ signalled' = (signalled \/ event_flags = {})
    BY <1>7 DEF AnnounceClose, Notify
  <2>3. signalled' \in BOOLEAN
    BY <2>2, Zenon
  <2>4. event_flags' \in SUBSET Flags
    BY <1>1, <2>2 DEF ContextType, Flags
  <2>5. device_close' \in Int /\ event_data' \in SUBSET Thread
    BY <1>1, <2>1 DEF ContextType
  <2> QED BY <2>3, <2>4, <2>5
<1>8. ASSUME NEW t \in Thread, Closed(t)
      PROVE  /\ device_close' \in Int /\ signalled' \in BOOLEAN
             /\ event_flags' \in SUBSET Flags /\ event_data' \in SUBSET Thread
  <2>1. device_close' = device_close - 1 /\ event_data' = event_data
    BY <1>8 DEF Closed
  <2>2. /\ event_flags' = event_flags \/ event_flags' = event_flags \ {"DEVICE_CLOSE"}
        /\ signalled' = (signalled /\ event_flags' # {})
    BY <1>8 DEF Closed
  <2>3. signalled' \in BOOLEAN
    BY <2>2, Zenon
  <2>4. event_flags' \in SUBSET Flags
    BY <1>1, <2>2 DEF ContextType, Flags
  <2>5. device_close' \in Int /\ event_data' \in SUBSET Thread
    BY <1>1, <2>1 DEF ContextType
  <2> QED BY <2>3, <2>4, <2>5
<1>9. ASSUME NEW t \in Thread, DoClose(t) \/ Interrupt(t)
      PROVE  /\ device_close' \in Int /\ signalled' \in BOOLEAN
             /\ event_flags' \in SUBSET Flags /\ event_data' \in SUBSET Thread
  BY <1>1, <1>9 DEF ContextType, Flags, DoClose, Interrupt, Notify
<1>10. /\ device_close' \in Int /\ signalled' \in BOOLEAN
      /\ event_flags' \in SUBSET Flags /\ event_data' \in SUBSET Thread
  BY <1>1, <1>6, <1>7, <1>9, <1>8, EventChanges DEF ContextType
<1> QED BY <1>2, <1>3, <1>4, <1>5, <1>10, ListTypeKept DEF ContextType

\* The types of the rest of the world; the setup stays.
LEMMA WorldTypeKept ==
  ASSUME Types, [Next]_vars
  PROVE  WorldType' /\ setup' = setup
<1>1. WorldType
  BY DEF Types
<1>2. now' \in Nat \ {0}
  <2>1. now' = now \/ now' = now + 1
    BY NowChanges DEF Tick
  <2> QED BY <1>1, <2>1 DEF WorldType
<1>3. setup' = setup /\ open' \in SUBSET Thread /\ gone' \in SUBSET Thread
  BY <1>1, WorldChanges DEF WorldType, DoClose, Unplugged
<1> QED BY <1>1, <1>2, <1>3 DEF WorldType

\* libusb_cancel_transfer sets flags there are.
LEMMA CancelFlagsType ==
  ASSUME TransferType, NEW x \in Thread
  PROVE  CancelFlags(x) \in SUBSET {"IN_FLIGHT", "CANCELLING", "DEVICE_DISAPPEARED"}
BY DEF TransferType, Transfers, CancelFlags

\* A transfer that is freed is new but for its result.
LEMMA NewTransferType ==
  ASSUME NEW r \in Statuses \cup {None, "refused"}
  PROVE  [NewTransfer EXCEPT !.result = r] \in Transfers
BY DEF NewTransfer, Transfers, Statuses

\* The types of the transfers.
LEMMA TransferTypeKept ==
  ASSUME Types, [Next]_vars
  PROVE  TransferType'
<1>1. TransferType
  BY DEF Types
<1>2. ASSUME NEW t \in Thread, Submit(t)
      PROVE  TransferType'
  <2>1. PICK d : d = IF Timeout[t] = 0 THEN 0 ELSE now + Timeout[t]
    OBVIOUS
  <2>2. d \in Nat
    BY <2>1, EventsAssumption DEF Types, WorldType
  <2>3. transfer' = [transfer EXCEPT ![t].deadline = d]
    BY <1>2, <2>1 DEF Submit
  <2> QED BY <1>1, <2>2, <2>3 DEF TransferType, Transfers
<1>3. ASSUME NEW t \in Thread, BackendSubmits(t)
      PROVE  TransferType'
  <2>1. transfer' = [transfer EXCEPT ![t].state_flags = @ \cup {"IN_FLIGHT"}]
    BY <1>3 DEF BackendSubmits
  <2> QED BY <1>1, <2>1 DEF TransferType, Transfers
<1>4. ASSUME NEW t \in Thread, Unsubmit(t) \/ Return(t)
      PROVE  TransferType'
  <2>1. /\ transfer[t].status \in Statuses /\ transfer[t].given_up \in BOOLEAN
        /\ NewTransfer.given_up \in BOOLEAN
    BY <1>1, NewTransferType DEF TransferType, Transfers
  <2>2. PICK r \in Statuses \cup {None, "refused"}, g \in BOOLEAN :
          transfer' = [transfer EXCEPT ![t] = [NewTransfer EXCEPT !.result = r, !.given_up = g]]
    <3>1. CASE Unsubmit(t)
      <4>1. [NewTransfer EXCEPT !.result = "refused"]
              = [NewTransfer EXCEPT !.result = "refused", !.given_up = NewTransfer.given_up]
        BY NewTransferType DEF Transfers
      <4>2. transfer' = [transfer EXCEPT ![t] = [NewTransfer EXCEPT !.result = "refused"]]
        BY <3>1 DEF Unsubmit
      <4> HIDE DEF NewTransfer
      <4> QED BY <2>1, <4>1, <4>2
    <3>2. CASE Return(t)
      BY <2>1, <3>2 DEF Return, Freed, Statuses
    <3> QED BY <1>4, <3>1, <3>2
  <2>3. [NewTransfer EXCEPT !.result = r, !.given_up = g] \in Transfers
    BY NewTransferType DEF Transfers
  <2> QED BY <1>1, <2>2, <2>3 DEF TransferType
<1>5. ASSUME NEW t \in Thread, HandleTimeout(t)
      PROVE  TransferType'
  <2>1. PICK x \in Expired(t) :
          transfer' = [transfer EXCEPT ![x].timeout_flags = @ \cup {"HANDLED"}, ![x].state_flags = CancelFlags(x)]
    BY <1>5 DEF HandleTimeout
  <2>2. x \in Thread
    BY ExpiredOnList
  <2> DEFINE one == [transfer EXCEPT ![x].timeout_flags = @ \cup {"HANDLED"}]
  <2>3. one \in [Thread -> Transfers]
    BY <1>1, <2>2 DEF TransferType, Transfers
  <2>4. transfer' = [one EXCEPT ![x].state_flags = CancelFlags(x)]
    BY <1>1, <2>1, <2>2 DEF TransferType, Transfers
  <2>5. CancelFlags(x) \in SUBSET {"IN_FLIGHT", "CANCELLING", "DEVICE_DISAPPEARED"}
    BY <1>1, <2>2, CancelFlagsType
  <2> HIDE DEF one
  <2> QED BY <2>2, <2>3, <2>4, <2>5 DEF TransferType, Transfers
<1>6. ASSUME NEW t \in Thread, TimedOut(t)
      PROVE  TransferType'
  <2>1. transfer' = [transfer EXCEPT ![subject[t].of].timeout_flags = @ \cup {"TIMED_OUT"}] /\ subject[t].of \in Thread
    BY <1>6 DEF TimedOut, Types, Subjects, At
  <2> QED BY <1>1, <2>1 DEF TransferType, Transfers
<1>7. ASSUME NEW t \in Thread, Completion(t)
      PROVE  TransferType'
  <2> DEFINE x == subject[t].of
             one == [transfer EXCEPT ![x].state_flags = @ \ {"IN_FLIGHT"}]
             two == [one EXCEPT ![x].completed = TRUE]
             three == [two EXCEPT ![x].status = subject[t].status]
  <2>1. x \in Thread /\ subject[t].status \in Statuses
    BY <1>7 DEF Completion, Types, ThreadType, Subjects, At
  <2> HIDE DEF x
  <2>2. one \in [Thread -> Transfers] /\ one[x].calls = transfer[x].calls
    BY <1>1, <2>1 DEF TransferType, Transfers
  <2>3. transfer' = [three EXCEPT ![x].calls = transfer[x].calls + 1]
    BY <1>1, <1>7, <2>1 DEF Completion, TransferType, Transfers, x
  <2>4. transfer[x].calls + 1 \in Nat
    BY <1>1, <2>1 DEF TransferType, Transfers
  <2> HIDE DEF one
  <2>5. two \in [Thread -> Transfers]
    <3>1. one[x] \in Transfers
      BY <2>1, <2>2
    <3>2. [one[x] EXCEPT !.completed = TRUE] \in Transfers
      BY <3>1 DEF Transfers
    <3> QED BY <2>1, <2>2, <3>2
  <2> HIDE DEF two
  <2>6. three \in [Thread -> Transfers]
    BY <2>1, <2>5 DEF Transfers
  <2> HIDE DEF three
  <2> QED BY <2>1, <2>3, <2>4, <2>6 DEF TransferType, Transfers
<1>8. ASSUME NEW t \in Thread, DoClose(t)
      PROVE  TransferType'
  <2>1. subject[t].of \in Thread
    BY <1>8 DEF DoClose, Types, Subjects, At, CloserLabels
  <2>2. transfer' = transfer \/ transfer' = [transfer EXCEPT ![subject[t].of].handle = FALSE]
    BY <1>8 DEF DoClose
  <2> DEFINE x == subject[t].of
             r == [transfer[x] EXCEPT !.handle = FALSE]
  <2>3. transfer' = transfer \/ transfer' = [transfer EXCEPT ![x] = r]
    BY <2>2
  <2>4. r \in Transfers
    <3>1. transfer[x] \in Transfers
      BY <1>1, <2>1 DEF TransferType
    <3> HIDE DEF x
    <3> QED BY <3>1 DEF Transfers
  <2> HIDE DEF r, x
  <2> QED BY <1>1, <2>3, <2>4 DEF TransferType
<1>9. ASSUME NEW t \in Thread, GiveUp(t)
      PROVE  TransferType'
  <2> DEFINE one == [transfer EXCEPT ![t].state_flags = CancelFlags(t)]
  <2>1. one \in [Thread -> Transfers] /\ one[t].given_up \in BOOLEAN
    <3>1. CancelFlags(t) \in SUBSET {"IN_FLIGHT", "CANCELLING", "DEVICE_DISAPPEARED"}
      BY <1>1, CancelFlagsType
    <3>2. one \in [Thread -> Transfers]
      BY <1>1, <3>1 DEF TransferType, Transfers
    <3> QED BY <3>2 DEF Transfers
  <2>2. PICK g : g = (transfer[t].given_up \/ CancelSucceeds(t))
    OBVIOUS
  <2>3. transfer' = [transfer EXCEPT ![t].state_flags = CancelFlags(t), ![t].given_up = g]
    BY <1>9, <2>2 DEF GiveUp
  <2>4. transfer' = [one EXCEPT ![t].given_up = g]
    BY <1>1, <2>3 DEF TransferType, Transfers
  <2>5. g \in BOOLEAN
    BY <2>2, Zenon
  <2> HIDE DEF one
  <2> DEFINE new == [one[t] EXCEPT !.given_up = g]
  <2>6. new \in Transfers
    BY <2>1, <2>5 DEF Transfers
  <2>7. transfer' = [one EXCEPT ![t] = new]
    BY <2>4
  <2> HIDE DEF new
  <2> QED BY <2>1, <2>6, <2>7 DEF TransferType
<1> QED BY <1>1, <1>2, <1>3, <1>4, <1>5, <1>6, <1>7, <1>8, <1>9, TransferChanges DEF TransferType

\* A thread comes to its submission once only, and leaves it for the next step of it.
LEMMA EarlyOnce ==
  ASSUME Types, [Next]_vars, NEW x \in Thread, pc'[x] \in EarlyLabels
  PROVE  pc[x] \in EarlyLabels
<1> USE DEF Go, At, threadVars, EarlyLabels
<1>1. pc \in [Thread -> Labels] /\ back \in [Thread -> {"wait", "woken", "reap", "unlock", "cancel", "again"}]
  BY DEF Types, ThreadType
<1>2. ASSUME NEW t \in Thread,
             \/ Submit(t) \/ BackendSubmits(t) \/ BackendRefuses(t) \/ Unsubmit(t)
             \/ LockFlying(t) \/ HandleTimeout(t) \/ TimedOut(t) \/ TimeoutsHandled(t)
      PROVE  pc[x] \in EarlyLabels
  BY <1>1, <1>2
     DEF Submit, BackendSubmits, BackendRefuses, Unsubmit, LockFlying, HandleTimeout, TimedOut, TimeoutsHandled
<1>3. ASSUME NEW t \in Thread,
             \/ Return(t) \/ GiveUp(t) \/ NextTimeout(t) \/ Try(t) \/ TryLock(t) \/ NoMemory(t) \/ Waiters(t)
             \/ WaitOrRetry(t) \/ WaitTimesOut(t)
      PROVE  pc[x] \in EarlyLabels
  BY <1>1, <1>3 DEF Return, GiveUp, NextTimeout, CallHandleTimeouts, Try, TryLock, NoMemory, Waiters, WaitOrRetry, WaitTimesOut
<1>4. ASSUME NEW t \in Thread,
             \/ Poll(t) \/ HandlingFails(t) \/ (\E late : PollTimesOut(t, late)) \/ handle_event_trigger(t)
             \/ RemoveBroken(t) \/ Reap(t) \/ NothingToReap(t) \/ Disconnected(t)
             \/ Cancellation(t) \/ Completion(t)
      PROVE  pc[x] \in EarlyLabels
  BY <1>1, <1>4 DEF Poll, HandlingFails, PollTimesOut, CallHandleTimeouts, handle_event_trigger, RemoveBroken, Reap,
    NothingToReap, Disconnected, Cancellation, Completion
<1>5. ASSUME NEW t \in Thread,
             \/ UnlockEvents(t) \/ Broadcast(t) \/ AnnounceClose(t) \/ LockEvents(t) \/ DoClose(t)
             \/ Closed(t) \/ AllClosed(t)
      PROVE  pc[x] \in EarlyLabels
  BY <1>1, <1>5 DEF UnlockEvents, Broadcast, Afterwards, AnnounceClose, LockEvents, DoClose, Closed, AllClosed
<1>6. ASSUME NEW t \in Thread, DeviceAnswers(t) \/ Unplugged(t) \/ Interrupt(t)
      PROVE  pc' = pc
  BY <1>6 DEF DeviceAnswers, Unplugged, Interrupt
<1>7. CASE Tick \/ UNCHANGED vars
  BY <1>7 DEF Tick, vars
<1> QED BY <1>2, <1>3, <1>4, <1>5, <1>6, <1>7, Steps

(***************************************************************************)
(* What a step makes of the URBs, and the rest of the types.               *)
(***************************************************************************)

\* What a step makes of the URBs of a transfer: they stay sound, a transfer
\* without URBs under way gets new ones from its thread only, and is cancelled by
\* a timeout or by its thread only.
UrbsMove(x) ==
  /\ Sound(urbs'[x], setup.num_urbs[x])
  /\ Drained(urbs[x]) =>
       \/ BackendSubmits(x)
       \/ Return(x) /\ Fresh(urbs'[x])
       \/ Drained(urbs'[x]) /\ SameVerdict(urbs[x], urbs'[x]) /\ urbs'[x].transferred = urbs[x].transferred
  /\ urbs'[x].reap_action = "CANCELLED" =>
       \/ urbs[x].reap_action = "CANCELLED"
       \/ \E t \in Thread : x \in Expired(t) /\ HandleTimeout(t) /\ CancelSucceeds(x)
                             /\ pc'[t] = "timed_out" /\ subject'[t].of = x
       \/ GiveUp(x) /\ CancelSucceeds(x)

\* URBs a step leaves alone.
LEMMA Untouched ==
  ASSUME Types, NEW x \in Thread, urbs'[x] = urbs[x]
  PROVE  UrbsMove(x)
BY UrbsOf DEF UrbsMove, SameVerdict

\* Every step moves the URBs of every transfer so.
LEMMA UrbMoves ==
  ASSUME Types, [Next]_vars, EarlyFresh
  PROVE  DOMAIN urbs' = Thread /\ \A x \in Thread : UrbsMove(x)
<1>1. DOMAIN urbs = Thread
  BY DEF Types, UrbsSound
<1>2. CASE UNCHANGED urbs
  BY <1>1, <1>2, Untouched
<1>3. ASSUME NEW y \in Thread, NEW u, urbs' = [urbs EXCEPT ![y] = u], urbs'[y] = u => UrbsMove(y)
      PROVE  DOMAIN urbs' = Thread /\ \A x \in Thread : UrbsMove(x)
  <2>1. ASSUME NEW x \in Thread
        PROVE  UrbsMove(x)
    <3>1. CASE x = y
      BY <1>1, <1>3, <3>1
    <3>2. CASE x # y
      BY <1>1, <1>3, <3>2, Untouched
    <3> QED BY <3>1, <3>2
  <2> QED BY <1>1, <1>3, <2>1
<1>4. ASSUME NEW t \in Thread, BackendSubmits(t)
      PROVE  DOMAIN urbs' = Thread /\ \A x \in Thread : UrbsMove(x)
  <2>1. PICK u \in submit_bulk_transfer(urbs[t]) : urbs' = [urbs EXCEPT ![t] = u]
    BY <1>4 DEF BackendSubmits
  <2>2. Fresh(urbs[t])
    BY <1>4 DEF BackendSubmits, At, EarlyFresh, EarlyLabels
  <2>3. Sound(u, setup.num_urbs[t]) /\ u.reap_action \in {"NORMAL", "SUBMIT_FAILED"}
    BY <2>1, <2>2, UrbsOf, SubmittedSound
  <2>4. urbs'[t] = u => UrbsMove(t)
    BY <1>4, <2>3 DEF UrbsMove
  <2> QED BY <1>3, <2>1, <2>4
<1>5. ASSUME NEW t \in Thread, HandleTimeout(t)
      PROVE  DOMAIN urbs' = Thread /\ \A x \in Thread : UrbsMove(x)
  <2>1. PICK x \in Expired(t) :
          /\ CancelUrbs(x) /\ subject' = [subject EXCEPT ![t].of = x]
          /\ pc' = [pc EXCEPT ![t] = IF CancelSucceeds(x) THEN "timed_out" ELSE "timeouts"]
    BY <1>5 DEF HandleTimeout, Go
  <2>2. x \in Thread
    BY ExpiredOnList
  <2>3. CASE urbs' = urbs
    BY <1>2, <2>3
  <2>4. CASE Cancellable(x) /\ x \notin gone /\ \E u \in op_cancel_transfer(urbs[x]) : urbs' = [urbs EXCEPT ![x] = u]
    <3>1. PICK u \in op_cancel_transfer(urbs[x]) : urbs' = [urbs EXCEPT ![x] = u]
      BY <2>4
    <3>2. /\ Sound(u, setup.num_urbs[x])
          /\ u.reap_action = "CANCELLED" => urbs[x].reap_action = "CANCELLED" \/ CancelFound(urbs[x])
          /\ Drained(urbs[x]) => Drained(u) /\ SameVerdict(urbs[x], u) /\ u.transferred = urbs[x].transferred
      BY <2>2, <3>1, UrbsOf, CancelSound
    <3>3. CancelFound(urbs[x]) => pc'[t] = "timed_out" /\ subject'[t].of = x /\ CancelSucceeds(x)
      BY <2>1, <2>4 DEF CancelSucceeds, Types, ThreadType
    <3>4. urbs'[x] = u => UrbsMove(x)
      BY <1>5, <3>2, <3>3 DEF UrbsMove
    <3> QED BY <1>3, <2>2, <3>1, <3>4
  <2> QED BY <2>1, <2>3, <2>4 DEF CancelUrbs
<1>6. ASSUME NEW t \in Thread, GiveUp(t)
      PROVE  DOMAIN urbs' = Thread /\ \A x \in Thread : UrbsMove(x)
  <2>1. CASE urbs' = urbs
    BY <1>2, <2>1
  <2>2. CASE Cancellable(t) /\ t \notin gone /\ \E u \in op_cancel_transfer(urbs[t]) : urbs' = [urbs EXCEPT ![t] = u]
    <3>1. PICK u \in op_cancel_transfer(urbs[t]) : urbs' = [urbs EXCEPT ![t] = u]
      BY <2>2
    <3>2. /\ Sound(u, setup.num_urbs[t])
          /\ u.reap_action = "CANCELLED" => urbs[t].reap_action = "CANCELLED" \/ CancelFound(urbs[t])
          /\ Drained(urbs[t]) => Drained(u) /\ SameVerdict(urbs[t], u) /\ u.transferred = urbs[t].transferred
      BY <3>1, UrbsOf, CancelSound
    <3>3. CancelFound(urbs[t]) => CancelSucceeds(t)
      BY <2>2 DEF CancelSucceeds
    <3>4. urbs'[t] = u => UrbsMove(t)
      BY <1>6, <3>2, <3>3 DEF UrbsMove
    <3> QED BY <1>3, <3>1, <3>4
  <2> QED BY <1>6, <2>1, <2>2 DEF GiveUp, CancelUrbs
<1>7. ASSUME NEW t \in Thread, Return(t)
      PROVE  DOMAIN urbs' = Thread /\ \A x \in Thread : UrbsMove(x)
  <2> DEFINE u == NewUrbs(setup.num_urbs[t])
  <2>1. urbs' = [urbs EXCEPT ![t] = u]
    BY <1>7 DEF Return
  <2>2. Sound(u, setup.num_urbs[t]) /\ Fresh(u)
    BY UrbsOf, NewUrbsSound DEF Fresh
  <2> HIDE DEF u
  <2>3. urbs'[t] = u => UrbsMove(t)
    BY <1>7, <2>2 DEF UrbsMove, Fresh
  <2> QED BY <1>3, <2>1, <2>3
<1>8. ASSUME NEW t \in Thread, Reap(t)
      PROVE  DOMAIN urbs' = Thread /\ \A x \in Thread : UrbsMove(x)
  <2>1. PICK u : LET h == Device(t)
                 IN /\ h \in Thread /\ urbs' = [urbs EXCEPT ![h] = u]
                    /\ Sound(u, setup.num_urbs[h]) /\ urbs[h].queue # <<>>
                    /\ u.reap_action = "CANCELLED" => urbs[h].reap_action = "CANCELLED"
    BY <1>8, ReapMakes
  <2>2. urbs'[Device(t)] = u => UrbsMove(Device(t))
    BY <2>1 DEF UrbsMove, Drained
  <2> QED BY <1>3, <2>1, <2>2
<1>9. ASSUME NEW h \in Thread, urbs' = [urbs EXCEPT ![h] = Forgotten(@)]
      PROVE  DOMAIN urbs' = Thread /\ \A x \in Thread : UrbsMove(x)
  <2> DEFINE u == Forgotten(urbs[h])
  <2>1. urbs' = [urbs EXCEPT ![h] = u]
    BY <1>1, <1>9
  <2>2. /\ Sound(u, setup.num_urbs[h]) /\ SameVerdict(urbs[h], u) /\ Drained(u)
        /\ u.transferred = urbs[h].transferred
    BY UrbsOf, ForgottenSound
  <2> HIDE DEF u
  <2>3. urbs'[h] = u => UrbsMove(h)
    BY <2>2 DEF UrbsMove, SameVerdict
  <2> QED BY <1>3, <2>1, <2>3
<1>10. ASSUME NEW t \in Thread, Disconnected(t) \/ DoClose(t)
      PROVE  DOMAIN urbs' = Thread /\ \A x \in Thread : UrbsMove(x)
  <2>1. Disconnected(t) => Device(t) \in Thread
    BY DeviceKnown DEF Disconnected
  <2>2. DoClose(t) => subject[t].of \in Thread
    BY DEF DoClose, At, Types, Subjects, CloserLabels
  <2> QED BY <1>2, <1>9, <1>10, <2>1, <2>2 DEF Disconnected, DoClose
<1>11. ASSUME NEW h \in Thread, DeviceAnswers(h)
      PROVE  DOMAIN urbs' = Thread /\ \A x \in Thread : UrbsMove(x)
  <2>1. PICK u \in Completions(urbs[h]) \cup Errors(urbs[h]) : urbs' = [urbs EXCEPT ![h] = u]
    BY <1>11 DEF DeviceAnswers
  <2>2. Sound(u, setup.num_urbs[h]) /\ SameVerdict(urbs[h], u) /\ Pending(urbs[h]) # {}
    BY <2>1, UrbsOf, KernelSound
  <2>3. urbs'[h] = u => UrbsMove(h)
    BY <2>2 DEF UrbsMove, SameVerdict, Drained
  <2> QED BY <1>3, <2>1, <2>3
<1>12. ASSUME NEW h \in Thread, Unplugged(h)
      PROVE  DOMAIN urbs' = Thread /\ \A x \in Thread : UrbsMove(x)
  <2> DEFINE u == ShutDown(urbs[h])
  <2>1. urbs' = [urbs EXCEPT ![h] = u]
    BY <1>1, <1>12 DEF Unplugged
  <2>2. /\ Sound(u, setup.num_urbs[h]) /\ SameVerdict(urbs[h], u)
        /\ Drained(urbs[h]) => Drained(u)
        /\ u.transferred = urbs[h].transferred
    BY UrbsOf, ShutDownSound
  <2> HIDE DEF u
  <2>3. urbs'[h] = u => UrbsMove(h)
    BY <2>2 DEF UrbsMove, SameVerdict
  <2> QED BY <1>3, <2>1, <2>3
<1> QED BY <1>2, <1>4, <1>5, <1>7, <1>8, <1>10, <1>11, <1>12, <1>6, UrbChanges

\* A transfer is in flight from its submission on.
LEMMA FlightStarts ==
  ASSUME Types, [Next]_vars, NEW x \in Thread, InFlight(x)'
  PROVE  InFlight(x) \/ BackendSubmits(x)
<1>1. TransferType
  BY DEF Types
<1> USE DEF TransferType, Transfers, InFlight
<1>2. ASSUME NEW t \in Thread, Submit(t) \/ BackendSubmits(t)
      PROVE  InFlight(x) \/ BackendSubmits(x)
  <2>1. CASE t = x /\ BackendSubmits(t)
    BY <2>1
  <2>2. CASE t # x /\ BackendSubmits(t)
    <3>1. transfer'[x] = transfer[x]
      BY <1>1, <2>2 DEF BackendSubmits
    <3> QED BY <3>1
  <2>3. CASE Submit(t)
    <3>1. PICK d : transfer' = [transfer EXCEPT ![t].deadline = d]
      BY <2>3 DEF Submit
    <3> QED BY <1>1, <3>1
  <2> QED BY <1>2, <2>1, <2>2, <2>3
<1>3. ASSUME NEW t \in Thread, Unsubmit(t) \/ Return(t) \/ TimedOut(t)
      PROVE  InFlight(x)
  <2>1. CASE Unsubmit(t)
    BY <1>1, <2>1 DEF Unsubmit, NewTransfer
  <2>2. CASE Return(t)
    BY <1>1, <2>2 DEF Return, Freed, NewTransfer
  <2>3. CASE TimedOut(t)
    BY <1>1, <2>3 DEF TimedOut
  <2> QED BY <1>3, <2>1, <2>2, <2>3
<1>4. ASSUME NEW t \in Thread, HandleTimeout(t)
      PROVE  InFlight(x)
  <2>1. PICK y \in Expired(t) :
          transfer' = [transfer EXCEPT ![y].timeout_flags = @ \cup {"HANDLED"}, ![y].state_flags = CancelFlags(y)]
    BY <1>4 DEF HandleTimeout
  <2>2. y \in Thread
    BY ExpiredOnList
  <2>3. transfer'[x].state_flags = transfer[x].state_flags \/ (x = y /\ transfer'[x].state_flags = CancelFlags(x))
    BY <1>1, <2>1, <2>2
  <2>4. CASE Cancellable(x)
    BY <2>4 DEF Cancellable
  <2>5. CASE ~Cancellable(x)
    BY <1>1, <2>3, <2>5 DEF CancelFlags
  <2> QED BY <2>4, <2>5
<1>5. ASSUME NEW t \in Thread, Completion(t)
      PROVE  InFlight(x)
  <2>1. transfer' = [transfer EXCEPT ![subject[t].of].state_flags = @ \ {"IN_FLIGHT"},
                                     ![subject[t].of].completed = TRUE,
                                     ![subject[t].of].status = subject[t].status, ![subject[t].of].calls = @ + 1]
    BY <1>5 DEF Completion
  <2>2. CASE x = subject[t].of
    BY ONLY <1>1, <2>1, <2>2, x \in Thread, InFlight(x)'
  <2>3. CASE x # subject[t].of
    BY ONLY <1>1, <2>1, <2>3, x \in Thread, InFlight(x)'
  <2> QED BY ONLY <2>2, <2>3
<1>6. ASSUME NEW t \in Thread, DoClose(t)
      PROVE  InFlight(x)
  BY <1>1, <1>6 DEF DoClose
<1>7. ASSUME NEW t \in Thread, GiveUp(t)
      PROVE  InFlight(x)
  <2>1. transfer'[x].state_flags = transfer[x].state_flags \/ (x = t /\ transfer'[x].state_flags = CancelFlags(x))
    BY <1>1, <1>7 DEF GiveUp
  <2>2. CASE Cancellable(x)
    BY <2>2 DEF Cancellable
  <2>3. CASE ~Cancellable(x)
    BY <1>1, <2>1, <2>3 DEF CancelFlags
  <2> QED BY <2>2, <2>3
<1> QED BY <1>2, <1>3, <1>4, <1>5, <1>6, <1>7, TransferChanges

WithSubject == CloserLabels \cup {"timed_out", "cancellation", "completion"}

\* Who comes to deal with something has noted what.
LEMMA SubjectsNoted ==
  ASSUME Types, [Next]_vars
  PROVE  Subjects'
<1> SUFFICES ASSUME NEW x \in Thread, pc'[x] \in WithSubject
             PROVE  subject'[x].of \in Thread
  BY DEF Subjects, WithSubject
<1>1. /\ pc \in [Thread -> Labels] /\ back \in [Thread -> {"wait", "woken", "reap", "unlock", "cancel", "again"}]
      /\ subject \in [Thread -> [of : Thread \cup {None}, status : Statuses]]
  BY DEF Types, ThreadType
<1>2. pc[x] \in WithSubject => subject[x].of \in Thread
  BY DEF Types, Subjects, WithSubject
<1> USE DEF Go, At, threadVars, WithSubject, CloserLabels
<1>3. ASSUME NEW t \in Thread,
             \/ Submit(t) \/ BackendSubmits(t) \/ BackendRefuses(t) \/ Unsubmit(t)
             \/ LockFlying(t) \/ TimedOut(t) \/ TimeoutsHandled(t)
      PROVE  subject'[x].of \in Thread
  <2>1. CASE Submit(t) \/ BackendSubmits(t) \/ BackendRefuses(t) \/ Unsubmit(t)
    BY <1>1, <1>2, <2>1 DEF Submit, BackendSubmits, BackendRefuses, Unsubmit
  <2>2. CASE LockFlying(t)
    BY <1>1, <1>2, <2>2 DEF LockFlying
  <2>3. CASE TimedOut(t) \/ TimeoutsHandled(t)
    BY <1>1, <1>2, <2>3 DEF TimedOut, TimeoutsHandled
  <2> QED BY <1>3, <2>1, <2>2, <2>3
<1>4. ASSUME NEW t \in Thread, HandleTimeout(t)
      PROVE  subject'[x].of \in Thread
  <2>1. PICK y \in Expired(t) :
          /\ subject' = [subject EXCEPT ![t].of = y]
          /\ pc' = [pc EXCEPT ![t] = IF CancelSucceeds(y) THEN "timed_out" ELSE "timeouts"]
    BY <1>4 DEF HandleTimeout
  <2>2. y \in Thread
    BY ExpiredOnList
  <2> QED BY <1>1, <1>2, <2>1, <2>2
<1>5. ASSUME NEW t \in Thread,
             \/ Return(t) \/ GiveUp(t) \/ NextTimeout(t) \/ Try(t) \/ TryLock(t) \/ NoMemory(t) \/ Waiters(t)
             \/ WaitOrRetry(t) \/ WaitTimesOut(t)
      PROVE  subject'[x].of \in Thread
  BY <1>1, <1>2, <1>5
     DEF Return, GiveUp, NextTimeout, CallHandleTimeouts, Try, TryLock, NoMemory, Waiters, WaitOrRetry, WaitTimesOut
<1>6. ASSUME NEW t \in Thread,
             \/ Poll(t) \/ HandlingFails(t) \/ (\E late : PollTimesOut(t, late)) \/ handle_event_trigger(t)
             \/ RemoveBroken(t) \/ NothingToReap(t)
             \/ Cancellation(t) \/ Completion(t)
      PROVE  subject'[x].of \in Thread
  BY <1>1, <1>2, <1>6 DEF Poll, HandlingFails, PollTimesOut, CallHandleTimeouts, handle_event_trigger, RemoveBroken,
    NothingToReap, Cancellation, Completion
<1>7. ASSUME NEW t \in Thread, Reap(t)
      PROVE  subject'[x].of \in Thread
  <2>1. PICK u : LET h == Device(t)
                 IN /\ h \in Thread
                    /\ \/ UNCHANGED <<pc, subject>>
                       \/ /\ subject' = [subject EXCEPT ![t] = [of |-> h, status |-> u.reap_status]]
                          /\ \E label : pc' = [pc EXCEPT ![t] = label]
    BY <1>7, ReapMakes
  <2> QED BY <1>1, <1>2, <2>1
<1>8. ASSUME NEW t \in Thread, Disconnected(t)
      PROVE  subject'[x].of \in Thread
  <2>1. Device(t) \in Thread
    BY <1>8, DeviceKnown DEF Disconnected
  <2>2. \/ UNCHANGED <<pc, subject>>
        \/ /\ subject' = [subject EXCEPT ![t] = [of |-> Device(t), status |-> "NO_DEVICE"]]
           /\ pc' = [pc EXCEPT ![t] = "completion"]
    BY <1>8 DEF Disconnected
  <2> QED BY <1>1, <1>2, <2>1, <2>2
<1>9. ASSUME NEW t \in Thread,
             \/ UnlockEvents(t) \/ Broadcast(t) \/ LockEvents(t) \/ DoClose(t) \/ Closed(t) \/ AllClosed(t)
      PROVE  subject'[x].of \in Thread
  BY <1>1, <1>2, <1>9 DEF UnlockEvents, Broadcast, Afterwards, LockEvents, DoClose, Closed, AllClosed
<1>10. ASSUME NEW t \in Thread, AnnounceClose(t)
       PROVE  subject'[x].of \in Thread
  <2>1. (CHOOSE h \in ToClose(t) : TRUE) \in Thread
    BY <1>10 DEF AnnounceClose, ToClose, Types, WorldType
  <2>2. /\ subject' = [subject EXCEPT ![t].of = CHOOSE h \in ToClose(t) : TRUE]
        /\ pc' = [pc EXCEPT ![t] = "lock_events"]
    BY <1>10 DEF AnnounceClose
  <2> QED BY <1>1, <1>2, <2>1, <2>2
<1>11. ASSUME NEW t \in Thread, DeviceAnswers(t) \/ Unplugged(t) \/ Interrupt(t)
       PROVE  pc' = pc /\ subject' = subject
  BY <1>11 DEF DeviceAnswers, Unplugged, Interrupt
<1>12. CASE Tick \/ UNCHANGED vars
  BY <1>1, <1>2, <1>12 DEF Tick, vars
<1> QED BY <1>2, <1>3, <1>4, <1>5, <1>6, <1>7, <1>8, <1>9, <1>10, <1>11, <1>12, Steps

\* A transfer that is being submitted is not in flight, and its URBs are new.
LEMMA EarlyFreshKept ==
  ASSUME Types, [Next]_vars
  PROVE  EarlyFresh'
<1> SUFFICES ASSUME NEW x \in Thread, pc'[x] \in EarlyLabels
             PROVE  ~InFlight(x)' /\ Fresh(urbs'[x])
  BY DEF EarlyFresh
<1>1. pc[x] \in EarlyLabels /\ EarlyFresh
  BY EarlyOnce DEF Types
<1>2. ~InFlight(x) /\ Fresh(urbs[x])
  BY <1>1 DEF EarlyFresh
<1>3. ~BackendSubmits(x)
  <2>1. pc \in [Thread -> Labels]
    BY DEF Types, ThreadType
  <2> QED BY <2>1 DEF BackendSubmits, Go, EarlyLabels
<1>4. UrbsMove(x)
  BY <1>1, UrbMoves
<1> QED BY <1>2, <1>3, <1>4, FlightStarts DEF UrbsMove, Fresh, SameVerdict

\* The types are inductive.
LEMMA TypesKept ==
  ASSUME Types, [Next]_vars
  PROVE  Types'
<1>1. UrbsSound'
  <2>1. setup' = setup
    BY WorldTypeKept
  <2>2. DOMAIN urbs' = Thread /\ \A x \in Thread : UrbsMove(x)
    BY UrbMoves DEF Types
  <2> QED BY <2>1, <2>2 DEF UrbsSound, UrbsMove
<1> QED BY <1>1, ThreadTypeKept, ContextTypeKept, WorldTypeKept, TransferTypeKept, EarlyFreshKept, SubjectsNoted DEF Types

\* The types hold initially.
LEMMA TypesAtFirst ==
  ASSUME Init
  PROVE  Types
<1>1. WorldType
  BY DEF Init, WorldType, Users
<1>2. ThreadType
  BY DEF Init, ThreadType, Labels, EarlyLabels, Nothing, NoSubject, Reports, Statuses
<1>3. ContextType
  <2>1. <<>> \in Seq(Thread)
    OBVIOUS
  <2>2. Users \in SUBSET Thread
    BY DEF Users
  <2>3. {"SOURCES_MODIFIED"} \in SUBSET Flags
    BY DEF Flags
  <2>4. event_handler_active \in BOOLEAN /\ signalled \in BOOLEAN
    BY DEF Init
  <2> QED BY <2>1, <2>2, <2>3, <2>4 DEF Init, ContextType
<1>4. TransferType
  <2>1. NewTransfer \in Transfers
    BY DEF NewTransfer, Transfers, Statuses
  <2> QED BY <2>1 DEF Init, TransferType
<1>5. ASSUME NEW x \in Thread
      PROVE  Sound(urbs[x], setup.num_urbs[x]) /\ Fresh(urbs[x])
  <2>1. setup.num_urbs[x] \in Nat
    BY <1>1, NumUrbs DEF WorldType
  <2>2. urbs[x] = NewUrbs(setup.num_urbs[x])
    BY DEF Init
  <2> QED BY <2>1, <2>2, NewUrbsSound DEF Fresh
<1>6. UrbsSound
  BY <1>5 DEF UrbsSound, Init
<1>7. EarlyFresh
  BY <1>5 DEF EarlyFresh, Init, InFlight, NewTransfer
<1>8. Subjects
  BY DEF Subjects, Init, CloserLabels
<1> QED BY <1>1, <1>2, <1>3, <1>4, <1>6, <1>7, <1>8 DEF Types

(***************************************************************************)
(* The event.                                                              *)
(***************************************************************************)

Closers == {t \in Thread : pc[t] \in {"lock_events", "do_close", "closed"}}

\* Threads come to closing, and leave it, one at a time.
LEMMA ClosersMove ==
  ASSUME Types, [Next]_vars
  PROVE  \/ Closers' = Closers /\ \A t \in Thread : ~AnnounceClose(t) /\ ~Closed(t)
         \/ \E t \in Thread : AnnounceClose(t) /\ t \notin Closers /\ Closers' = Closers \cup {t}
         \/ \E t \in Thread : Closed(t) /\ t \in Closers /\ Closers' = Closers \ {t}
<1>1. pc \in [Thread -> Labels] /\ back \in [Thread -> {"wait", "woken", "reap", "unlock", "cancel", "again"}]
  BY DEF Types, ThreadType
<1> USE DEF Go, At, threadVars
<1>2. ASSUME NEW t \in Thread, AnnounceClose(t)
      PROVE  t \notin Closers /\ Closers' = Closers \cup {t}
  BY <1>1, <1>2 DEF Closers, AnnounceClose
<1>3. ASSUME NEW t \in Thread, Closed(t)
      PROVE  t \in Closers /\ Closers' = Closers \ {t}
  BY <1>1, <1>3 DEF Closers, Closed
<1>4. ASSUME \A t \in Thread : ~AnnounceClose(t) /\ ~Closed(t), NEW x \in Thread
      PROVE  x \in Closers' <=> x \in Closers
  <2> USE DEF Closers
  <2>1. ASSUME NEW t \in Thread,
               \/ Submit(t) \/ BackendSubmits(t) \/ BackendRefuses(t) \/ Unsubmit(t)
               \/ LockFlying(t) \/ HandleTimeout(t) \/ TimedOut(t) \/ TimeoutsHandled(t)
        PROVE  x \in Closers' <=> x \in Closers
    BY <1>1, <2>1
       DEF Submit, BackendSubmits, BackendRefuses, Unsubmit, LockFlying, HandleTimeout, TimedOut, TimeoutsHandled
  <2>2. ASSUME NEW t \in Thread,
               \/ Return(t) \/ GiveUp(t) \/ NextTimeout(t) \/ Try(t) \/ TryLock(t) \/ NoMemory(t) \/ Waiters(t)
               \/ WaitOrRetry(t) \/ WaitTimesOut(t)
        PROVE  x \in Closers' <=> x \in Closers
    BY <1>1, <2>2
       DEF Return, GiveUp, NextTimeout, CallHandleTimeouts, Try, TryLock, NoMemory, Waiters, WaitOrRetry, WaitTimesOut
  <2>3. ASSUME NEW t \in Thread,
               \/ Poll(t) \/ HandlingFails(t) \/ (\E late : PollTimesOut(t, late)) \/ handle_event_trigger(t)
               \/ RemoveBroken(t) \/ Reap(t) \/ NothingToReap(t) \/ Disconnected(t)
               \/ Cancellation(t) \/ Completion(t)
        PROVE  x \in Closers' <=> x \in Closers
    BY <1>1, <2>3 DEF Poll, HandlingFails, PollTimesOut, CallHandleTimeouts, handle_event_trigger, RemoveBroken, Reap,
      NothingToReap, AtDevice, Disconnected, Cancellation, Completion
  <2>4. ASSUME NEW t \in Thread,
               \/ UnlockEvents(t) \/ Broadcast(t) \/ LockEvents(t) \/ DoClose(t) \/ AllClosed(t)
        PROVE  x \in Closers' <=> x \in Closers
    BY <1>1, <2>4 DEF UnlockEvents, Broadcast, Afterwards, LockEvents, DoClose, AllClosed
  <2>5. ASSUME NEW t \in Thread, DeviceAnswers(t) \/ Unplugged(t) \/ Interrupt(t)
        PROVE  pc' = pc
    BY <2>5 DEF DeviceAnswers, Unplugged, Interrupt
  <2>6. CASE Tick \/ UNCHANGED vars
    BY <2>6 DEF Tick, vars
  <2> QED BY <1>4, <2>1, <2>2, <2>3, <2>4, <2>5, <2>6, Steps
<1>5. ASSUME \A t \in Thread : ~AnnounceClose(t) /\ ~Closed(t)
      PROVE  Closers' = Closers
  <2>1. \A x \in Thread : x \in Closers' <=> x \in Closers
    BY <1>4, <1>5
  <2>2. Closers \subseteq Thread /\ Closers' \subseteq Thread
    BY DEF Closers
  <2> QED BY <2>1, <2>2
<1> QED BY <1>2, <1>3, <1>5

\* EventSignalled is inductive with the types: the flag of a close counts the
\* closers.
LEMMA EventKept ==
  ASSUME Types, EventSignalled, [Next]_vars
  PROVE  EventSignalled'
<1>1. IsFiniteSet(Closers) /\ Cardinality(Closers) \in Nat
  BY EventsAssumption, FS_Subset, FS_CardinalityType DEF Closers
<1>2. /\ signalled <=> event_flags # {}
      /\ "DEVICE_CLOSE" \in event_flags <=> device_close # 0
      /\ device_close = Cardinality(Closers)
  BY DEF EventSignalled, Closers
<1> SUFFICES /\ signalled' <=> event_flags' # {}
             /\ "DEVICE_CLOSE" \in event_flags' <=> device_close' # 0
             /\ device_close' = Cardinality(Closers')
  BY DEF EventSignalled, Closers
<1>3. ASSUME NEW t \in Thread, AnnounceClose(t), t \notin Closers, Closers' = Closers \cup {t}
      PROVE  /\ signalled' <=> event_flags' # {}
             /\ "DEVICE_CLOSE" \in event_flags' <=> device_close' # 0
             /\ device_close' = Cardinality(Closers')
  <2>1. device_close' = device_close + 1
    BY <1>3 DEF AnnounceClose
  <2>2. Cardinality(Closers') = Cardinality(Closers) + 1
    BY <1>1, <1>3, FS_AddElement
  <2>3. \/ event_flags' = event_flags \cup {"DEVICE_CLOSE"} /\ (signalled' <=> signalled \/ event_flags = {})
        \/ device_close # 0 /\ event_flags' = event_flags /\ (signalled' <=> signalled \/ event_flags = {})
    BY <1>3 DEF AnnounceClose, Notify
  <2> QED BY <1>1, <1>2, <2>1, <2>2, <2>3
<1>4. ASSUME NEW t \in Thread, Closed(t), t \in Closers, Closers' = Closers \ {t}
      PROVE  /\ signalled' <=> event_flags' # {}
             /\ "DEVICE_CLOSE" \in event_flags' <=> device_close' # 0
             /\ device_close' = Cardinality(Closers')
  <2>1. device_close' = device_close - 1
    BY <1>4 DEF Closed
  <2>2. Cardinality(Closers') = Cardinality(Closers) - 1 /\ Cardinality(Closers') \in Nat
    BY <1>1, <1>4, FS_RemoveElement, FS_CardinalityType
  <2>3. /\ event_flags' = IF device_close' = 0 THEN event_flags \ {"DEVICE_CLOSE"} ELSE event_flags
        /\ signalled' <=> signalled /\ event_flags' # {}
    BY <1>4 DEF Closed
  <2> QED BY <1>1, <1>2, <2>1, <2>2, <2>3
<1>5. ASSUME NEW t \in Thread, Closers' = Closers,
             \/ TryLock(t) \/ NoMemory(t) \/ handle_event_trigger(t) \/ RemoveBroken(t)
             \/ DoClose(t) \/ Interrupt(t)
      PROVE  /\ signalled' <=> event_flags' # {}
             /\ "DEVICE_CLOSE" \in event_flags' <=> device_close' # 0
             /\ device_close' = Cardinality(Closers')
  <2>1. device_close' = device_close
    BY <1>5 DEF TryLock, NoMemory, PrepareEvents, eventVars, handle_event_trigger, RemoveBroken, DoClose, Interrupt
  <2>2. \/ \E f \in {"SOURCES_MODIFIED", "USER_INTERRUPT"} :
              event_flags' = event_flags \cup {f} /\ (signalled' <=> signalled \/ event_flags = {})
        \/ \E f \in {"SOURCES_MODIFIED", "USER_INTERRUPT"} :
              event_flags' = event_flags \ {f} /\ (signalled' <=> signalled /\ event_flags' # {})
        \/ event_flags' = event_flags /\ (signalled' <=> signalled)
    <3>1. CASE TryLock(t)
      BY <3>1 DEF TryLock, PrepareEvents, eventVars
    <3>2. CASE handle_event_trigger(t)
      BY <3>2 DEF handle_event_trigger
    <3>3. CASE RemoveBroken(t)
      BY <3>3 DEF RemoveBroken, Notify
    <3>4. CASE DoClose(t)
      BY <3>4 DEF DoClose, Notify
    <3>5. CASE Interrupt(t)
      BY <3>5 DEF Interrupt, Notify
    <3>6. CASE NoMemory(t)
      BY <3>6 DEF NoMemory
    <3> QED BY <1>5, <3>1, <3>2, <3>3, <3>4, <3>5, <3>6
  <2> QED BY <1>2, <1>5, <2>1, <2>2
<1>6. CASE UNCHANGED <<device_close, event_flags, signalled>> /\ Closers' = Closers
  BY <1>2, <1>6
<1> QED BY <1>3, <1>4, <1>5, <1>6, ClosersMove, EventChanges

\* The event is signalled initially, for the sources.
LEMMA EventAtFirst ==
  ASSUME Init
  PROVE  EventSignalled
<1>1. {t \in Thread : pc[t] \in {"lock_events", "do_close", "closed"}} = {}
  BY DEF Init
<1> QED BY <1>1, FS_EmptySet DEF Init, EventSignalled

\* What the runs check of the types.
LEMMA TypeOKFollows ==
  ASSUME Types, EventSignalled
  PROVE  TypeOK
<1>1. Closers \in SUBSET Thread /\ IsFiniteSet(Thread)
  BY EventsAssumption DEF Closers
<1>2. Cardinality(Closers) \in Nat /\ Cardinality(Thread) \in Nat /\ Cardinality(Closers) <= Cardinality(Thread)
  BY <1>1, FS_Subset, FS_CardinalityType
<1>3. device_close \in 0 .. Cardinality(Thread)
  BY <1>2 DEF EventSignalled, Closers
<1>4. ASSUME NEW x \in Thread
      PROVE  /\ Range(urbs[x].state) \subseteq UrbStates /\ urbs[x].reap_action \in Actions
             /\ urbs[x].num_retired \in 0 .. Number(urbs[x]) /\ urbs[x].transferred \in 0 .. Number(urbs[x])
  <2> DEFINE u == urbs[x]
             n == setup.num_urbs[x]
  <2>1. n \in Nat /\ UrbType(u, n) /\ Counted(u)
    BY UrbsOf DEF Sound
  <2> HIDE DEF u, n
  <2>2. Number(u) = n /\ Cardinality(Pending(u)) \in Nat /\ Len(u.queue) \in Nat
    BY <2>1, PendingFinite
  <2>3. u.num_retired \in Nat /\ u.transferred \in Nat /\ u.reap_action \in Actions /\ u.state \in [1 .. n -> UrbStates]
    BY <2>1 DEF UrbType
  <2>4. u.num_retired <= n /\ u.transferred <= n
    BY <2>1, <2>2, <2>3 DEF Counted
  <2>5. Range(u.state) \subseteq UrbStates
    BY <2>3 DEF Range
  <2> QED BY <2>1, <2>2, <2>3, <2>4, <2>5 DEF u
<1>5. ASSUME NEW x \in Thread
      PROVE  /\ transfer[x].state_flags \subseteq {"IN_FLIGHT", "CANCELLING", "DEVICE_DISAPPEARED"}
             /\ transfer[x].timeout_flags \subseteq {"HANDLED", "TIMED_OUT"}
             /\ transfer[x].result \in Statuses \cup {None, "refused"}
  <2>1. transfer[x] \in Transfers
    BY DEF Types, TransferType
  <2> QED BY <2>1 DEF Transfers
<1>6. \A t \in Thread : reported[t].ready \subseteq Thread /\ until[t] \in Nat /\ systime[t] \in Nat
  BY DEF Types, ThreadType, Reports
<1>7. /\ subject \in [Thread -> [of : Thread \cup {None}, status : Statuses]]
      /\ {flying_transfers_lock, events_lock, event_waiters_lock} \subseteq Thread \cup {None}
      /\ event_flags \subseteq {"SOURCES_MODIFIED", "DEVICE_CLOSE", "USER_INTERRUPT"}
  BY DEF Types, ThreadType, ContextType, Flags
<1> QED BY <1>3, <1>4, <1>5, <1>6, <1>7 DEF TypeOK

(***************************************************************************)
(* The locks and the handles.                                              *)
(***************************************************************************)
InTimeouts(t) == pc[t] \in TimeoutLabels
HoldsEvents(t) ==
  \/ pc[t] \in HandlerLabels \cup {"do_close", "closed"}
  \/ InTimeouts(t) /\ back[t] \in {"reap", "unlock"}
Reporting(t) ==
  \/ pc[t] \in {"events", "reap", "cancellation", "completion", "unlock"}
  \/ InTimeouts(t) /\ back[t] = "reap"

Locks ==
  /\ \A t \in Thread : HoldsEvents(t) <=> events_lock = t
  /\ \A t \in Thread : pc[t] \in {"timeouts", "timed_out"} <=> flying_transfers_lock = t

\* Only taking and leaving the lock makes a handler, or an end of one.
LEMMA HoldersMove ==
  ASSUME Types, [Next]_vars, NEW x \in Thread
  PROVE  (HoldsEvents(x)' <=> HoldsEvents(x)) \/ TryLock(x) \/ NoMemory(x)
           \/ LockEvents(x) \/ UnlockEvents(x)
<1>1. pc \in [Thread -> Labels] /\ back \in [Thread -> {"wait", "woken", "reap", "unlock", "cancel", "again"}]
  BY DEF Types, ThreadType
<1> USE DEF Go, At, threadVars, HoldsEvents, InTimeouts, HandlerLabels, TimeoutLabels
<1>2. ASSUME NEW t \in Thread,
             \/ Submit(t) \/ BackendSubmits(t) \/ BackendRefuses(t) \/ Unsubmit(t)
             \/ LockFlying(t) \/ HandleTimeout(t) \/ TimedOut(t) \/ TimeoutsHandled(t)
      PROVE  HoldsEvents(x)' <=> HoldsEvents(x)
  <2>1. CASE Submit(t) \/ BackendSubmits(t) \/ BackendRefuses(t) \/ Unsubmit(t)
    BY <1>1, <2>1 DEF Submit, BackendSubmits, BackendRefuses, Unsubmit
  <2>2. CASE LockFlying(t)
    BY <1>1, <2>2 DEF LockFlying
  <2>3. CASE HandleTimeout(t)
    BY <1>1, <2>3 DEF HandleTimeout
  <2>4. CASE TimedOut(t) \/ TimeoutsHandled(t)
    BY <1>1, <2>4 DEF TimedOut, TimeoutsHandled
  <2> QED BY <1>2, <2>1, <2>2, <2>3, <2>4
<1>3. ASSUME NEW t \in Thread,
             \/ Return(t) \/ GiveUp(t) \/ NextTimeout(t) \/ Try(t) \/ Waiters(t)
             \/ WaitOrRetry(t) \/ WaitTimesOut(t)
      PROVE  HoldsEvents(x)' <=> HoldsEvents(x)
  BY <1>1, <1>3 DEF Return, GiveUp, NextTimeout, CallHandleTimeouts, Try, Waiters, WaitOrRetry, WaitTimesOut
<1>4. ASSUME NEW t \in Thread,
             \/ Poll(t) \/ HandlingFails(t) \/ (\E late : PollTimesOut(t, late)) \/ handle_event_trigger(t)
             \/ RemoveBroken(t) \/ Reap(t) \/ NothingToReap(t) \/ Disconnected(t)
             \/ Cancellation(t) \/ Completion(t)
      PROVE  HoldsEvents(x)' <=> HoldsEvents(x)
  BY <1>1, <1>4 DEF Poll, HandlingFails, PollTimesOut, CallHandleTimeouts, handle_event_trigger, RemoveBroken, Reap,
    NothingToReap, AtDevice, Disconnected, Cancellation, Completion
<1>5. ASSUME NEW t \in Thread,
             \/ Broadcast(t) \/ AnnounceClose(t) \/ DoClose(t) \/ Closed(t) \/ AllClosed(t)
      PROVE  HoldsEvents(x)' <=> HoldsEvents(x)
  BY <1>1, <1>5 DEF Broadcast, Afterwards, AnnounceClose, DoClose, Closed, AllClosed
<1>6. ASSUME NEW t \in Thread, t # x, TryLock(t) \/ NoMemory(t) \/ LockEvents(t) \/ UnlockEvents(t)
      PROVE  HoldsEvents(x)' <=> HoldsEvents(x)
  BY <1>1, <1>6 DEF TryLock, NoMemory, LockEvents, UnlockEvents
<1>7. ASSUME NEW t \in Thread, DeviceAnswers(t) \/ Unplugged(t) \/ Interrupt(t)
      PROVE  HoldsEvents(x)' <=> HoldsEvents(x)
  BY <1>7 DEF DeviceAnswers, Unplugged, Interrupt
<1>8. CASE Tick \/ UNCHANGED vars
  BY <1>8 DEF Tick, vars
<1> HIDE DEF Go, At, threadVars, HoldsEvents, InTimeouts, HandlerLabels, TimeoutLabels
<1> QED BY <1>2, <1>3, <1>4, <1>5, <1>6, <1>7, <1>8, Steps

\* The event lock is held by one thread, which is where it handles events or
\* closes.
LEMMA EventLockKept ==
  ASSUME Types, Locks, [Next]_vars, NEW x \in Thread
  PROVE  HoldsEvents(x)' <=> events_lock' = x
<1>1. \A t \in Thread : HoldsEvents(t) <=> events_lock = t
  BY DEF Locks
<1>2. pc \in [Thread -> Labels]
  BY DEF Types, ThreadType
<1> USE DEF Go, At, HoldsEvents, InTimeouts, HandlerLabels, TimeoutLabels
<1>3. ASSUME NEW t \in Thread, TryLock(t)
      PROVE  HoldsEvents(x)' <=> events_lock' = x
  <2>1. CASE events_lock = None
    BY <1>1, <1>2, <1>3, <2>1, EventsAssumption DEF TryLock
  <2>2. CASE events_lock # None
    BY <1>1, <1>2, <1>3, <2>2 DEF TryLock
  <2> QED BY <2>1, <2>2
<1>4. ASSUME NEW t \in Thread, LockEvents(t)
      PROVE  HoldsEvents(x)' <=> events_lock' = x
  BY <1>1, <1>2, <1>4, EventsAssumption DEF LockEvents
<1>5. ASSUME NEW t \in Thread, UnlockEvents(t)
      PROVE  HoldsEvents(x)' <=> events_lock' = x
  BY <1>1, <1>2, <1>5, EventsAssumption DEF UnlockEvents
<1>6. ASSUME NEW t \in Thread, NoMemory(t)
      PROVE  HoldsEvents(x)' <=> events_lock' = x
  BY <1>1, <1>2, <1>6, EventsAssumption DEF NoMemory
<1> HIDE DEF Go, At, HoldsEvents, InTimeouts, HandlerLabels, TimeoutLabels
<1> QED BY <1>1, <1>3, <1>4, <1>5, <1>6, EventLockChanges, HoldersMove

\* The lock of the list is held by the one that handles timeouts.
LEMMA ListLockKept ==
  ASSUME Types, Locks, [Next]_vars, NEW x \in Thread
  PROVE  pc'[x] \in {"timeouts", "timed_out"} <=> flying_transfers_lock' = x
<1>1. \A t \in Thread : pc[t] \in {"timeouts", "timed_out"} <=> flying_transfers_lock = t
  BY DEF Locks
<1>2. pc \in [Thread -> Labels] /\ back \in [Thread -> {"wait", "woken", "reap", "unlock", "cancel", "again"}]
  BY DEF Types, ThreadType
<1> USE DEF Go, At, threadVars, listVars
<1>3. ASSUME NEW t \in Thread,
             \/ Submit(t) \/ BackendSubmits(t) \/ BackendRefuses(t) \/ Unsubmit(t)
             \/ LockFlying(t) \/ HandleTimeout(t) \/ TimedOut(t) \/ TimeoutsHandled(t)
      PROVE  pc'[x] \in {"timeouts", "timed_out"} <=> flying_transfers_lock' = x
  BY <1>1, <1>2, <1>3, EventsAssumption
     DEF Submit, BackendSubmits, BackendRefuses, Unsubmit, LockFlying, HandleTimeout, TimedOut, TimeoutsHandled
<1>4. ASSUME NEW t \in Thread,
             \/ Return(t) \/ GiveUp(t) \/ NextTimeout(t) \/ Try(t) \/ TryLock(t) \/ NoMemory(t) \/ Waiters(t)
             \/ WaitOrRetry(t) \/ WaitTimesOut(t)
      PROVE  pc'[x] \in {"timeouts", "timed_out"} <=> flying_transfers_lock' = x
  BY <1>1, <1>2, <1>4
     DEF Return, GiveUp, NextTimeout, CallHandleTimeouts, Try, TryLock, NoMemory, Waiters, WaitOrRetry, WaitTimesOut
<1>5. ASSUME NEW t \in Thread,
             \/ Poll(t) \/ HandlingFails(t) \/ (\E late : PollTimesOut(t, late)) \/ handle_event_trigger(t)
             \/ RemoveBroken(t) \/ Reap(t) \/ NothingToReap(t) \/ Disconnected(t)
             \/ Cancellation(t) \/ Completion(t)
      PROVE  pc'[x] \in {"timeouts", "timed_out"} <=> flying_transfers_lock' = x
  BY <1>1, <1>2, <1>5 DEF Poll, HandlingFails, PollTimesOut, CallHandleTimeouts, handle_event_trigger, RemoveBroken, Reap,
    NothingToReap, AtDevice, Disconnected, Cancellation, Completion
<1>6. ASSUME NEW t \in Thread,
             \/ UnlockEvents(t) \/ Broadcast(t) \/ AnnounceClose(t) \/ LockEvents(t) \/ DoClose(t)
             \/ Closed(t) \/ AllClosed(t)
      PROVE  pc'[x] \in {"timeouts", "timed_out"} <=> flying_transfers_lock' = x
  BY <1>1, <1>2, <1>6 DEF UnlockEvents, Broadcast, Afterwards, AnnounceClose, LockEvents, DoClose, Closed, AllClosed
<1>7. ASSUME NEW t \in Thread, DeviceAnswers(t) \/ Unplugged(t) \/ Interrupt(t)
      PROVE  pc' = pc /\ flying_transfers_lock' = flying_transfers_lock
  BY <1>7 DEF DeviceAnswers, Unplugged, Interrupt
<1>8. CASE Tick \/ UNCHANGED vars
  BY <1>1, <1>8 DEF Tick, vars
<1> QED BY <1>1, <1>3, <1>4, <1>5, <1>6, <1>7, <1>8, Steps

\* Both locks.
LEMMA LocksKept ==
  ASSUME Types, Locks, [Next]_vars
  PROVE  Locks'
BY EventLockKept, ListLockKept DEF Locks

\* A stale list of descriptors is marked as such, and nobody polls with it; what
\* a poll found is dealt with before anyone closes a handle.
Sources ==
  /\ event_sources \subseteq open
  /\ "SOURCES_MODIFIED" \in event_flags \/ event_data \subseteq event_sources
  /\ \A t \in Thread : pc[t] = "poll" => event_data \subseteq open
  /\ \A t \in Thread : reported[t].ready \subseteq open
  /\ \A t \in Thread : ~Reporting(t) => reported[t].ready = {}

\* Polling starts with the event lock, and what it finds is forgotten with it.
LEMMA PollersMove ==
  ASSUME Types, [Next]_vars, NEW x \in Thread
  PROVE  /\ Reporting(x) => Reporting(x)' \/ UnlockEvents(x)
         /\ pc'[x] = "poll" => pc[x] = "poll" \/ TryLock(x)
<1>1. pc \in [Thread -> Labels] /\ back \in [Thread -> {"wait", "woken", "reap", "unlock", "cancel", "again"}]
  BY DEF Types, ThreadType
<1> DEFINE moved == /\ Reporting(x) => Reporting(x)'
                    /\ pc'[x] = "poll" => pc[x] = "poll"
<1> USE DEF Go, At, threadVars, Reporting, InTimeouts, TimeoutLabels
<1>2. ASSUME NEW t \in Thread,
             \/ Submit(t) \/ BackendSubmits(t) \/ BackendRefuses(t) \/ Unsubmit(t)
             \/ LockFlying(t) \/ HandleTimeout(t) \/ TimedOut(t) \/ TimeoutsHandled(t)
      PROVE  moved
  BY <1>1, <1>2
     DEF Submit, BackendSubmits, BackendRefuses, Unsubmit, LockFlying, HandleTimeout, TimedOut, TimeoutsHandled
<1>3. ASSUME NEW t \in Thread,
             \/ Return(t) \/ GiveUp(t) \/ NextTimeout(t) \/ Try(t) \/ NoMemory(t) \/ Waiters(t)
             \/ WaitOrRetry(t) \/ WaitTimesOut(t)
      PROVE  moved
  BY <1>1, <1>3 DEF Return, GiveUp, NextTimeout, CallHandleTimeouts, Try, NoMemory, Waiters, WaitOrRetry, WaitTimesOut
<1>4. ASSUME NEW t \in Thread,
             \/ Poll(t) \/ HandlingFails(t) \/ (\E late : PollTimesOut(t, late)) \/ handle_event_trigger(t)
             \/ RemoveBroken(t) \/ Reap(t) \/ NothingToReap(t) \/ Disconnected(t)
             \/ Cancellation(t) \/ Completion(t)
      PROVE  moved
  BY <1>1, <1>4 DEF Poll, HandlingFails, PollTimesOut, CallHandleTimeouts, handle_event_trigger, RemoveBroken, Reap,
    NothingToReap, AtDevice, Disconnected, Cancellation, Completion
<1>5. ASSUME NEW t \in Thread,
             \/ Broadcast(t) \/ AnnounceClose(t) \/ LockEvents(t) \/ DoClose(t) \/ Closed(t) \/ AllClosed(t)
      PROVE  moved
  BY <1>1, <1>5 DEF Broadcast, Afterwards, AnnounceClose, LockEvents, DoClose, Closed, AllClosed
<1>6. ASSUME NEW t \in Thread, t # x, TryLock(t) \/ UnlockEvents(t)
      PROVE  moved
  BY <1>1, <1>6 DEF TryLock, UnlockEvents
<1>7. ASSUME TryLock(x)
      PROVE  Reporting(x) => Reporting(x)'
  BY <1>1, <1>7 DEF TryLock
<1>8. ASSUME UnlockEvents(x)
      PROVE  pc'[x] = "poll" => pc[x] = "poll"
  BY <1>1, <1>8 DEF UnlockEvents
<1>9. ASSUME NEW t \in Thread, DeviceAnswers(t) \/ Unplugged(t) \/ Interrupt(t)
      PROVE  moved
  BY <1>9 DEF DeviceAnswers, Unplugged, Interrupt
<1>10. CASE Tick \/ UNCHANGED vars
  BY <1>10 DEF Tick, vars
<1> HIDE DEF Go, At, threadVars, Reporting, InTimeouts, TimeoutLabels
<1> QED BY <1>2, <1>3, <1>4, <1>5, <1>6, <1>7, <1>8, <1>9, <1>10, Steps

\* Only closing takes a handle away, under the event lock.
LEMMA OpenMoves ==
  ASSUME Types, Locks, [Next]_vars
  PROVE  \/ open' = open
         \/ \E t \in Thread :
              /\ DoClose(t) /\ open' = open \ {subject[t].of}
              /\ \A x \in Thread : HoldsEvents(x) => x = t
              /\ pc[t] = "do_close"
<1>1. ASSUME NEW t \in Thread, DoClose(t)
      PROVE  /\ open' = open \ {subject[t].of} /\ pc[t] = "do_close"
             /\ \A x \in Thread : HoldsEvents(x) => x = t
  <2>1. open' = open \ {subject[t].of} /\ pc[t] = "do_close"
    BY <1>1 DEF DoClose, At
  <2>2. HoldsEvents(t)
    BY <2>1 DEF HoldsEvents
  <2> QED BY <2>1, <2>2 DEF Locks
<1> QED BY <1>1, WorldChanges DEF Unplugged

\* The descriptors that are polled and those that are reported are open.
LEMMA SourcesKept ==
  ASSUME Types, Locks, Sources, [Next]_vars
  PROVE  Sources'
<1>1. /\ pc \in [Thread -> Labels] /\ reported \in [Thread -> Reports]
      /\ event_data \in SUBSET Thread /\ event_sources \in SUBSET Thread /\ open \in SUBSET Thread
  BY DEF Types, ThreadType, ContextType, WorldType
<1>2. event_sources' \subseteq open'
  <2>1. ASSUME NEW t \in Thread, DoClose(t)
        PROVE  event_sources' \subseteq open'
    BY <2>1 DEF DoClose, Sources
  <2>2. ASSUME NEW t \in Thread, RemoveBroken(t)
        PROVE  event_sources' \subseteq open'
    BY <2>2 DEF RemoveBroken, Sources, worldVars
  <2>3. CASE UNCHANGED event_sources
    BY <2>1, <2>3, OpenMoves DEF Sources
  <2> QED BY <2>1, <2>2, <2>3, SourceChanges
<1>3. "SOURCES_MODIFIED" \in event_flags' \/ event_data' \subseteq event_sources'
  <2>1. "SOURCES_MODIFIED" \in event_flags \/ event_data \subseteq event_sources
    BY DEF Sources
  <2>2. ASSUME NEW t \in Thread, TryLock(t) \/ NoMemory(t) \/ handle_event_trigger(t)
        PROVE  "SOURCES_MODIFIED" \in event_flags' \/ event_data' \subseteq event_sources'
    BY <2>1, <2>2 DEF TryLock, NoMemory, PrepareEvents, eventVars, handle_event_trigger
  <2>3. ASSUME NEW t \in Thread, RemoveBroken(t) \/ DoClose(t)
        PROVE  "SOURCES_MODIFIED" \in event_flags' \/ event_data' \subseteq event_sources'
    BY <2>1, <2>3 DEF RemoveBroken, DoClose, Notify
  <2>4. ASSUME NEW t \in Thread, AnnounceClose(t) \/ Closed(t) \/ Interrupt(t)
        PROVE  "SOURCES_MODIFIED" \in event_flags' \/ event_data' \subseteq event_sources'
    BY <2>1, <2>4 DEF AnnounceClose, Closed, Interrupt, Notify
  <2> QED BY <2>1, <2>2, <2>3, <2>4, EventChanges, SourceChanges
<1>4. ASSUME NEW x \in Thread, pc'[x] = "poll"
      PROVE  event_data' \subseteq open'
  <2>1. CASE TryLock(x)
    <3>1. event_data' \subseteq event_sources /\ open' = open
      <4>1. events_lock = None /\ PrepareEvents /\ open' = open
        BY <1>1, <1>4, <2>1 DEF TryLock, Go, worldVars
      <4> QED BY <4>1 DEF PrepareEvents, Sources
    <3> QED BY <3>1 DEF Sources
  <2>2. CASE pc[x] = "poll"
    <3>1. HoldsEvents(x) /\ events_lock = x
      BY <2>2 DEF HoldsEvents, HandlerLabels, Locks
    <3>2. event_data' = event_data
      <4>1. ASSUME NEW t \in Thread, TryLock(t) \/ NoMemory(t)
            PROVE  event_data' = event_data
        BY <3>1, <4>1, EventsAssumption DEF TryLock, NoMemory, eventVars
      <4>2. ASSUME NEW t \in Thread,
                   \/ handle_event_trigger(t) \/ RemoveBroken(t) \/ AnnounceClose(t) \/ DoClose(t)
                   \/ Closed(t) \/ Interrupt(t)
            PROVE  event_data' = event_data
        BY <4>2 DEF handle_event_trigger, RemoveBroken, AnnounceClose, DoClose, Closed, Interrupt
      <4> QED BY <4>1, <4>2, EventChanges
    <3>3. open' = open
      BY <2>2, <3>1, OpenMoves
    <3> QED BY <2>2, <3>2, <3>3 DEF Sources
  <2> QED BY <1>4, <2>1, <2>2, PollersMove
<1>5. ASSUME NEW x \in Thread
      PROVE  reported'[x].ready = reported[x].ready \/ Poll(x) \/ UnlockEvents(x)
             \/ (reported'[x].ready \subseteq reported[x].ready /\ open' = open)
  <2>1. ASSUME NEW t \in Thread, Poll(t) \/ UnlockEvents(t), t # x
        PROVE  reported'[x].ready = reported[x].ready
    BY <1>1, <2>1 DEF Poll, UnlockEvents
  <2>2. ASSUME NEW t \in Thread, NothingToReap(t) \/ Disconnected(t)
        PROVE  reported'[x].ready \subseteq reported[x].ready /\ open' = open
    <3>1. reported' = reported \/ reported' = [reported EXCEPT ![t].ready = @ \ {Device(t)}, ![t].error = @ \ {Device(t)}]
      BY <2>2 DEF NothingToReap, Disconnected, DeviceDone
    <3>2. open' = open
      BY <2>2 DEF NothingToReap, Disconnected, worldVars
    <3> QED BY <1>1, <3>1, <3>2 DEF Reports
  <2> QED BY <2>1, <2>2, ReportChanges
<1>6. ASSUME NEW x \in Thread, Poll(x)
      PROVE  Reporting(x)' /\ reported'[x].ready \subseteq open' /\ open' = open
  <2>1. pc'[x] = "events" /\ reported'[x].ready = Readable /\ open' = open
    BY <1>1, <1>6 DEF Poll, Go, worldVars, Reports
  <2> QED BY <2>1 DEF Reporting, Readable
<1>7. ASSUME NEW x \in Thread, UnlockEvents(x)
      PROVE  reported'[x].ready = {}
  BY <1>1, <1>7 DEF UnlockEvents, Nothing
<1>8. ASSUME NEW x \in Thread
      PROVE  reported'[x].ready \subseteq open'
  <2>1. CASE reported'[x].ready = reported[x].ready
    <3>1. ASSUME NEW t \in Thread, pc[t] = "do_close", \A y \in Thread : HoldsEvents(y) => y = t
          PROVE  reported[x].ready = {}
      <4>1. ~Reporting(x)
        BY <3>1 DEF Reporting, HoldsEvents, HandlerLabels, InTimeouts, TimeoutLabels
      <4> QED BY <4>1 DEF Sources
    <3> QED BY <2>1, <3>1, OpenMoves DEF Sources
  <2> QED BY <1>5, <1>6, <1>7, <2>1 DEF Sources
<1>9. ASSUME NEW x \in Thread, ~Reporting(x)'
      PROVE  reported'[x].ready = {}
  <2>1. ~Reporting(x) \/ UnlockEvents(x)
    BY <1>9, PollersMove
  <2>2. ~Reporting(x) => reported[x].ready = {}
    BY DEF Sources
  <2> QED BY <1>5, <1>6, <1>7, <1>9, <2>1, <2>2
<1> QED BY <1>2, <1>3, <1>4, <1>8, <1>9 DEF Sources

\* The handle of the transfer that is being ended is still open, and one that is
\* being closed is not being submitted to.
Completing == \A t \in Thread : pc[t] \in {"cancellation", "completion"} => subject[t].of \in open
Closing == \A t \in Thread : pc[t] \in CloserLabels => pc[subject[t].of] \notin EarlyLabels

\* How a thread comes to end a transfer, or to close a handle, and what it notes
\* about that stays noted until it is done.
LEMMA PurposeMoves ==
  ASSUME Types, [Next]_vars, NEW x \in Thread
  PROVE  /\ pc'[x] \in {"cancellation", "completion"} =>
              \/ Reap(x) \/ Disconnected(x) \/ Cancellation(x)
              \/ pc[x] = pc'[x] /\ subject'[x] = subject[x]
         /\ pc'[x] \in CloserLabels =>
              \/ AnnounceClose(x)
              \/ pc[x] \in CloserLabels /\ subject'[x] = subject[x]
         /\ pc'[x] = "timed_out" => HandleTimeout(x) \/ (pc[x] = "timed_out" /\ subject'[x] = subject[x])
<1>1. /\ pc \in [Thread -> Labels] /\ back \in [Thread -> {"wait", "woken", "reap", "unlock", "cancel", "again"}]
      /\ subject \in [Thread -> [of : Thread \cup {None}, status : Statuses]]
  BY DEF Types, ThreadType
<1> DEFINE moved ==
      /\ pc'[x] \in {"cancellation", "completion"} => pc[x] = pc'[x] /\ subject'[x] = subject[x]
      /\ pc'[x] \in CloserLabels => pc[x] \in CloserLabels /\ subject'[x] = subject[x]
      /\ pc'[x] = "timed_out" => pc[x] = "timed_out" /\ subject'[x] = subject[x]
<1> USE DEF Go, At, threadVars, CloserLabels
<1>2. ASSUME NEW t \in Thread,
             \/ Submit(t) \/ BackendSubmits(t) \/ BackendRefuses(t) \/ Unsubmit(t)
             \/ LockFlying(t) \/ TimedOut(t) \/ TimeoutsHandled(t)
      PROVE  moved
  BY <1>1, <1>2 DEF Submit, BackendSubmits, BackendRefuses, Unsubmit, LockFlying, TimedOut, TimeoutsHandled
<1>3. ASSUME NEW t \in Thread,
             \/ Return(t) \/ GiveUp(t) \/ NextTimeout(t) \/ Try(t) \/ TryLock(t) \/ NoMemory(t) \/ Waiters(t)
             \/ WaitOrRetry(t) \/ WaitTimesOut(t)
      PROVE  moved
  BY <1>1, <1>3 DEF Return, GiveUp, NextTimeout, CallHandleTimeouts, Try, TryLock, NoMemory, Waiters, WaitOrRetry, WaitTimesOut
<1>4. ASSUME NEW t \in Thread,
             \/ Poll(t) \/ HandlingFails(t) \/ (\E late : PollTimesOut(t, late)) \/ handle_event_trigger(t)
             \/ RemoveBroken(t) \/ NothingToReap(t) \/ Completion(t)
      PROVE  moved
  BY <1>1, <1>4 DEF Poll, HandlingFails, PollTimesOut, CallHandleTimeouts, handle_event_trigger, RemoveBroken,
    NothingToReap, Completion
<1>5. ASSUME NEW t \in Thread,
             \/ UnlockEvents(t) \/ Broadcast(t) \/ LockEvents(t) \/ DoClose(t) \/ Closed(t) \/ AllClosed(t)
      PROVE  moved
  BY <1>1, <1>5 DEF UnlockEvents, Broadcast, Afterwards, LockEvents, DoClose, Closed, AllClosed
<1>6. ASSUME NEW t \in Thread, t # x,
             \/ HandleTimeout(t) \/ Reap(t) \/ Disconnected(t) \/ Cancellation(t) \/ AnnounceClose(t)
      PROVE  moved
  BY <1>1, <1>6 DEF HandleTimeout, Reap, Disconnected, Cancellation, AnnounceClose
<1>7. ASSUME Reap(x) \/ Disconnected(x) \/ Cancellation(x)
      PROVE  pc'[x] \notin CloserLabels \cup {"timed_out"}
  BY <1>1, <1>7 DEF Reap, Disconnected, AtDevice, Cancellation
<1>8. ASSUME HandleTimeout(x)
      PROVE  pc'[x] \notin CloserLabels \cup {"cancellation", "completion"}
  BY <1>1, <1>8 DEF HandleTimeout
<1>9. ASSUME AnnounceClose(x)
      PROVE  pc'[x] \notin {"timed_out", "cancellation", "completion"}
  BY <1>1, <1>9 DEF AnnounceClose
<1>10. ASSUME NEW t \in Thread, DeviceAnswers(t) \/ Unplugged(t) \/ Interrupt(t)
       PROVE  moved
  BY <1>10 DEF DeviceAnswers, Unplugged, Interrupt
<1>11. CASE Tick \/ UNCHANGED vars
  BY <1>11 DEF Tick, vars
<1> HIDE DEF Go, At, threadVars, CloserLabels
<1> QED BY <1>2, <1>3, <1>4, <1>5, <1>6, <1>7, <1>8, <1>9, <1>10, <1>11, Steps

\* No handle is closed while its transfer is being ended.
LEMMA CompletingKept ==
  ASSUME Types, Locks, Sources, Completing, [Next]_vars
  PROVE  Completing'
<1> SUFFICES ASSUME NEW x \in Thread, pc'[x] \in {"cancellation", "completion"}
             PROVE  subject'[x].of \in open'
  BY DEF Completing
<1>1. /\ pc \in [Thread -> Labels]
      /\ subject \in [Thread -> [of : Thread \cup {None}, status : Statuses]]
  BY DEF Types, ThreadType
<1>2. pc[x] \in {"reap", "cancellation", "completion"} => open' = open
  <2>1. pc[x] \in {"reap", "cancellation", "completion"} => HoldsEvents(x) /\ pc[x] # "do_close"
    BY DEF HoldsEvents, HandlerLabels
  <2> QED BY <2>1, OpenMoves
<1>3. CASE Reap(x)
  <2>1. PICK u : LET h == Device(x)
                 IN /\ h \in reported[x].ready /\ pc[x] = "reap"
                    /\ \/ UNCHANGED <<pc, subject>>
                       \/ subject' = [subject EXCEPT ![x] = [of |-> h, status |-> u.reap_status]]
    BY <1>3, ReapMakes
  <2>2. subject'[x].of = Device(x)
    BY <1>1, <2>1
  <2> QED BY <1>2, <2>1, <2>2 DEF Sources
<1>4. CASE Disconnected(x)
  <2>1. Device(x) \in reported[x].ready /\ pc[x] = "reap"
    BY <1>4, DeviceKnown DEF Disconnected, AtDevice, At
  <2>2. \/ UNCHANGED <<pc, subject>>
        \/ subject' = [subject EXCEPT ![x] = [of |-> Device(x), status |-> "NO_DEVICE"]]
    BY <1>4 DEF Disconnected
  <2>3. subject'[x].of = Device(x)
    BY <1>1, <2>1, <2>2
  <2> QED BY <1>2, <2>1, <2>3 DEF Sources
<1>5. CASE Cancellation(x)
  <2>1. pc[x] = "cancellation" /\ subject'[x].of = subject[x].of
    BY <1>1, <1>5 DEF Cancellation, At
  <2> QED BY <1>2, <2>1 DEF Completing
<1>6. CASE pc[x] = pc'[x] /\ subject'[x] = subject[x]
  BY <1>2, <1>6 DEF Completing
<1> QED BY <1>3, <1>4, <1>5, <1>6, PurposeMoves

\* No handle is closed while its transfer is being submitted.
LEMMA ClosingKept ==
  ASSUME Types, Closing, [Next]_vars
  PROVE  Closing'
<1> SUFFICES ASSUME NEW x \in Thread, pc'[x] \in CloserLabels
             PROVE  pc'[subject'[x].of] \notin EarlyLabels
  BY DEF Closing
<1>1. /\ pc \in [Thread -> Labels]
      /\ subject \in [Thread -> [of : Thread \cup {None}, status : Statuses]]
  BY DEF Types, ThreadType
<1>2. CASE AnnounceClose(x)
  <2> DEFINE h == CHOOSE h \in ToClose(x) : TRUE
  <2>1. h \in ToClose(x) /\ h \in Thread
    BY <1>2 DEF AnnounceClose, ToClose, Types, WorldType
  <2>2. subject'[x].of = h
    BY <1>1, <1>2 DEF AnnounceClose
  <2>3. h = x \/ pc[h] \notin EarlyLabels
    BY <2>1 DEF ToClose, EarlyLabels
  <2>4. pc[x] = "close"
    BY <1>2 DEF AnnounceClose, At
  <2> QED BY <2>1, <2>2, <2>3, <2>4, EarlyOnce DEF EarlyLabels
<1>3. CASE pc[x] \in CloserLabels /\ subject'[x] = subject[x]
  <2>1. pc[subject[x].of] \notin EarlyLabels /\ subject[x].of \in Thread
    BY <1>3 DEF Closing, Types, Subjects
  <2> QED BY <1>3, <2>1, EarlyOnce
<1> QED BY <1>2, <1>3, PurposeMoves

\* HandlesOpen is in Sources and Completing.
LEMMA HandlesOpenFollows ==
  ASSUME Sources, Completing
  PROVE  HandlesOpen
BY DEF HandlesOpen, Sources, Completing

(***************************************************************************)
(* The list of flying transfers.                                           *)
(***************************************************************************)
Distinct(list) == \A i, j \in 1 .. Len(list) : i < j => list[i] # list[j]
Sorted(list, deadline) ==
  \A i, j \in 1 .. Len(list) :
    i < j => LET d == deadline[list[i]]
                 e == deadline[list[j]]
             IN e = 0 \/ (d # 0 /\ d <= e)

\* Without the one at some place the others are there, in their order.
LEMMA WithoutOne ==
  ASSUME NEW S, NEW list \in Seq(S), NEW new \in Seq(S), NEW at \in 1 .. Len(list),
         Len(new) = Len(list) - 1,
         \A i \in 1 .. Len(list) - 1 : new[i] = IF i < at THEN list[i] ELSE list[i + 1],
         NEW deadline, Distinct(list), Sorted(list, deadline)
  PROVE  /\ Distinct(new) /\ Sorted(new, deadline)
         /\ \A y : y \in ToSet(new) <=> y \in ToSet(list) /\ y # list[at]
<1> DEFINE old(i) == IF i < at THEN i ELSE i + 1
<1>1. /\ \A i \in 1 .. Len(new) : old(i) \in 1 .. Len(list) /\ new[i] = list[old(i)] /\ old(i) # at
      /\ \A i, j \in 1 .. Len(new) : i < j => old(i) < old(j)
      /\ \A k \in 1 .. Len(list) : k # at => \E i \in 1 .. Len(new) : old(i) = k
  <2>1. ASSUME NEW k \in 1 .. Len(list), k # at
        PROVE  \E i \in 1 .. Len(new) : old(i) = k
    <3>1. CASE k < at
      <4>1. k \in 1 .. Len(new) /\ old(k) = k
        BY <3>1
      <4> QED BY <4>1
    <3>2. CASE k > at
      <4>1. k - 1 \in 1 .. Len(new) /\ old(k - 1) = k
        BY <3>2
      <4> QED BY <4>1
    <3> QED BY <2>1, <3>1, <3>2
  <2>2. \A i \in 1 .. Len(new) : old(i) \in 1 .. Len(list) /\ new[i] = list[old(i)] /\ old(i) # at
    OBVIOUS
  <2>3. \A i, j \in 1 .. Len(new) : i < j => old(i) < old(j)
    OBVIOUS
  <2> QED BY <2>1, <2>2, <2>3
<1> HIDE DEF old
<1>2. ASSUME NEW i \in 1 .. Len(new), NEW j \in 1 .. Len(new), i < j
      PROVE  /\ new[i] # new[j]
             /\ deadline[new[j]] = 0 \/ (deadline[new[i]] # 0 /\ deadline[new[i]] <= deadline[new[j]])
  <2>1. /\ old(i) \in 1 .. Len(list) /\ old(j) \in 1 .. Len(list) /\ old(i) < old(j)
        /\ new[i] = list[old(i)] /\ new[j] = list[old(j)]
    BY <1>1, <1>2
  <2> QED BY <2>1 DEF Distinct, Sorted
<1>3. Distinct(new) /\ Sorted(new, deadline)
  BY <1>2 DEF Distinct, Sorted
<1>4. ASSUME NEW y
      PROVE  y \in ToSet(new) <=> y \in ToSet(list) /\ y # list[at]
  <2>1. y \in ToSet(new) <=> \E i \in 1 .. Len(new) : new[i] = y
    BY PlaceOf
  <2>2. y \in ToSet(list) <=> \E i \in 1 .. Len(list) : list[i] = y
    BY PlaceOf
  <2>3. \A k \in 1 .. Len(list) : list[k] = list[at] <=> k = at
    BY DEF Distinct
  <2> QED BY <1>1, <2>1, <2>2, <2>3
<1> QED BY <1>3, <1>4

\* list_del takes off the one place of x.
LEMMA DeletedOrder ==
  ASSUME NEW S, NEW list \in Seq(S), NEW x, NEW deadline, Distinct(list), Sorted(list, deadline)
  PROVE  /\ list_del(list, x) \in Seq(S) /\ Distinct(list_del(list, x)) /\ Sorted(list_del(list, x), deadline)
         /\ \A y : y \in ToSet(list_del(list, x)) <=> y \in ToSet(list) /\ y # x
<1>1. CASE x \notin ToSet(list)
  BY <1>1, Deleted
<1>2. CASE x \in ToSet(list)
  <2> DEFINE new == list_del(list, x)
  <2>1. PICK at \in 1 .. Len(list) :
          /\ new \in Seq(S) /\ list[at] = x /\ Len(new) = Len(list) - 1
          /\ \A i \in 1 .. Len(list) - 1 : new[i] = IF i < at THEN list[i] ELSE list[i + 1]
    BY <1>2, Deleted
  <2> HIDE DEF new
  <2>2. /\ Distinct(new) /\ Sorted(new, deadline)
        /\ \A y : y \in ToSet(new) <=> y \in ToSet(list) /\ y # list[at]
    BY <2>1, WithoutOne
  <2> QED BY <2>1, <2>2 DEF new
<1> QED BY <1>1, <1>2

\* new is list with x at a place, between those that expire no later and those
\* that expire later.
PutBetween(new, list, x, at, d, deadline) ==
  /\ at \in 1 .. Len(list) + 1 /\ Len(new) = Len(list) + 1
  /\ \A i \in 1 .. Len(list) + 1 :
       new[i] = IF i < at THEN list[i] ELSE IF i = at THEN x ELSE list[i - 1]
  /\ \A i \in 1 .. at - 1 : d = 0 \/ (deadline[list[i]] # 0 /\ deadline[list[i]] <= d)
  /\ at <= Len(list) => d # 0 /\ (deadline[list[at]] = 0 \/ deadline[list[at]] > d)

\* With one more at its place the order is still one, with that one's deadline.
LEMMA WithOne ==
  ASSUME NEW S, NEW list \in Seq(S), NEW new \in Seq(S), NEW x \in S, NEW d \in Nat,
         NEW deadline \in [S -> Nat], NEW at \in 1 .. Len(list) + 1, PutBetween(new, list, x, at, d, deadline),
         Distinct(list), Sorted(list, deadline), x \notin ToSet(list)
  PROVE  /\ Distinct(new) /\ Sorted(new, [deadline EXCEPT ![x] = d])
         /\ \A y : y \in ToSet(new) <=> y \in ToSet(list) \/ y = x
<1>1. /\ at \in Nat /\ 1 <= at /\ at <= Len(list) + 1 /\ Len(new) = Len(list) + 1
      /\ Len(list) \in Nat /\ Len(new) \in Nat
      /\ \A i \in 1 .. Len(list) + 1 :
           new[i] = IF i < at THEN list[i] ELSE IF i = at THEN x ELSE list[i - 1]
      /\ \A i \in 1 .. at - 1 : d = 0 \/ (deadline[list[i]] # 0 /\ deadline[list[i]] <= d)
      /\ at <= Len(list) => d # 0 /\ (deadline[list[at]] = 0 \/ deadline[list[at]] > d)
  BY DEF PutBetween
<1>2. /\ \A k \in 1 .. Len(new) : k \in Nat /\ k \in 1 .. Len(list) + 1
      /\ \A k \in 1 .. Len(new) : k < at => k \in 1 .. Len(list) /\ k \in 1 .. at - 1 /\ new[k] = list[k]
      /\ \A k \in 1 .. Len(new) : at < k => k - 1 \in 1 .. Len(list) /\ at <= k - 1 /\ new[k] = list[k - 1]
      /\ new[at] = x /\ at \in 1 .. Len(new)
  <2>1. \A k \in 1 .. Len(new) : k \in Nat /\ k \in 1 .. Len(list) + 1
    BY <1>1
  <2>2. ASSUME NEW k \in 1 .. Len(new), k < at
        PROVE  k \in 1 .. Len(list) /\ k \in 1 .. at - 1 /\ new[k] = list[k]
    BY <1>1, <2>2
  <2>3. ASSUME NEW k \in 1 .. Len(new), at < k
        PROVE  k - 1 \in 1 .. Len(list) /\ at <= k - 1 /\ new[k] = list[k - 1]
    <3>1. k \in 1 .. Len(list) + 1 /\ ~(k < at) /\ k # at
      BY <1>1, <2>1, <2>3
    <3>2. new[k] = list[k - 1]
      BY <1>1, <3>1
    <3>3. k - 1 \in 1 .. Len(list) /\ at <= k - 1
      BY <1>1, <2>3, <3>1
    <3> QED BY <3>2, <3>3
  <2>4. new[at] = x /\ at \in 1 .. Len(new)
    BY <1>1
  <2> QED BY <2>1, <2>2, <2>3, <2>4
<1> DEFINE after == [deadline EXCEPT ![x] = d]
<1>3. \A i \in 1 .. Len(list) : list[i] \in S /\ list[i] # x /\ after[list[i]] = deadline[list[i]] /\ deadline[list[i]] \in Nat
  BY PlaceOf
<1>4. after[x] = d
  BY <1>1
<1> HIDE DEF after
<1>5. ASSUME NEW i \in 1 .. Len(new), NEW j \in 1 .. Len(new), i < j
      PROVE  /\ new[i] # new[j]
             /\ after[new[j]] = 0 \/ (after[new[i]] # 0 /\ after[new[i]] <= after[new[j]])
  <2>1. i \in Nat /\ j \in Nat /\ at \in Nat /\ i < j
    BY <1>1, <1>2, <1>5
  <2>2. CASE j < at
    <3>1. i < at
      BY <2>1, <2>2
    <3>2. new[i] = list[i] /\ i \in 1 .. Len(list)
      BY <1>2, <3>1
    <3>3. new[j] = list[j] /\ j \in 1 .. Len(list)
      BY <1>2, <2>2
    <3> QED BY <1>3, <1>5, <3>2, <3>3 DEF Distinct, Sorted
  <2>3. CASE j = at
    <3>1. new[i] = list[i] /\ new[j] = x /\ i \in 1 .. Len(list) /\ i \in 1 .. at - 1
      <4>1. i < at
        BY <2>1, <2>3
      <4> QED BY <1>2, <2>3, <4>1
    <3>2. d = 0 \/ (deadline[list[i]] # 0 /\ deadline[list[i]] <= d)
      BY <1>1, <3>1
    <3>3. list[i] # x /\ after[list[i]] = deadline[list[i]]
      BY <1>3, <3>1
    <3> QED BY <1>4, <3>1, <3>2, <3>3
  <2>4. CASE i < at /\ at < j
    <3>1. new[i] = list[i] /\ new[j] = list[j - 1] /\ i \in 1 .. Len(list) /\ j - 1 \in 1 .. Len(list) /\ i < j - 1
      <4>1. new[i] = list[i] /\ i \in 1 .. Len(list)
        BY <1>2, <2>4
      <4>2. new[j] = list[j - 1] /\ j - 1 \in 1 .. Len(list)
        BY <1>2, <2>4
      <4>3. i < j - 1
        BY <2>1, <2>4
      <4> QED BY <4>1, <4>2, <4>3
    <3> QED BY <1>3, <3>1 DEF Distinct, Sorted
  <2>5. CASE i = at
    <3>1. new[i] = x /\ new[j] = list[j - 1] /\ j - 1 \in 1 .. Len(list) /\ at <= j - 1 /\ at \in 1 .. Len(list)
      <4>1. at < j
        BY <2>1, <2>5
      <4>2. new[j] = list[j - 1] /\ j - 1 \in 1 .. Len(list) /\ at <= j - 1
        BY <1>2, <4>1
      <4>3. \A l, p, q \in Nat : 1 <= p /\ p <= q /\ q <= l => p \in 1 .. l
        OBVIOUS
      <4>4. j - 1 \in Nat /\ j - 1 <= Len(list)
        BY <1>1, <4>2
      <4>5. at \in 1 .. Len(list)
        BY <1>1, <4>2, <4>3, <4>4
      <4> QED BY <1>2, <2>5, <4>2, <4>5
    <3>2. at = j - 1 \/ deadline[list[j - 1]] = 0
          \/ (deadline[list[at]] # 0 /\ deadline[list[at]] <= deadline[list[j - 1]])
      <4>1. \A k \in 1 .. Len(list) : at <= k => at = k \/ at < k
        BY <1>1
      <4> QED BY <3>1, <4>1 DEF Sorted
    <3>3. d # 0 /\ (deadline[list[at]] = 0 \/ deadline[list[at]] > d)
      BY <1>1, <3>1
    <3>4. deadline[list[j - 1]] = 0 \/ d <= deadline[list[j - 1]]
      <4>1. deadline[list[j - 1]] \in Nat /\ deadline[list[at]] \in Nat
        BY <1>1, <1>3, <3>1
      <4>2. CASE at = j - 1
        BY <1>1, <3>3, <4>1, <4>2
      <4>3. CASE at # j - 1
        <5>1. \A p, q \in Nat : p # 0 /\ p <= q /\ (p = 0 \/ p > d) => d <= q
          BY <1>1
        <5> QED BY <3>2, <3>3, <4>1, <4>3, <5>1
      <4> QED BY <4>2, <4>3
    <3>5. list[j - 1] # x /\ after[list[j - 1]] = deadline[list[j - 1]]
      BY <1>1, <1>3, <3>1
    <3> QED BY <1>4, <3>1, <3>3, <3>4, <3>5
  <2>6. CASE at < i
    <3>1. new[i] = list[i - 1] /\ new[j] = list[j - 1] /\ i - 1 \in 1 .. Len(list) /\ j - 1 \in 1 .. Len(list) /\ i - 1 < j - 1
      <4>1. at < j /\ i - 1 < j - 1
        BY <2>1, <2>6
      <4> QED BY <1>2, <2>6, <4>1
    <3>2. list[i - 1] # list[j - 1]
      BY <3>1 DEF Distinct
    <3>3. \/ deadline[list[j - 1]] = 0
          \/ deadline[list[i - 1]] # 0 /\ deadline[list[i - 1]] <= deadline[list[j - 1]]
      BY <3>1 DEF Sorted
    <3>4. after[list[i - 1]] = deadline[list[i - 1]] /\ after[list[j - 1]] = deadline[list[j - 1]]
      BY <1>1, <1>3, <3>1
    <3> QED BY <3>1, <3>2, <3>3, <3>4
  <2> QED BY <2>1, <2>2, <2>3, <2>4, <2>5, <2>6
<1>6. Distinct(new) /\ Sorted(new, after)
  BY <1>5 DEF Distinct, Sorted
<1>7. ASSUME NEW y
      PROVE  y \in ToSet(new) <=> y \in ToSet(list) \/ y = x
  <2>1. y \in ToSet(new) <=> \E i \in 1 .. Len(new) : new[i] = y
    BY PlaceOf
  <2>2. y \in ToSet(list) <=> \E i \in 1 .. Len(list) : list[i] = y
    BY PlaceOf
  <2>3. new[at] = x /\ at \in 1 .. Len(new)
    BY <1>1
  <2>4. ASSUME NEW i \in 1 .. Len(new)
        PROVE  new[i] = x \/ \E k \in 1 .. Len(list) : new[i] = list[k]
    <3>1. CASE i < at
      <4>1. i \in 1 .. Len(list) /\ new[i] = list[i]
        BY <1>1, <3>1
      <4> QED BY <4>1
    <3>2. CASE i > at
      <4>1. i - 1 \in 1 .. Len(list) /\ new[i] = list[i - 1]
        BY <1>1, <3>2
      <4> QED BY <4>1
    <3> QED BY <2>3, <3>1, <3>2
  <2>5. ASSUME NEW k \in 1 .. Len(list)
        PROVE  \E i \in 1 .. Len(new) : new[i] = list[k]
    <3>1. CASE k < at
      <4>1. k \in 1 .. Len(new) /\ new[k] = list[k]
        BY <1>1, <3>1
      <4> QED BY <4>1
    <3>2. CASE k >= at
      <4>1. k + 1 \in 1 .. Len(new)
        BY <1>1, <3>2
      <4>2. k + 1 > at /\ (k + 1) - 1 = k
        BY <1>1, <3>2
      <4>3. ~(k + 1 < at) /\ k + 1 # at
        BY ONLY <4>2, at \in Nat, k \in Nat, <3>2
      <4>4. new[k + 1] = list[(k + 1) - 1]
        BY ONLY <1>1, <4>1, <4>3
      <4> QED BY <4>1, <4>2, <4>4
    <3> QED BY <3>1, <3>2
  <2> QED BY <2>1, <2>2, <2>3, <2>4, <2>5
<1> QED BY <1>6, <1>7 DEF after

Listed(x) == x \in ToSet(flying_transfers)
Deadlines == [x \in Thread |-> transfer[x].deadline]
InOrder == Distinct(flying_transfers) /\ Sorted(flying_transfers, Deadlines)

\* add_to_flying_list puts a transfer that is not on the list where it belongs.
LEMMA AddedInOrder ==
  ASSUME Types, InOrder, NEW x \in Thread, ~Listed(x), NEW d \in Nat, add_to_flying_list(x, d)
  PROVE  /\ Distinct(flying_transfers') /\ Sorted(flying_transfers', [Deadlines EXCEPT ![x] = d])
         /\ \A y : y \in ToSet(flying_transfers') <=> y \in ToSet(flying_transfers) \/ y = x
<1> DEFINE L == flying_transfers
           first == {i \in DOMAIN L : d # 0 /\ (transfer[L[i]].deadline = 0 \/ transfer[L[i]].deadline > d)}
           at == IF first = {} THEN Len(L) + 1 ELSE Min(first)
<1>1. L \in Seq(Thread) /\ TransferType
  BY DEF Types, ContextType
<1>2. Deadlines \in [Thread -> Nat] /\ \A y \in Thread : Deadlines[y] = transfer[y].deadline
  BY <1>1 DEF Deadlines, TransferType, Transfers
<1>3. \A i \in 1 .. Len(L) : L[i] \in Thread /\ Deadlines[L[i]] = transfer[L[i]].deadline
  BY <1>1, <1>2
<1>4. flying_transfers' = InsertAt(L, at, x)
  BY DEF add_to_flying_list
<1>5. \A i \in 1 .. Len(L) : i \in first <=> d # 0 /\ (Deadlines[L[i]] = 0 \/ Deadlines[L[i]] > d)
  BY <1>1, <1>3
<1>6. first \in SUBSET (1 .. Len(L)) /\ first \in SUBSET Nat
  BY <1>1
<1>7. first = {} => at = Len(L) + 1
  OBVIOUS
<1>8. first # {} => at \in first /\ \A j \in first : at <= j
  <2> HIDE DEF first
  <2> QED BY <1>6, MinIn
<1> HIDE DEF first, at, L
<1>9. at \in 1 .. Len(L) + 1 /\ (\A i \in 1 .. at - 1 : i \in 1 .. Len(L) /\ i \notin first) /\ (at <= Len(L) => at \in first)
  <2>1. Len(L) \in Nat
    BY <1>1
  <2>2. CASE first = {}
    BY <1>7, <2>1, <2>2
  <2>3. CASE first # {}
    <3>1. at \in first /\ at \in 1 .. Len(L)
      BY <1>6, <1>8, <2>3
    <3>2. \A i \in 1 .. at - 1 : i \in 1 .. Len(L) /\ ~(at <= i)
      BY <2>1, <3>1
    <3> QED BY <1>8, <2>1, <2>3, <3>1, <3>2
  <2> QED BY <2>2, <2>3
<1>10. \A i \in 1 .. at - 1 : d = 0 \/ (Deadlines[L[i]] # 0 /\ Deadlines[L[i]] <= d)
  <2> SUFFICES ASSUME NEW i \in 1 .. at - 1, d # 0
               PROVE  Deadlines[L[i]] # 0 /\ Deadlines[L[i]] <= d
    OBVIOUS
  <2>1. i \in 1 .. Len(L) /\ i \notin first
    BY <1>9
  <2>2. Deadlines[L[i]] \in Nat
    BY <1>2, <1>3, <2>1
  <2> QED BY <1>5, <2>1, <2>2
<1>11. at <= Len(L) => d # 0 /\ (Deadlines[L[at]] = 0 \/ Deadlines[L[at]] > d)
  BY <1>1, <1>5, <1>9
<1> DEFINE new == InsertAt(L, at, x)
<1>12. /\ flying_transfers' \in Seq(Thread) /\ Len(flying_transfers') = Len(L) + 1
       /\ \A i \in 1 .. Len(L) + 1 :
            flying_transfers'[i] = IF i < at THEN L[i] ELSE IF i = at THEN x ELSE L[i - 1]
  <2>1. /\ new \in Seq(Thread) /\ Len(new) = Len(L) + 1
        /\ \A i \in 1 .. Len(L) + 1 : new[i] = IF i < at THEN L[i] ELSE IF i = at THEN x ELSE L[i - 1]
    BY <1>1, <1>9, Inserted
  <2> QED BY <1>4, <2>1
<1> HIDE DEF new
<1>13. x \notin ToSet(L) /\ Distinct(L) /\ Sorted(L, Deadlines)
  BY DEF InOrder, Listed, L
<1>14. PICK list : list = flying_transfers'
  OBVIOUS
<1>15. /\ Distinct(list) /\ Sorted(list, [Deadlines EXCEPT ![x] = d])
       /\ \A y : y \in ToSet(list) <=> y \in ToSet(L) \/ y = x
  <2>1. /\ list \in Seq(Thread) /\ Len(list) = Len(L) + 1
        /\ \A i \in 1 .. Len(L) + 1 : list[i] = IF i < at THEN L[i] ELSE IF i = at THEN x ELSE L[i - 1]
    BY <1>12, <1>14
  <2>2. PutBetween(list, L, x, at, d, Deadlines)
    BY <1>9, <1>10, <1>11, <2>1 DEF PutBetween
  <2>3. Deadlines \in [Thread -> Nat] /\ L \in Seq(Thread) /\ list \in Seq(Thread)
    BY <1>1, <1>2, <2>1
  <2> QED BY <1>9, <1>13, <2>2, <2>3, WithOne
<1> QED BY <1>14, <1>15 DEF L

\* The order is one of the transfers on the list.
LEMMA SortedBy ==
  ASSUME NEW list \in Seq(Thread), NEW d, NEW e, Sorted(list, d), \A x \in ToSet(list) : e[x] = d[x]
  PROVE  Sorted(list, e)
<1>1. \A i \in 1 .. Len(list) : e[list[i]] = d[list[i]]
  BY PlaceOf
<1> QED BY <1>1 DEF Sorted

\* The first step of a thread submits.
LEMMA SubmitOnce ==
  ASSUME Types, [Next]_vars, NEW x \in Thread
  PROVE  /\ pc'[x] = "submit" => pc[x] = "submit"
         /\ pc[x] = "submit" => Submit(x) \/ pc'[x] = "submit"
<1> USE DEF Go, At, threadVars
<1>1. pc \in [Thread -> Labels] /\ back \in [Thread -> {"wait", "woken", "reap", "unlock", "cancel", "again"}]
  BY DEF Types, ThreadType
<1>2. ASSUME NEW t \in Thread, t # x, Submit(t)
      PROVE  pc'[x] = "submit" <=> pc[x] = "submit"
  BY <1>1, <1>2 DEF Submit
<1>3. Submit(x) => pc'[x] # "submit"
  BY <1>1 DEF Submit
<1>4. ASSUME NEW t \in Thread,
             \/ BackendSubmits(t) \/ BackendRefuses(t) \/ Unsubmit(t)
             \/ LockFlying(t) \/ HandleTimeout(t) \/ TimedOut(t) \/ TimeoutsHandled(t)
      PROVE  pc'[x] = "submit" <=> pc[x] = "submit"
  BY <1>1, <1>4
     DEF BackendSubmits, BackendRefuses, Unsubmit, LockFlying, HandleTimeout, TimedOut, TimeoutsHandled
<1>5. ASSUME NEW t \in Thread,
             \/ Return(t) \/ GiveUp(t) \/ NextTimeout(t) \/ Try(t) \/ TryLock(t) \/ NoMemory(t) \/ Waiters(t)
             \/ WaitOrRetry(t) \/ WaitTimesOut(t)
      PROVE  pc'[x] = "submit" <=> pc[x] = "submit"
  BY <1>1, <1>5 DEF Return, GiveUp, NextTimeout, CallHandleTimeouts, Try, TryLock, NoMemory, Waiters, WaitOrRetry, WaitTimesOut
<1>6. ASSUME NEW t \in Thread,
             \/ Poll(t) \/ HandlingFails(t) \/ (\E late : PollTimesOut(t, late)) \/ handle_event_trigger(t)
             \/ RemoveBroken(t) \/ Reap(t) \/ NothingToReap(t) \/ Disconnected(t)
             \/ Cancellation(t) \/ Completion(t)
      PROVE  pc'[x] = "submit" <=> pc[x] = "submit"
  BY <1>1, <1>6 DEF Poll, HandlingFails, PollTimesOut, CallHandleTimeouts, handle_event_trigger, RemoveBroken, Reap,
    NothingToReap, AtDevice, Disconnected, Cancellation, Completion
<1>7. ASSUME NEW t \in Thread,
             \/ UnlockEvents(t) \/ Broadcast(t) \/ AnnounceClose(t) \/ LockEvents(t) \/ DoClose(t)
             \/ Closed(t) \/ AllClosed(t)
      PROVE  pc'[x] = "submit" <=> pc[x] = "submit"
  BY <1>1, <1>7 DEF UnlockEvents, Broadcast, Afterwards, AnnounceClose, LockEvents, DoClose, Closed, AllClosed
<1>8. ASSUME NEW t \in Thread, DeviceAnswers(t) \/ Unplugged(t) \/ Interrupt(t)
      PROVE  pc' = pc
  BY <1>8 DEF DeviceAnswers, Unplugged, Interrupt
<1>9. CASE Tick \/ UNCHANGED vars
  BY <1>9 DEF Tick, vars
<1> HIDE DEF Go, At, threadVars
<1> QED BY <1>2, <1>3, <1>4, <1>5, <1>6, <1>7, <1>8, <1>9, Steps

(***************************************************************************)
(* What a step makes of a transfer.                                        *)
(***************************************************************************)
TimedOutFlag(x) == "TIMED_OUT" \in transfer[x].timeout_flags
Ends(t, x) == Completion(t) /\ subject[t].of = x
Closes(t, x) == DoClose(t) /\ subject[t].of = x

SameFlight(x) == InFlight(x)' <=> InFlight(x)
SameCalls(x) ==
  /\ transfer'[x].handle = transfer[x].handle /\ transfer'[x].calls = transfer[x].calls
  /\ transfer'[x].completed = transfer[x].completed
SameDeadline(x) == transfer'[x].deadline = transfer[x].deadline
SameStatus(x) == transfer'[x].status = transfer[x].status /\ transfer'[x].result = transfer[x].result
Marked(x) == TimedOutFlag(x) => TimedOutFlag(x)'
Kept(x) == SameFlight(x) /\ SameCalls(x) /\ SameDeadline(x) /\ SameStatus(x) /\ Marked(x)

\* A transfer is new again, but for its result.
Blank(x) ==
  /\ ~InFlight(x)' /\ transfer'[x].handle /\ transfer'[x].calls = 0 /\ ~transfer'[x].completed
  /\ transfer'[x].deadline = 0 /\ transfer'[x].status = "COMPLETED"
  /\ transfer'[x].result \in {"refused", "NO_DEVICE", transfer[x].status}

TransferMove(x) ==
  /\ Submit(x) => SameFlight(x) /\ SameCalls(x) /\ SameStatus(x) /\ Marked(x)
  /\ BackendSubmits(x) => InFlight(x)' /\ SameCalls(x) /\ SameDeadline(x) /\ SameStatus(x) /\ Marked(x)
  /\ Unsubmit(x) \/ Return(x) => Blank(x)
  /\ \A t \in Thread : Ends(t, x) =>
       /\ ~InFlight(x)' /\ transfer'[x].calls = transfer[x].calls + 1
       /\ transfer'[x].completed /\ transfer'[x].handle = transfer[x].handle
       /\ SameDeadline(x) /\ Marked(x)
       /\ transfer'[x].status = subject[t].status /\ transfer'[x].result = transfer[x].result
  /\ \A t \in Thread : Closes(t, x) =>
       \/ Kept(x) /\ ~Listed(x)
       \/ /\ Listed(x) /\ ~transfer'[x].handle
          /\ transfer'[x].calls = transfer[x].calls /\ transfer'[x].completed = transfer[x].completed
          /\ SameFlight(x) /\ SameDeadline(x) /\ SameStatus(x) /\ Marked(x)
  /\ \/ Kept(x) \/ Submit(x) \/ BackendSubmits(x) \/ Unsubmit(x) \/ Return(x)
     \/ \E t \in Thread : Ends(t, x) \/ Closes(t, x)

\* A transfer a step leaves alone.
LEMMA AsItWas ==
  ASSUME NEW x, transfer'[x] = transfer[x]
  PROVE  Kept(x)
BY DEF Kept, SameFlight, SameCalls, SameDeadline, SameStatus, Marked, InFlight, TimedOutFlag

\* Every step moves every transfer so.
LEMMA TransferMoves ==
  ASSUME Types, [Next]_vars, NEW x \in Thread
  PROVE  TransferMove(x)
<1>1. transfer \in [Thread -> Transfers] /\ transfer[x] \in Transfers
  BY DEF Types, TransferType
<1>2. ASSUME Submit(x)
      PROVE  SameFlight(x) /\ SameCalls(x) /\ SameStatus(x) /\ Marked(x)
  <2>1. PICK d : transfer' = [transfer EXCEPT ![x].deadline = d]
    BY <1>2 DEF Submit
  <2>2. transfer'[x] = [transfer[x] EXCEPT !.deadline = d]
    BY <1>1, <2>1
  <2> QED BY <1>1, <2>2 DEF Transfers, SameFlight, SameCalls, SameStatus, Marked, InFlight, TimedOutFlag
<1>3. ASSUME BackendSubmits(x)
      PROVE  InFlight(x)' /\ SameCalls(x) /\ SameDeadline(x) /\ SameStatus(x) /\ Marked(x)
  <2>1. transfer' = [transfer EXCEPT ![x].state_flags = @ \cup {"IN_FLIGHT"}]
    BY <1>3 DEF BackendSubmits
  <2>2. transfer'[x] = [transfer[x] EXCEPT !.state_flags = @ \cup {"IN_FLIGHT"}]
    BY <1>1, <2>1
  <2> QED BY <1>1, <2>2 DEF Transfers, SameDeadline, SameCalls, SameStatus, Marked, InFlight, TimedOutFlag
<1>4. ASSUME Unsubmit(x) \/ Return(x)
      PROVE  Blank(x)
  <2>1. PICK r \in {"refused", "NO_DEVICE", transfer[x].status} :
          \/ transfer' = [transfer EXCEPT ![x] = [NewTransfer EXCEPT !.result = r]]
          \/ \E g : transfer' = [transfer EXCEPT ![x] = [NewTransfer EXCEPT !.result = r, !.given_up = g]]
    BY <1>4 DEF Unsubmit, Return, Freed
  <2>2. \/ transfer'[x] = [NewTransfer EXCEPT !.result = r]
        \/ \E g : transfer'[x] = [NewTransfer EXCEPT !.result = r, !.given_up = g]
    BY <1>1, <2>1
  <2> QED BY <2>1, <2>2 DEF Blank, NewTransfer, InFlight
<1>5. ASSUME NEW t \in Thread, Ends(t, x)
      PROVE  /\ ~InFlight(x)' /\ transfer'[x].calls = transfer[x].calls + 1
             /\ transfer'[x].completed /\ transfer'[x].handle = transfer[x].handle
             /\ SameDeadline(x) /\ Marked(x)
             /\ transfer'[x].status = subject[t].status /\ transfer'[x].result = transfer[x].result
  <2>1. transfer' = [transfer EXCEPT ![x].state_flags = @ \ {"IN_FLIGHT"}, ![x].completed = TRUE,
                                     ![x].status = subject[t].status, ![x].calls = @ + 1]
    BY <1>5 DEF Completion, Ends
  <2>2. transfer'[x] = [transfer[x] EXCEPT !.state_flags = @ \ {"IN_FLIGHT"}, !.completed = TRUE,
                                           !.status = subject[t].status, !.calls = @ + 1]
    BY <1>1, <2>1 DEF Transfers
  <2>3. /\ transfer'[x].state_flags = transfer[x].state_flags \ {"IN_FLIGHT"}
        /\ transfer'[x].calls = transfer[x].calls + 1 /\ transfer'[x].completed
        /\ transfer'[x].handle = transfer[x].handle /\ transfer'[x].deadline = transfer[x].deadline
        /\ transfer'[x].timeout_flags = transfer[x].timeout_flags
        /\ transfer'[x].status = subject[t].status /\ transfer'[x].result = transfer[x].result
    BY <1>1, <2>2 DEF Transfers
  <2> QED BY <2>3 DEF SameDeadline, Marked, InFlight, TimedOutFlag
<1>6. ASSUME NEW t \in Thread, Closes(t, x)
      PROVE  \/ Kept(x) /\ ~Listed(x)
             \/ /\ Listed(x) /\ ~transfer'[x].handle
                /\ transfer'[x].calls = transfer[x].calls /\ transfer'[x].completed = transfer[x].completed
                /\ SameFlight(x) /\ SameDeadline(x) /\ SameStatus(x) /\ Marked(x)
  <2>1. CASE ~Listed(x)
    BY <1>6, <2>1, AsItWas DEF Closes, DoClose, Listed
  <2>2. CASE Listed(x)
    <3>1. transfer' = [transfer EXCEPT ![x].handle = FALSE]
      BY <1>6, <2>2 DEF Closes, DoClose, Listed
    <3>2. transfer'[x] = [transfer[x] EXCEPT !.handle = FALSE]
      BY <1>1, <3>1
    <3>3. /\ ~transfer'[x].handle /\ transfer'[x].calls = transfer[x].calls
          /\ transfer'[x].completed = transfer[x].completed
          /\ SameFlight(x) /\ SameDeadline(x) /\ SameStatus(x) /\ Marked(x)
      BY <1>1, <3>2 DEF Transfers, SameFlight, SameDeadline, SameStatus, Marked, InFlight, TimedOutFlag
    <3> QED BY <2>2, <3>3
  <2> QED BY <2>1, <2>2
<1>7. ASSUME NEW t \in Thread, HandleTimeout(t), transfer'[x] # transfer[x]
      PROVE  Kept(x)
  <2>1. PICK y \in Expired(t) :
          transfer' = [transfer EXCEPT ![y].timeout_flags = @ \cup {"HANDLED"}, ![y].state_flags = CancelFlags(y)]
    BY <1>7 DEF HandleTimeout
  <2>2. y = x
    BY <1>1, <1>7, <2>1
  <2>3. /\ transfer'[x].state_flags = CancelFlags(x)
        /\ transfer'[x].timeout_flags = transfer[x].timeout_flags \cup {"HANDLED"}
        /\ SameCalls(x) /\ SameDeadline(x) /\ SameStatus(x)
    BY <1>1, <2>1, <2>2 DEF Transfers, SameDeadline, SameCalls, SameStatus
  <2>4. "IN_FLIGHT" \in CancelFlags(x) <=> InFlight(x)
    BY DEF CancelFlags, Cancellable, InFlight
  <2> QED BY <2>3, <2>4 DEF Kept, SameFlight, Marked, InFlight, TimedOutFlag
<1>8. ASSUME NEW t \in Thread, TimedOut(t), transfer'[x] # transfer[x]
      PROVE  Kept(x)
  <2>1. transfer' = [transfer EXCEPT ![subject[t].of].timeout_flags = @ \cup {"TIMED_OUT"}]
    BY <1>8 DEF TimedOut
  <2>2. subject[t].of = x
    BY <1>1, <1>8, <2>1
  <2>3. transfer'[x] = [transfer[x] EXCEPT !.timeout_flags = @ \cup {"TIMED_OUT"}]
    BY <1>1, <2>1, <2>2
  <2> QED BY <1>1, <2>3 DEF Transfers, Kept, SameFlight, SameCalls, SameDeadline, SameStatus, Marked, InFlight, TimedOutFlag
<1>9. ASSUME NEW t \in Thread, transfer'[x] # transfer[x],
             Submit(t) \/ BackendSubmits(t) \/ Unsubmit(t) \/ Return(t) \/ Completion(t) \/ DoClose(t)
      PROVE  Submit(x) \/ BackendSubmits(x) \/ Unsubmit(x) \/ Return(x) \/ Ends(t, x) \/ Closes(t, x)
  <2>1. CASE Submit(t) \/ BackendSubmits(t) \/ Unsubmit(t) \/ Return(t)
    <3>1. \E r : transfer' = [transfer EXCEPT ![t] = r]
      BY <1>1, <2>1 DEF Submit, BackendSubmits, Unsubmit, Return, Freed
    <3>2. t = x
      BY <1>1, <1>9, <3>1
    <3> QED BY <2>1, <3>2
  <2>2. CASE Completion(t)
    <3>1. subject[t].of # x => transfer'[x] = transfer[x]
      BY <1>1, <2>2 DEF Completion
    <3> QED BY <1>9, <2>2, <3>1 DEF Ends
  <2>3. CASE DoClose(t)
    <3>1. subject[t].of # x => transfer'[x] = transfer[x]
      BY <1>1, <2>3 DEF DoClose
    <3> QED BY <1>9, <2>3, <3>1 DEF Closes
  <2> QED BY <1>9, <2>1, <2>2, <2>3
<1>10. ASSUME NEW t \in Thread, GiveUp(t), transfer'[x] # transfer[x]
       PROVE  Kept(x)
  <2>1. PICK g : transfer' = [transfer EXCEPT ![t].state_flags = CancelFlags(t), ![t].given_up = g]
    BY <1>10 DEF GiveUp
  <2>2. t = x
    BY <1>1, <1>10, <2>1
  <2>3. /\ transfer'[x].state_flags = CancelFlags(x)
        /\ transfer'[x].timeout_flags = transfer[x].timeout_flags
        /\ SameCalls(x) /\ SameDeadline(x) /\ SameStatus(x)
    BY <1>1, <2>1, <2>2 DEF Transfers, SameDeadline, SameCalls, SameStatus
  <2>4. "IN_FLIGHT" \in CancelFlags(x) <=> InFlight(x)
    BY DEF CancelFlags, Cancellable, InFlight
  <2> QED BY <2>3, <2>4 DEF Kept, SameFlight, Marked, InFlight, TimedOutFlag
<1>11. \/ Kept(x) \/ Submit(x) \/ BackendSubmits(x) \/ Unsubmit(x) \/ Return(x)
      \/ \E t \in Thread : Ends(t, x) \/ Closes(t, x)
  <2>1. CASE transfer'[x] = transfer[x]
    BY <2>1, AsItWas
  <2>2. CASE transfer'[x] # transfer[x]
    BY <1>7, <1>8, <1>9, <1>10, <2>2, TransferChanges
  <2> QED BY <2>1, <2>2
<1> QED BY <1>2, <1>3, <1>4, <1>5, <1>6, <1>11 DEF TransferMove

(***************************************************************************)
(* The phases of a transfer.                                               *)
(***************************************************************************)
Phase(x) ==
  /\ InFlight(x) /\ transfer[x].handle => Listed(x)
  /\ pc[x] \in EarlyLabels =>
       transfer[x].calls = 0 /\ transfer[x].handle /\ (Listed(x) <=> pc[x] # "submit")
  /\ transfer[x].calls <= 1
  /\ transfer[x].completed => transfer[x].calls = 1
  /\ transfer[x].calls = 1 => transfer[x].handle /\ ~Listed(x) /\ ~InFlight(x)
  /\ ~transfer[x].handle => x \notin open /\ ~Listed(x) /\ transfer[x].calls = 0
  /\ ~InFlight(x) \/ ~transfer[x].handle => Drained(urbs[x])

Phases == \A x \in Thread : Phase(x)

\* The transfer the event handler is about to end is in flight, all its URBs are
\* reaped, and it ends as cancelled only if its caller gave up, as timed out only
\* if not.
Ending ==
  \A t \in Thread : pc[t] \in {"cancellation", "completion"} =>
    LET x == subject[t].of
    IN /\ InFlight(x) /\ transfer[x].handle /\ Drained(urbs[x])
       /\ pc[t] = "cancellation" => urbs[x].reap_action = "CANCELLED"
       /\ pc[t] = "completion" =>
            subject[t].status # IF transfer[x].given_up THEN "TIMED_OUT" ELSE "CANCELLED"

\* A timeout has cancelled the transfer: that is noted, or just being written down.
Expiry(x) ==
  TimedOutFlag(x) \/ \E t \in Thread : pc[t] = "timed_out" /\ subject[t].of = x

\* Whose idea a cancellation was is known, it is one of the two, and there is
\* no second one.
CancelledBy ==
  \A x \in Thread :
    /\ urbs[x].reap_action = "CANCELLED" => Expiry(x) \/ transfer[x].given_up
    /\ Expiry(x) \/ transfer[x].given_up => ~Cancellable(x) /\ pc[x] \notin EarlyLabels
    /\ ~(Expiry(x) /\ transfer[x].given_up)

\* A transfer that is not over has no status yet.
NoVerdict ==
  \A x \in Thread : InFlight(x) \/ pc[x] \in EarlyLabels =>
    transfer[x].status = "COMPLETED" /\ transfer[x].result = None

\* A deadline is set by the submission and gone when the transfer is freed.
LEMMA DeadlinesMove ==
  ASSUME Types, [Next]_vars, NEW x \in Thread
  PROVE  Deadlines'[x] = Deadlines[x] \/ Submit(x) \/ Unsubmit(x) \/ Return(x)
<1>1. SameDeadline(x) \/ Submit(x) \/ Unsubmit(x) \/ Return(x)
  BY TransferMoves DEF TransferMove, Kept
<1> QED BY <1>1 DEF SameDeadline, Deadlines

\* What returns is not on the list.
LEMMA ReturnsUnlisted ==
  ASSUME Types, Phases, NEW x \in Thread, Return(x)
  PROVE  ~Listed(x) /\ (~InFlight(x) \/ ~transfer[x].handle)
<1>1. transfer[x].completed \/ ~transfer[x].handle
  BY DEF Return
<1> QED BY <1>1 DEF Phases, Phase

\* list_del keeps the order of those that stay.
LEMMA TakenOff ==
  ASSUME Types, InOrder, NEW x, flying_transfers' = list_del(flying_transfers, x)
  PROVE  /\ flying_transfers' \in Seq(Thread) /\ Distinct(flying_transfers') /\ Sorted(flying_transfers', Deadlines)
         /\ \A y : y \in ToSet(flying_transfers') <=> y \in ToSet(flying_transfers) /\ y # x
<1>1. flying_transfers \in Seq(Thread)
  BY DEF Types, ContextType
<1> QED BY <1>1, DeletedOrder DEF InOrder

\* The list stays in order: a transfer is put where it belongs, and its
\* deadline does not change while it is listed.
LEMMA OrderKept ==
  ASSUME Types, InOrder, Phases, [Next]_vars
  PROVE  InOrder'
<1> DEFINE L == flying_transfers
           M == flying_transfers'
<1>1. L \in Seq(Thread) /\ M \in Seq(Thread) /\ Distinct(L) /\ Sorted(L, Deadlines)
  BY ListTypeKept DEF Types, ContextType, InOrder
<1>2. ASSUME NEW t \in Thread, Submit(t)
      PROVE  InOrder'
  <2>1. PICK d : d = IF Timeout[t] = 0 THEN 0 ELSE now + Timeout[t]
    OBVIOUS
  <2>2. d \in Nat
    BY <2>1, EventsAssumption DEF Types, WorldType
  <2>3. add_to_flying_list(t, d) /\ transfer' = [transfer EXCEPT ![t].deadline = d] /\ pc[t] = "submit"
    BY <1>2, <2>1 DEF Submit, At
  <2>4. ~Listed(t)
    BY <2>3 DEF Phases, Phase, EarlyLabels
  <2>5. Distinct(M) /\ Sorted(M, [Deadlines EXCEPT ![t] = d])
    BY <2>2, <2>3, <2>4, AddedInOrder
  <2>6. Deadlines' = [Deadlines EXCEPT ![t] = d]
    BY <2>3 DEF Deadlines, Types, TransferType, Transfers
  <2> QED BY <2>5, <2>6 DEF InOrder
<1>3. ASSUME Distinct(M), Sorted(M, Deadlines), \A x \in ToSet(M) : Deadlines'[x] = Deadlines[x]
      PROVE  InOrder'
  <2>1. Sorted(M, Deadlines')
    BY <1>1, <1>3, SortedBy
  <2> QED BY <1>3, <2>1 DEF InOrder
<1>4. ASSUME NEW t \in Thread, Unsubmit(t)
      PROVE  InOrder'
  <2>1. M = list_del(L, t)
    BY <1>4 DEF Unsubmit, remove_from_flying_list
  <2>2. Distinct(M) /\ Sorted(M, Deadlines) /\ t \notin ToSet(M) /\ \A y \in ToSet(M) : y \in Thread
    BY <1>1, <2>1, TakenOff, PlaceOf
  <2>3. ASSUME NEW x \in Thread, x # t
        PROVE  Deadlines'[x] = Deadlines[x]
    BY <1>4, <2>3 DEF Unsubmit, Deadlines, Types, TransferType
  <2> QED BY <1>3, <2>2, <2>3
<1>5. ASSUME NEW t \in Thread, Completion(t) \/ DoClose(t)
      PROVE  InOrder'
  <2>1. M = L \/ M = list_del(L, subject[t].of)
    BY <1>5 DEF Completion, DoClose, remove_from_flying_list
  <2>2. Distinct(M) /\ Sorted(M, Deadlines) /\ \A y \in ToSet(M) : y \in Thread
    BY <1>1, <2>1, TakenOff, PlaceOf
  <2>3. ASSUME NEW x \in Thread
        PROVE  Deadlines'[x] = Deadlines[x]
    <3>1. pc \in [Thread -> Labels]
      BY DEF Types, ThreadType
    <3>2. ~Submit(x) /\ ~Unsubmit(x) /\ ~Return(x)
      BY <1>5, <3>1 DEF Completion, DoClose, Submit, Unsubmit, Return, Go, At
    <3> QED BY <3>2, DeadlinesMove
  <2> QED BY <1>3, <2>2, <2>3
<1>6. CASE UNCHANGED flying_transfers /\ \A t \in Thread : ~Submit(t) /\ ~Unsubmit(t)
  <2>1. ASSUME NEW x \in ToSet(M)
        PROVE  Deadlines'[x] = Deadlines[x]
    <3>1. x \in Thread /\ Listed(x)
      BY <1>1, <1>6, PlaceOf DEF Listed
    <3> QED BY <1>6, <3>1, DeadlinesMove, ReturnsUnlisted
  <2> QED BY <1>1, <1>3, <1>6, <2>1
<1> QED BY <1>2, <1>4, <1>5, <1>6, ListChanges

\* Where the threads are that change a transfer, and go to.
LEMMA WhoMoves ==
  ASSUME Types, NEW x \in Thread
  PROVE  /\ Submit(x) => pc[x] = "submit" /\ pc'[x] = "backend"
         /\ BackendSubmits(x) => pc[x] = "backend" /\ pc'[x] = "wait"
         /\ Unsubmit(x) => pc[x] = "unsubmit" /\ pc'[x] = "close"
         /\ Return(x) => pc[x] \in {"wait", "woken"} /\ pc'[x] = "close"
         /\ \A t \in Thread :
              /\ Ends(t, x) => pc[t] = "completion" /\ pc'[t] = "reap" /\ \A s \in Thread : s # t => pc'[s] = pc[s]
              /\ Closes(t, x) => pc[t] = "do_close" /\ pc'[t] = "closed" /\ \A s \in Thread : s # t => pc'[s] = pc[s]
BY DEF Types, ThreadType, Submit, BackendSubmits, Unsubmit, Return, Ends, Closes, Completion, DoClose, At, Go

\* A step puts a transfer on the list, takes it off, or leaves it.
ListMove(x) ==
  /\ Submit(x) => Listed(x)'
  /\ Unsubmit(x) => ~Listed(x)'
  /\ \A t \in Thread : Ends(t, x) \/ Closes(t, x) => ~Listed(x)'
  /\ \/ Listed(x)' <=> Listed(x)
     \/ Submit(x) \/ Unsubmit(x) \/ \E t \in Thread : Ends(t, x) \/ Closes(t, x)

\* Every step moves the list so.
LEMMA ListMoves ==
  ASSUME Types, InOrder, Phases, [Next]_vars, NEW x \in Thread
  PROVE  ListMove(x)
<1>1. ASSUME NEW t \in Thread, Submit(t)
      PROVE  Listed(x)' <=> Listed(x) \/ x = t
  <2>1. PICK d : d = IF Timeout[t] = 0 THEN 0 ELSE now + Timeout[t]
    OBVIOUS
  <2>2. d \in Nat
    BY <2>1, EventsAssumption DEF Types, WorldType
  <2>3. add_to_flying_list(t, d) /\ pc[t] = "submit"
    BY <1>1, <2>1 DEF Submit, At
  <2>4. ~Listed(t)
    BY <2>3 DEF Phases, Phase, EarlyLabels
  <2> QED BY <2>2, <2>3, <2>4, AddedInOrder DEF Listed
<1>2. ASSUME NEW t \in Thread, Unsubmit(t)
      PROVE  Listed(x)' <=> Listed(x) /\ x # t
  <2>1. flying_transfers' = list_del(flying_transfers, t)
    BY <1>2 DEF Unsubmit, remove_from_flying_list
  <2> QED BY <2>1, TakenOff DEF Listed
<1>3. ASSUME NEW t \in Thread, Completion(t)
      PROVE  Listed(x)' <=> Listed(x) /\ x # subject[t].of
  <2>1. flying_transfers' = list_del(flying_transfers, subject[t].of)
    BY <1>3 DEF Completion, remove_from_flying_list
  <2> QED BY <2>1, TakenOff DEF Listed
<1>4. ASSUME NEW t \in Thread, DoClose(t)
      PROVE  Listed(x)' <=> Listed(x) /\ x # subject[t].of
  <2>1. CASE subject[t].of \in ToSet(flying_transfers)
    <3>1. flying_transfers' = list_del(flying_transfers, subject[t].of)
      BY <1>4, <2>1 DEF DoClose
    <3> QED BY <3>1, TakenOff DEF Listed
  <2>2. CASE subject[t].of \notin ToSet(flying_transfers)
    <3>1. flying_transfers' = flying_transfers
      BY <1>4, <2>2 DEF DoClose
    <3> QED BY <2>2, <3>1 DEF Listed
  <2> QED BY <2>1, <2>2
<1>5. CASE UNCHANGED flying_transfers
  <2>1. Listed(x)' <=> Listed(x)
    BY <1>5 DEF Listed
  <2> QED BY <1>1, <1>2, <1>3, <1>4, <2>1 DEF ListMove, Ends, Closes
<1>6. CASE \E t \in Thread : Submit(t) \/ Unsubmit(t) \/ Completion(t) \/ DoClose(t)
  BY <1>1, <1>2, <1>3, <1>4, <1>6 DEF ListMove, Ends, Closes
<1> QED BY <1>5, <1>6, ListChanges

\* The transfer that is being ended is in its own phase.
LEMMA EndedInFlight ==
  ASSUME Types, Ending, NEW t \in Thread, NEW x \in Thread, Ends(t, x)
  PROVE  /\ InFlight(x) /\ transfer[x].handle /\ Drained(urbs[x]) /\ pc[x] \notin EarlyLabels
         /\ subject[t].status # IF transfer[x].given_up THEN "TIMED_OUT" ELSE "CANCELLED"
<1>1. pc[t] = "completion" /\ subject[t].of = x
  BY WhoMoves DEF Ends
<1>2. /\ InFlight(x) /\ transfer[x].handle /\ Drained(urbs[x])
      /\ subject[t].status # IF transfer[x].given_up THEN "TIMED_OUT" ELSE "CANCELLED"
  BY <1>1 DEF Ending
<1> QED BY <1>2 DEF Types, EarlyFresh

\* Each transfer stays in one of its phases.
LEMMA PhaseKept ==
  ASSUME Types, Locks, Closing, Phases, Ending, InOrder, [Next]_vars, NEW x \in Thread
  PROVE  Phase(x)'
<1>1. Phase(x) /\ TransferMove(x) /\ ListMove(x) /\ UrbsMove(x) /\ transfer[x].calls \in Nat
  BY TransferMoves, ListMoves, UrbMoves DEF Phases, Types, TransferType, Transfers
<1>2. open' \subseteq open /\ \A t \in Thread : Closes(t, x) => x \notin open'
  BY WorldChanges DEF DoClose, Unplugged, Closes
<1>3. pc[x] \in EarlyLabels => ~InFlight(x) /\ Fresh(urbs[x])
  BY DEF Types, EarlyFresh
<1>4. (pc'[x] \in EarlyLabels => pc[x] \in EarlyLabels) /\ (pc'[x] = "submit" => pc[x] = "submit")
      /\ (pc[x] = "submit" => Submit(x) \/ pc'[x] = "submit")
  BY EarlyOnce, SubmitOnce
<1>5. Drained(urbs[x]) => BackendSubmits(x) \/ Drained(urbs'[x])
  BY <1>1 DEF UrbsMove, Fresh
<1>6. CASE Submit(x)
  <2>1. pc[x] = "submit" /\ pc'[x] = "backend"
    BY <1>6, WhoMoves
  <2>2. ~BackendSubmits(x)
    BY <2>1, WhoMoves
  <2>3. transfer'[x].handle = transfer[x].handle /\ transfer'[x].calls = transfer[x].calls
        /\ transfer'[x].completed = transfer[x].completed /\ ~InFlight(x)' /\ Listed(x)'
    BY <1>1, <1>3, <1>6, <2>1 DEF TransferMove, ListMove, SameFlight, SameCalls, EarlyLabels
  <2>4. transfer[x].calls = 0 /\ transfer[x].handle /\ Drained(urbs'[x])
    BY <1>1, <1>3, <1>5, <2>1, <2>2 DEF Phase, Fresh, EarlyLabels
  <2> QED BY <1>1, <2>1, <2>3, <2>4 DEF Phase, EarlyLabels
<1>7. CASE BackendSubmits(x)
  <2>1. pc[x] = "backend" /\ pc'[x] = "wait"
    BY <1>7, WhoMoves
  <2>2. /\ ~Submit(x) /\ ~Unsubmit(x)
        /\ \A t \in Thread : ~Ends(t, x) /\ ~Closes(t, x)
    BY <2>1, WhoMoves
  <2>3. transfer'[x].handle = transfer[x].handle /\ transfer'[x].calls = transfer[x].calls
        /\ transfer'[x].completed = transfer[x].completed /\ InFlight(x)' /\ (Listed(x)' <=> Listed(x))
    BY <1>1, <1>7, <2>2 DEF TransferMove, ListMove, SameCalls
  <2>4. transfer[x].calls = 0 /\ transfer[x].handle /\ Listed(x)
    BY <1>1, <2>1 DEF Phase, EarlyLabels
  <2> QED BY <1>1, <2>1, <2>3, <2>4 DEF Phase, EarlyLabels
<1>8. CASE Unsubmit(x)
  <2>1. pc[x] = "unsubmit" /\ pc'[x] = "close" /\ ~BackendSubmits(x)
    BY <1>8, WhoMoves
  <2>2. Blank(x) /\ ~Listed(x)'
    BY <1>1, <1>8 DEF TransferMove, ListMove
  <2>3. Drained(urbs'[x])
    BY <1>3, <1>5, <2>1 DEF Fresh, EarlyLabels
  <2> QED BY <2>1, <2>2, <2>3 DEF Phase, Blank, EarlyLabels
<1>9. CASE Return(x)
  <2>1. pc[x] \in {"wait", "woken"} /\ pc'[x] = "close"
    BY <1>9, WhoMoves
  <2>2. ~BackendSubmits(x) /\ ~Submit(x) /\ ~Unsubmit(x)
    BY <2>1, WhoMoves
  <2>3. ~Listed(x) /\ (~InFlight(x) \/ ~transfer[x].handle)
    BY <1>9, ReturnsUnlisted
  <2>4. Drained(urbs'[x])
    BY <1>1, <1>5, <2>2, <2>3 DEF Phase
  <2>5. Blank(x) /\ ~Listed(x)'
    BY <1>1, <1>9, <2>2, <2>3 DEF TransferMove, ListMove
  <2> QED BY <2>1, <2>4, <2>5 DEF Phase, Blank, EarlyLabels
<1>10. ASSUME NEW t \in Thread, Ends(t, x)
      PROVE  Phase(x)'
  <2>1. InFlight(x) /\ transfer[x].handle /\ Drained(urbs[x]) /\ pc[x] \notin EarlyLabels
    BY <1>10, EndedInFlight
  <2>2. ~BackendSubmits(x)
    BY <2>1, WhoMoves DEF EarlyLabels
  <2>3. transfer[x].calls = 0
    BY <1>1, <2>1 DEF Phase
  <2>4. /\ ~InFlight(x)' /\ transfer'[x].calls = 1 /\ transfer'[x].handle
        /\ ~Listed(x)'
    <3>1. /\ ~InFlight(x)' /\ transfer'[x].calls = transfer[x].calls + 1
          /\ transfer'[x].handle = transfer[x].handle
      BY <1>1, <1>10 DEF TransferMove
    <3>2. ~Listed(x)'
      BY <1>1, <1>10 DEF ListMove
    <3> QED BY <2>1, <2>3, <3>1, <3>2
  <2> QED BY <1>4, <1>5, <2>1, <2>2, <2>4 DEF Phase
<1>11. ASSUME NEW t \in Thread, Closes(t, x)
       PROVE  Phase(x)'
  <2>1. pc[x] \notin EarlyLabels
    BY <1>11, WhoMoves DEF Closing, CloserLabels, Closes
  <2>2. Drained(urbs'[x])
    <3>1. urbs' = [urbs EXCEPT ![x] = Forgotten(urbs[x])]
      BY <1>11 DEF Closes, DoClose
    <3>2. urbs'[x] = Forgotten(urbs[x])
      BY <3>1 DEF Types, UrbsSound
    <3> QED BY <3>2, UrbsOf, ForgottenSound
  <2>3. ~Listed(x)' /\ x \notin open'
    BY <1>1, <1>2, <1>11 DEF ListMove
  <2>4. CASE Kept(x) /\ ~Listed(x)
    BY <1>1, <1>4, <2>1, <2>2, <2>3, <2>4 DEF Phase, Kept, SameFlight, SameCalls
  <2>5. CASE /\ Listed(x) /\ ~transfer'[x].handle
             /\ transfer'[x].calls = transfer[x].calls /\ transfer'[x].completed = transfer[x].completed
    <3>1. transfer[x].calls = 0 /\ ~transfer[x].completed
      BY <1>1, <2>5 DEF Phase
    <3> QED BY <1>4, <2>1, <2>2, <2>3, <2>5, <3>1 DEF Phase
  <2> QED BY <1>1, <1>11, <2>4, <2>5 DEF TransferMove
<1>12. CASE /\ ~Submit(x) /\ ~BackendSubmits(x) /\ ~Unsubmit(x) /\ ~Return(x)
            /\ \A t \in Thread : ~Ends(t, x) /\ ~Closes(t, x)
  <2>1. Kept(x) /\ (Listed(x)' <=> Listed(x))
    BY <1>1, <1>12 DEF TransferMove, ListMove
  <2>2. /\ transfer'[x].handle = transfer[x].handle /\ transfer'[x].calls = transfer[x].calls
        /\ transfer'[x].completed = transfer[x].completed /\ (InFlight(x)' <=> InFlight(x))
    BY <2>1 DEF Kept, SameFlight, SameCalls
  <2>3. pc'[x] \in EarlyLabels => (pc'[x] = "submit" <=> pc[x] = "submit")
    BY <1>4, <1>12
  <2> QED BY <1>1, <1>2, <1>4, <1>5, <1>12, <2>1, <2>2, <2>3 DEF Phase
<1> QED BY <1>6, <1>7, <1>8, <1>9, <1>10, <1>11, <1>12

\* All of them do.
LEMMA PhasesKept ==
  ASSUME Types, Locks, Closing, Phases, Ending, InOrder, [Next]_vars
  PROVE  Phases'
BY PhaseKept DEF Phases

\* Who is to write down whose idea a cancellation was, or to end a transfer, does
\* it in its next step.
LEMMA NextForIt ==
  ASSUME Types, [Next]_vars, NEW x \in Thread, pc[x] \in {"timed_out", "completion"}
  PROVE  TimedOut(x) \/ Completion(x) \/ (pc'[x] = pc[x] /\ subject'[x] = subject[x])
<1>1. /\ pc \in [Thread -> Labels]
      /\ subject \in [Thread -> [of : Thread \cup {None}, status : Statuses]]
  BY DEF Types, ThreadType
<1> DEFINE stays == pc'[x] = pc[x] /\ subject'[x] = subject[x]
<1> USE DEF Go, At, threadVars
<1>2. ASSUME NEW t \in Thread,
             \/ Submit(t) \/ BackendSubmits(t) \/ BackendRefuses(t) \/ Unsubmit(t)
             \/ LockFlying(t) \/ HandleTimeout(t) \/ TimeoutsHandled(t)
      PROVE  stays
  BY <1>1, <1>2
     DEF Submit, BackendSubmits, BackendRefuses, Unsubmit, LockFlying, HandleTimeout, TimeoutsHandled
<1>3. ASSUME NEW t \in Thread,
             \/ Return(t) \/ GiveUp(t) \/ NextTimeout(t) \/ Try(t) \/ TryLock(t) \/ NoMemory(t) \/ Waiters(t)
             \/ WaitOrRetry(t) \/ WaitTimesOut(t)
      PROVE  stays
  BY <1>1, <1>3 DEF Return, GiveUp, NextTimeout, CallHandleTimeouts, Try, TryLock, NoMemory, Waiters, WaitOrRetry, WaitTimesOut
<1>4. ASSUME NEW t \in Thread,
             \/ Poll(t) \/ HandlingFails(t) \/ (\E late : PollTimesOut(t, late)) \/ handle_event_trigger(t)
             \/ RemoveBroken(t) \/ Reap(t) \/ NothingToReap(t) \/ Disconnected(t)
             \/ Cancellation(t)
      PROVE  stays
  BY <1>1, <1>4 DEF Poll, HandlingFails, PollTimesOut, CallHandleTimeouts, handle_event_trigger, RemoveBroken, Reap,
    NothingToReap, AtDevice, Disconnected, Cancellation
<1>5. ASSUME NEW t \in Thread,
             \/ UnlockEvents(t) \/ Broadcast(t) \/ AnnounceClose(t) \/ LockEvents(t) \/ DoClose(t)
             \/ Closed(t) \/ AllClosed(t)
      PROVE  stays
  BY <1>1, <1>5 DEF UnlockEvents, Broadcast, Afterwards, AnnounceClose, LockEvents, DoClose, Closed, AllClosed
<1>6. ASSUME NEW t \in Thread, t # x, TimedOut(t) \/ Completion(t)
      PROVE  stays
  BY <1>1, <1>6 DEF TimedOut, Completion
<1>7. ASSUME NEW t \in Thread, DeviceAnswers(t) \/ Unplugged(t) \/ Interrupt(t)
      PROVE  stays
  BY <1>7 DEF DeviceAnswers, Unplugged, Interrupt
<1>8. CASE Tick \/ UNCHANGED vars
  BY <1>8 DEF Tick, vars
<1> HIDE DEF Go, At, threadVars
<1> QED BY <1>2, <1>3, <1>4, <1>5, <1>6, <1>7, <1>8, Steps

\* What becomes of a caller's giving up: it stays until the transfer fails to be
\* submitted.
LEMMA GivenUpMoves ==
  ASSUME Types, [Next]_vars, NEW x \in Thread
  PROVE  \/ transfer'[x].given_up = transfer[x].given_up
         \/ Unsubmit(x) /\ ~transfer'[x].given_up
         \/ GiveUp(x) /\ CancelSucceeds(x)
<1>1. transfer \in [Thread -> Transfers] /\ transfer[x] \in Transfers
  BY DEF Types, TransferType
<1>2. CASE transfer'[x] = transfer[x]
  BY <1>2
<1>3. ASSUME NEW t \in Thread, Submit(t) \/ BackendSubmits(t) \/ HandleTimeout(t)
      PROVE  transfer'[x].given_up = transfer[x].given_up
  <2>1. CASE Submit(t)
    <3>1. PICK d : transfer' = [transfer EXCEPT ![t].deadline = d]
      BY <2>1 DEF Submit
    <3> QED BY <1>1, <3>1 DEF Transfers
  <2>2. CASE BackendSubmits(t)
    BY <1>1, <2>2 DEF BackendSubmits, Transfers
  <2>3. CASE HandleTimeout(t)
    <3>1. PICK y \in Expired(t) :
            transfer' = [transfer EXCEPT ![y].timeout_flags = @ \cup {"HANDLED"}, ![y].state_flags = CancelFlags(y)]
      BY <2>3 DEF HandleTimeout
    <3>2. y \in Thread
      BY ExpiredOnList
    <3> QED BY <1>1, <3>1, <3>2 DEF Transfers
  <2> QED BY <1>3, <2>1, <2>2, <2>3
<1>4. ASSUME NEW t \in Thread, TimedOut(t) \/ Completion(t) \/ DoClose(t)
      PROVE  transfer'[x].given_up = transfer[x].given_up
  <2>1. subject[t].of \in Thread
    BY <1>4 DEF TimedOut, Completion, DoClose, At, Types, Subjects, CloserLabels
  <2>2. CASE TimedOut(t)
    BY <1>1, <2>1, <2>2 DEF TimedOut, Transfers
  <2>3. CASE Completion(t)
    <3>1. transfer' = [transfer EXCEPT ![subject[t].of].state_flags = @ \ {"IN_FLIGHT"},
                                       ![subject[t].of].completed = TRUE,
                                       ![subject[t].of].status = subject[t].status,
                                       ![subject[t].of].calls = @ + 1]
      BY <2>3 DEF Completion
    <3> QED BY <1>1, <2>1, <3>1 DEF Transfers
  <2>4. CASE DoClose(t)
    <3>1. transfer' = transfer \/ transfer' = [transfer EXCEPT ![subject[t].of].handle = FALSE]
      BY <2>4 DEF DoClose
    <3> QED BY <1>1, <2>1, <3>1 DEF Transfers
  <2> QED BY <1>4, <2>2, <2>3, <2>4
<1>5. ASSUME NEW t \in Thread, Return(t)
      PROVE  transfer'[x].given_up = transfer[x].given_up
  <2>1. PICK r : transfer' = [transfer EXCEPT ![t] = [NewTransfer EXCEPT !.result = r, !.given_up = transfer[t].given_up]]
    BY <1>5 DEF Return, Freed
  <2>2. t # x => transfer'[x] = transfer[x]
    BY <1>1, <2>1
  <2>3. t = x => transfer'[x] = [NewTransfer EXCEPT !.result = r, !.given_up = transfer[x].given_up]
    BY <1>1, <2>1
  <2> QED BY <2>2, <2>3 DEF NewTransfer
<1>6. ASSUME NEW t \in Thread, Unsubmit(t)
      PROVE  transfer'[x].given_up = transfer[x].given_up \/ (Unsubmit(x) /\ ~transfer'[x].given_up)
  <2>1. transfer' = [transfer EXCEPT ![t] = [NewTransfer EXCEPT !.result = "refused"]]
    BY <1>6 DEF Unsubmit
  <2>2. t # x => transfer'[x] = transfer[x]
    BY <1>1, <2>1
  <2>3. t = x => transfer'[x] = [NewTransfer EXCEPT !.result = "refused"]
    BY <1>1, <2>1
  <2> QED BY <1>6, <2>2, <2>3 DEF NewTransfer
<1>7. ASSUME NEW t \in Thread, GiveUp(t)
      PROVE  transfer'[x].given_up = transfer[x].given_up \/ (GiveUp(x) /\ CancelSucceeds(x))
  <2>1. PICK g : /\ g = (transfer[t].given_up \/ CancelSucceeds(t))
                 /\ transfer' = [transfer EXCEPT ![t].state_flags = CancelFlags(t), ![t].given_up = g]
    BY <1>7 DEF GiveUp
  <2>2. transfer'[x].given_up = IF t = x THEN g ELSE transfer[x].given_up
    BY <1>1, <2>1 DEF Transfers
  <2>3. ~CancelSucceeds(t) => g = transfer[t].given_up
    <3>1. transfer[t].given_up \in BOOLEAN
      BY <1>1 DEF Transfers
    <3> QED BY <2>1, <3>1, Zenon
  <2> QED BY <1>7, <2>2, <2>3
<1> QED BY <1>2, <1>3, <1>4, <1>5, <1>6, <1>7, TransferChanges

\* A transfer can be cancelled from its submission on, and once.
LEMMA CancellableOnce ==
  ASSUME Types, [Next]_vars, NEW x \in Thread
  PROVE  /\ Cancellable(x)' => Cancellable(x) \/ BackendSubmits(x)
         /\ GiveUp(x) => ~Cancellable(x)'
         /\ \A t \in Thread : HandleTimeout(t) /\ subject'[t].of = x => ~Cancellable(x)'
<1>1. transfer \in [Thread -> Transfers] /\ transfer[x] \in Transfers
  BY DEF Types, TransferType
<1>2. "CANCELLING" \in CancelFlags(x) \/ "IN_FLIGHT" \notin CancelFlags(x)
  BY DEF CancelFlags, Cancellable
<1>3. transfer'[x].state_flags = CancelFlags(x) => ~Cancellable(x)'
  BY <1>2 DEF Cancellable
<1>4. ASSUME NEW t \in Thread, HandleTimeout(t)
      PROVE  /\ transfer'[x].state_flags \in {transfer[x].state_flags, CancelFlags(x)}
             /\ subject'[t].of = x => transfer'[x].state_flags = CancelFlags(x)
  <2>1. PICK y \in Expired(t) :
          /\ transfer' = [transfer EXCEPT ![y].timeout_flags = @ \cup {"HANDLED"}, ![y].state_flags = CancelFlags(y)]
          /\ subject' = [subject EXCEPT ![t].of = y]
    BY <1>4 DEF HandleTimeout
  <2>2. y \in Thread
    BY ExpiredOnList
  <2>3. transfer'[x].state_flags = IF y = x THEN CancelFlags(x) ELSE transfer[x].state_flags
    BY <1>1, <2>1, <2>2 DEF Transfers
  <2>4. subject'[t].of = y
    BY <2>1 DEF Types, ThreadType
  <2> QED BY <2>3, <2>4
<1>5. ASSUME NEW t \in Thread, GiveUp(t)
      PROVE  transfer'[x].state_flags = IF t = x THEN CancelFlags(x) ELSE transfer[x].state_flags
  <2>1. PICK g : transfer' = [transfer EXCEPT ![t].state_flags = CancelFlags(t), ![t].given_up = g]
    BY <1>5 DEF GiveUp
  <2> QED BY <1>1, <2>1 DEF Transfers
<1>6. ASSUME NEW t \in Thread,
             \/ Submit(t) \/ TimedOut(t) \/ DoClose(t) \/ (BackendSubmits(t) /\ t # x)
      PROVE  transfer'[x].state_flags = transfer[x].state_flags
  <2>1. CASE Submit(t)
    <3>1. PICK d : transfer' = [transfer EXCEPT ![t].deadline = d]
      BY <2>1 DEF Submit
    <3> QED BY <1>1, <3>1 DEF Transfers
  <2>2. CASE TimedOut(t)
    BY <1>1, <2>2 DEF TimedOut, Transfers
  <2>3. CASE DoClose(t)
    <3>1. transfer' = transfer \/ transfer' = [transfer EXCEPT ![subject[t].of].handle = FALSE]
      BY <2>3 DEF DoClose
    <3> QED BY <1>1, <3>1 DEF Transfers
  <2>4. CASE BackendSubmits(t) /\ t # x
    BY <1>1, <2>4 DEF BackendSubmits
  <2> QED BY <1>6, <2>1, <2>2, <2>3, <2>4
<1>7. ASSUME NEW t \in Thread, Unsubmit(t) \/ Return(t)
      PROVE  transfer'[x] = transfer[x] \/ ~Cancellable(x)'
  <2>1. \E r, g : \/ transfer' = [transfer EXCEPT ![t] = [NewTransfer EXCEPT !.result = r, !.given_up = g]]
                  \/ transfer' = [transfer EXCEPT ![t] = [NewTransfer EXCEPT !.result = r]]
    BY <1>7 DEF Unsubmit, Return, Freed
  <2>2. t # x => transfer'[x] = transfer[x]
    BY <1>1, <2>1
  <2>3. t = x => \E r, g : \/ transfer'[x] = [NewTransfer EXCEPT !.result = r, !.given_up = g]
                           \/ transfer'[x] = [NewTransfer EXCEPT !.result = r]
    BY <1>1, <2>1
  <2>4. t = x => transfer'[x].state_flags = {}
    BY <2>3 DEF NewTransfer
  <2> QED BY <2>2, <2>4 DEF Cancellable
<1>8. ASSUME NEW t \in Thread, Completion(t)
      PROVE  transfer'[x] = transfer[x] \/ ~Cancellable(x)'
  <2>1. CASE subject[t].of = x
    BY <1>8, <2>1, TransferMoves DEF TransferMove, Ends, InFlight, Cancellable
  <2>2. CASE subject[t].of # x
    BY <1>1, <1>8, <2>2 DEF Completion
  <2> QED BY <2>1, <2>2
<1>9. Cancellable(x)' => Cancellable(x) \/ BackendSubmits(x)
  <2>1. transfer'[x].state_flags = transfer[x].state_flags => (Cancellable(x)' <=> Cancellable(x))
    BY DEF Cancellable
  <2> QED BY <1>3, <1>4, <1>5, <1>6, <1>7, <1>8, <2>1, TransferChanges
<1> QED BY <1>3, <1>4, <1>5, <1>9

\* A timeout cancels a transfer that can be cancelled, and is noted until the
\* transfer is freed.
LEMMA ExpiryMoves ==
  ASSUME Types, [Next]_vars, NEW x \in Thread
  PROVE  /\ Expiry(x)' => Expiry(x) \/ \E t \in Thread :
              HandleTimeout(t) /\ pc'[t] = "timed_out" /\ subject'[t].of = x /\ CancelSucceeds(x)
         /\ Expiry(x) => Expiry(x)' \/ Unsubmit(x) \/ Return(x)
<1>1. /\ transfer \in [Thread -> Transfers] /\ transfer[x] \in Transfers
      /\ pc \in [Thread -> Labels] /\ subject \in [Thread -> [of : Thread \cup {None}, status : Statuses]]
  BY DEF Types, TransferType, ThreadType
<1>2. ASSUME TimedOutFlag(x)', ~TimedOutFlag(x)
      PROVE  Expiry(x)
  <2>1. ASSUME NEW t \in Thread, TimedOut(t)
        PROVE  Expiry(x)
    <3>1. pc[t] = "timed_out" /\ transfer' = [transfer EXCEPT ![subject[t].of].timeout_flags = @ \cup {"TIMED_OUT"}]
      BY <2>1 DEF TimedOut, At
    <3>2. subject[t].of = x
      BY <1>1, <1>2, <3>1 DEF TimedOutFlag
    <3> QED BY <3>1, <3>2 DEF Expiry
  <2>2. ASSUME NEW t \in Thread, Submit(t) \/ BackendSubmits(t) \/ HandleTimeout(t) \/ GiveUp(t)
        PROVE  FALSE
    <3>1. CASE Submit(t)
      <4>1. PICK d : transfer' = [transfer EXCEPT ![t].deadline = d]
        BY <3>1 DEF Submit
      <4> QED BY <1>1, <1>2, <4>1 DEF Transfers, TimedOutFlag
    <3>2. CASE BackendSubmits(t)
      BY <1>1, <1>2, <3>2 DEF BackendSubmits, Transfers, TimedOutFlag
    <3>3. CASE HandleTimeout(t)
      <4>1. PICK y \in Expired(t) :
              transfer' = [transfer EXCEPT ![y].timeout_flags = @ \cup {"HANDLED"}, ![y].state_flags = CancelFlags(y)]
        BY <3>3 DEF HandleTimeout
      <4>2. y \in Thread
        BY ExpiredOnList
      <4> QED BY <1>1, <1>2, <4>1, <4>2 DEF Transfers, TimedOutFlag
    <3>4. CASE GiveUp(t)
      <4>1. PICK g : transfer' = [transfer EXCEPT ![t].state_flags = CancelFlags(t), ![t].given_up = g]
        BY <3>4 DEF GiveUp
      <4> QED BY <1>1, <1>2, <4>1 DEF Transfers, TimedOutFlag
    <3> QED BY <2>2, <3>1, <3>2, <3>3, <3>4
  <2>3. ASSUME NEW t \in Thread, Unsubmit(t) \/ Return(t)
        PROVE  FALSE
    <3>1. \E r, g : \/ transfer' = [transfer EXCEPT ![t] = [NewTransfer EXCEPT !.result = r, !.given_up = g]]
                    \/ transfer' = [transfer EXCEPT ![t] = [NewTransfer EXCEPT !.result = r]]
      BY <2>3 DEF Unsubmit, Return, Freed
    <3>2. \/ transfer'[x] = transfer[x]
          \/ \E r, g : \/ transfer'[x] = [NewTransfer EXCEPT !.result = r, !.given_up = g]
                        \/ transfer'[x] = [NewTransfer EXCEPT !.result = r]
      BY <1>1, <3>1
    <3>3. transfer'[x] = transfer[x] \/ transfer'[x].timeout_flags = {}
      BY <3>2 DEF NewTransfer
    <3> QED BY <1>2, <3>3 DEF TimedOutFlag
  <2>4. ASSUME NEW t \in Thread, Completion(t) \/ DoClose(t)
        PROVE  FALSE
    <3>1. CASE Completion(t)
      <4>1. transfer' = [transfer EXCEPT ![subject[t].of].state_flags = @ \ {"IN_FLIGHT"},
                                         ![subject[t].of].completed = TRUE,
                                         ![subject[t].of].status = subject[t].status,
                                         ![subject[t].of].calls = @ + 1]
        BY <3>1 DEF Completion
      <4> QED BY <1>1, <1>2, <4>1 DEF Transfers, TimedOutFlag
    <3>2. CASE DoClose(t)
      <4>1. transfer' = transfer \/ transfer' = [transfer EXCEPT ![subject[t].of].handle = FALSE]
        BY <3>2 DEF DoClose
      <4> QED BY <1>1, <1>2, <4>1 DEF Transfers, TimedOutFlag
    <3> QED BY <2>4, <3>1, <3>2
  <2>5. ~UNCHANGED transfer
    BY <1>2 DEF TimedOutFlag
  <2> QED BY <2>1, <2>2, <2>3, <2>4, <2>5, TransferChanges
<1>3. ASSUME NEW t \in Thread, pc'[t] = "timed_out", subject'[t].of = x
      PROVE  Expiry(x) \/ (HandleTimeout(t) /\ CancelSucceeds(x))
  <2>1. CASE HandleTimeout(t)
    <3>1. PICK y \in Expired(t) :
            /\ subject' = [subject EXCEPT ![t].of = y]
            /\ pc' = [pc EXCEPT ![t] = IF CancelSucceeds(y) THEN "timed_out" ELSE "timeouts"]
      BY <2>1 DEF HandleTimeout, Go
    <3>2. y = x /\ CancelSucceeds(y)
      BY <1>1, <1>3, <3>1
    <3> QED BY <2>1, <3>2
  <2>2. CASE pc[t] = "timed_out" /\ subject'[t] = subject[t]
    BY <1>3, <2>2 DEF Expiry
  <2> QED BY <1>3, <2>1, <2>2, PurposeMoves
<1>4. Expiry(x)' => Expiry(x) \/ \E t \in Thread :
        HandleTimeout(t) /\ pc'[t] = "timed_out" /\ subject'[t].of = x /\ CancelSucceeds(x)
  <2>1. Expiry(x)' => TimedOutFlag(x)' \/ \E t \in Thread : pc'[t] = "timed_out" /\ subject'[t].of = x
    BY DEF Expiry
  <2>2. TimedOutFlag(x) => Expiry(x)
    BY DEF Expiry
  <2> QED BY <1>2, <1>3, <2>1, <2>2
<1>5. ASSUME Expiry(x), ~Unsubmit(x), ~Return(x)
      PROVE  Expiry(x)'
  <2>1. TimedOutFlag(x) => TimedOutFlag(x)'
    BY <1>5, TransferMoves DEF TransferMove, Kept, Marked
  <2>2. ASSUME NEW t \in Thread, pc[t] = "timed_out", subject[t].of = x
        PROVE  TimedOutFlag(x)' \/ (pc'[t] = "timed_out" /\ subject'[t].of = x)
    <3>1. CASE TimedOut(t)
      <4>1. transfer' = [transfer EXCEPT ![x].timeout_flags = @ \cup {"TIMED_OUT"}]
        BY <2>2, <3>1 DEF TimedOut
      <4> QED BY <1>1, <4>1 DEF Transfers, TimedOutFlag
    <3>2. CASE Completion(t)
      BY <2>2, <3>2 DEF Completion, At
    <3> QED BY <2>2, <3>1, <3>2, NextForIt
  <2> QED BY <1>5, <2>1, <2>2 DEF Expiry
<1> QED BY <1>4, <1>5

\* A transfer is cancelled once, by the one or the other.
LEMMA CancelledByKept ==
  ASSUME Types, CancelledBy, [Next]_vars
  PROVE  CancelledBy'
<1> SUFFICES ASSUME NEW x \in Thread
             PROVE  /\ urbs'[x].reap_action = "CANCELLED" => Expiry(x)' \/ transfer'[x].given_up
                    /\ Expiry(x)' \/ transfer'[x].given_up => ~Cancellable(x)' /\ pc'[x] \notin EarlyLabels
                    /\ ~(Expiry(x)' /\ transfer'[x].given_up)
  BY DEF CancelledBy
<1> DEFINE by_timeout == \E t \in Thread :
             HandleTimeout(t) /\ pc'[t] = "timed_out" /\ subject'[t].of = x /\ CancelSucceeds(x)
           by_caller == GiveUp(x) /\ CancelSucceeds(x)
<1>1. /\ urbs[x].reap_action = "CANCELLED" => Expiry(x) \/ transfer[x].given_up
      /\ Expiry(x) \/ transfer[x].given_up => ~Cancellable(x) /\ pc[x] \notin EarlyLabels
      /\ ~(Expiry(x) /\ transfer[x].given_up)
  BY DEF CancelledBy
<1>2. Expiry(x)' => Expiry(x) \/ by_timeout
  BY ExpiryMoves
<1>3. Expiry(x) => Expiry(x)' \/ Unsubmit(x) \/ Return(x)
  BY ExpiryMoves
<1>4. transfer'[x].given_up = transfer[x].given_up \/ (Unsubmit(x) /\ ~transfer'[x].given_up) \/ by_caller
  BY GivenUpMoves
<1>5. by_timeout \/ by_caller => Cancellable(x) /\ ~Cancellable(x)' /\ pc[x] \notin EarlyLabels
  <2>1. by_timeout \/ by_caller => ~Cancellable(x)'
    BY CancellableOnce
  <2>2. by_timeout \/ by_caller => Cancellable(x)
    BY DEF CancelSucceeds
  <2>3. Cancellable(x) => pc[x] \notin EarlyLabels
    BY DEF Cancellable, Types, EarlyFresh, InFlight
  <2> QED BY <2>1, <2>2, <2>3
<1>6. pc[x] \notin EarlyLabels => pc'[x] \notin EarlyLabels /\ ~BackendSubmits(x) /\ ~Unsubmit(x)
  BY EarlyOnce, WhoMoves DEF EarlyLabels
<1>7. by_caller => transfer'[x].given_up
  <2>1. ASSUME by_caller
        PROVE  transfer'[x].given_up
    <3>1. PICK g : /\ g = (transfer[x].given_up \/ CancelSucceeds(x))
                   /\ transfer' = [transfer EXCEPT ![x].state_flags = CancelFlags(x), ![x].given_up = g]
      BY <2>1 DEF GiveUp
    <3>2. g
      BY <2>1, <3>1
    <3> QED BY <3>1, <3>2 DEF Types, TransferType, Transfers
  <2> QED BY <2>1
<1>8. ~(by_timeout /\ by_caller)
  <2>1. ASSUME NEW t \in Thread, HandleTimeout(t), pc'[t] = "timed_out", GiveUp(x)
        PROVE  FALSE
    <3>1. pc[t] = "timeouts" /\ pc[x] = "cancel" /\ pc' = [pc EXCEPT ![x] = "wait"]
      BY <2>1 DEF HandleTimeout, GiveUp, At, Go
    <3> QED BY <2>1, <3>1 DEF Types, ThreadType
  <2> QED BY <2>1
<1>9. urbs'[x].reap_action = "CANCELLED" => Expiry(x)' \/ transfer'[x].given_up
  <2> SUFFICES ASSUME urbs'[x].reap_action = "CANCELLED"
               PROVE  Expiry(x)' \/ transfer'[x].given_up
    OBVIOUS
  <2>1. UrbsMove(x)
    BY UrbMoves DEF Types
  <2>2. \/ urbs[x].reap_action = "CANCELLED"
        \/ \E t \in Thread : pc'[t] = "timed_out" /\ subject'[t].of = x
        \/ by_caller
    BY <2>1 DEF UrbsMove
  <2>3. ~Return(x)
    <3>1. ASSUME Return(x)
          PROVE  FALSE
      <4>1. urbs'[x] = NewUrbs(setup.num_urbs[x])
        BY <3>1 DEF Return, Types, UrbsSound
      <4> QED BY <4>1 DEF NewUrbs
    <3> QED BY <3>1
  <2>4. CASE urbs[x].reap_action = "CANCELLED"
    BY <1>1, <1>3, <1>4, <1>6, <1>7, <2>3, <2>4
  <2>5. CASE \E t \in Thread : pc'[t] = "timed_out" /\ subject'[t].of = x
    BY <2>5 DEF Expiry
  <2> QED BY <1>7, <2>2, <2>4, <2>5
<1>10. Expiry(x)' \/ transfer'[x].given_up => Expiry(x) \/ transfer[x].given_up \/ by_timeout \/ by_caller
  BY <1>2, <1>4
<1> HIDE DEF by_timeout, by_caller
<1>11. Expiry(x)' \/ transfer'[x].given_up => ~Cancellable(x)' /\ pc'[x] \notin EarlyLabels
  BY <1>1, <1>5, <1>6, <1>10, CancellableOnce
<1>12. ~(Expiry(x)' /\ transfer'[x].given_up)
  BY <1>1, <1>2, <1>4, <1>5, <1>8
<1> QED BY <1>9, <1>11, <1>12

\* A transfer that is not over gets no status.
LEMMA NoVerdictKept ==
  ASSUME Types, Ending, NoVerdict, [Next]_vars
  PROVE  NoVerdict'
<1> SUFFICES ASSUME NEW x \in Thread, InFlight(x)' \/ pc'[x] \in EarlyLabels
             PROVE  transfer'[x].status = "COMPLETED" /\ transfer'[x].result = None
  BY DEF NoVerdict, InFlight
<1>1. InFlight(x) \/ pc[x] \in EarlyLabels
  BY EarlyOnce, FlightStarts, WhoMoves DEF EarlyLabels
<1>2. transfer[x].status = "COMPLETED" /\ transfer[x].result = None /\ TransferMove(x)
  BY <1>1, TransferMoves DEF NoVerdict
<1>3. ~Unsubmit(x) /\ ~Return(x)
  BY <1>2, WhoMoves DEF TransferMove, Blank, EarlyLabels
<1>4. \A t \in Thread : ~Ends(t, x)
  <2>1. ASSUME NEW t \in Thread, Ends(t, x)
        PROVE  FALSE
    <3>1. pc[x] \notin EarlyLabels
      BY <2>1, EndedInFlight
    <3> QED BY <1>2, <2>1, <3>1, EarlyOnce DEF TransferMove
  <2> QED BY <2>1
<1>5. SameStatus(x)
  BY <1>2, <1>3, <1>4 DEF TransferMove, Kept
<1> QED BY <1>2, <1>5 DEF SameStatus

\* What the handler is about to end is in flight and reaped, and who cancelled it
\* is known: the cancellation is judged when no timeout is being handled.
LEMMA EndingKept ==
  ASSUME Types, Locks, Phases, Ending, CancelledBy, [Next]_vars
  PROVE  Ending'
<1> DEFINE ending(t, x, label, status) ==
      /\ "IN_FLIGHT" \in transfer'[x].state_flags /\ transfer'[x].handle /\ Drained(urbs'[x])
      /\ label = "cancellation" => urbs'[x].reap_action = "CANCELLED"
      /\ label = "completion" => status # IF transfer'[x].given_up THEN "TIMED_OUT" ELSE "CANCELLED"
<1> SUFFICES ASSUME NEW t \in Thread, pc'[t] \in {"cancellation", "completion"}
             PROVE  ending(t, subject'[t].of, pc'[t], subject'[t].status)
  BY DEF Ending, InFlight
<1>1. /\ pc \in [Thread -> Labels]
      /\ subject \in [Thread -> [of : Thread \cup {None}, status : Statuses]]
  BY DEF Types, ThreadType
<1>2. CASE Reap(t)
  <2>1. PICK h : h = Device(t)
    OBVIOUS
  <2>2. PICK u : LET d == Device(t)
                 IN /\ d \in Thread /\ pc[t] = "reap"
                    /\ urbs' = [urbs EXCEPT ![d] = u] /\ Sound(u, setup.num_urbs[d])
                    /\ urbs[d].queue # <<>>
                    /\ IF ~AllRetired(u) THEN UNCHANGED <<pc, subject>>
                       ELSE /\ subject' = [subject EXCEPT ![t] = [of |-> d, status |-> u.reap_status]]
                            /\ pc' = [pc EXCEPT ![t] = IF u.reap_action = "CANCELLED" THEN "cancellation" ELSE "completion"]
    BY <1>2, ReapMakes
  <2>3. AllRetired(u)
    BY <2>2
  <2>4. /\ subject'[t].of = h /\ subject'[t].status = u.reap_status
        /\ pc'[t] = IF u.reap_action = "CANCELLED" THEN "cancellation" ELSE "completion"
    BY <1>1, <2>1, <2>2, <2>3
  <2>5. urbs'[h] = u /\ h \in Thread
    BY <2>1, <2>2 DEF Types, UrbsSound
  <2>6. Drained(u) /\ u.reap_status \notin {"CANCELLED", "TIMED_OUT"}
    BY <2>1, <2>2, <2>3, UrbsOf, AllRetiredDrained DEF Sound, UrbType
  <2>7. ~Drained(urbs[h])
    BY <2>1, <2>2 DEF Drained
  <2>8. InFlight(h) /\ transfer[h].handle
    BY <2>5, <2>7 DEF Phases, Phase
  <2>9. transfer' = transfer
    BY <1>2 DEF Reap
  <2>10. "IN_FLIGHT" \in transfer'[h].state_flags /\ transfer'[h].handle
    BY <2>8, <2>9 DEF InFlight
  <2> QED BY <2>4, <2>5, <2>6, <2>10
<1>3. CASE Disconnected(t)
  <2>1. PICK h : h = Device(t)
    OBVIOUS
  <2>2. h \in Thread /\ pc[t] = "reap"
    BY <1>3, <2>1, DeviceKnown DEF Disconnected, AtDevice, At
  <2>3. /\ Orphans(h) # {} /\ subject' = [subject EXCEPT ![t] = [of |-> h, status |-> "NO_DEVICE"]]
        /\ urbs' = [urbs EXCEPT ![h] = Forgotten(urbs[h])]
        /\ pc' = [pc EXCEPT ![t] = "completion"] /\ transfer' = transfer
    BY <1>3, <2>1, <2>2 DEF Disconnected, Go
  <2>4. InFlight(h) /\ transfer[h].handle
    BY <2>3 DEF Orphans, InFlight
  <2>5. subject'[t].of = h /\ subject'[t].status = "NO_DEVICE" /\ pc'[t] = "completion" /\ urbs'[h] = Forgotten(urbs[h])
    BY <1>1, <2>2, <2>3 DEF Types, UrbsSound
  <2>6. Drained(urbs'[h])
    BY <2>2, <2>5, UrbsOf, ForgottenSound
  <2>7. "IN_FLIGHT" \in transfer'[h].state_flags /\ transfer'[h].handle
    BY <2>3, <2>4 DEF InFlight
  <2> QED BY <2>5, <2>6, <2>7
<1>4. CASE Cancellation(t)
  <2>1. PICK x : x = subject[t].of
    OBVIOUS
  <2>2. /\ pc[t] = "cancellation" /\ x \in Thread /\ pc'[t] = "completion" /\ subject'[t].of = x
        /\ subject'[t].status = IF TimedOutFlag(x) THEN "TIMED_OUT" ELSE "CANCELLED"
        /\ urbs' = urbs /\ transfer' = transfer /\ flying_transfers_lock = None
    BY <1>1, <1>4, <2>1 DEF Cancellation, Types, Subjects, At, Go, TimedOutFlag, transferVars
  <2>3. InFlight(x) /\ transfer[x].handle /\ Drained(urbs[x]) /\ urbs[x].reap_action = "CANCELLED"
    BY <2>1, <2>2 DEF Ending
  <2>4. TimedOutFlag(x) <=> ~transfer[x].given_up
    <3>1. \A s \in Thread : pc[s] # "timed_out"
      BY <2>2, EventsAssumption DEF Locks
    <3> QED BY <2>2, <2>3, <3>1 DEF CancelledBy, Expiry
  <2>5. "IN_FLIGHT" \in transfer'[x].state_flags /\ transfer'[x].handle
    BY <2>2, <2>3 DEF InFlight
  <2> QED BY <2>2, <2>3, <2>4, <2>5
<1>5. CASE pc[t] = pc'[t] /\ subject'[t] = subject[t]
  <2>1. PICK x : x = subject[t].of
    OBVIOUS
  <2>2. x \in Thread
    BY <1>5, <2>1 DEF Types, Subjects
  <2>3. /\ InFlight(x) /\ transfer[x].handle /\ Drained(urbs[x])
        /\ pc[t] = "cancellation" => urbs[x].reap_action = "CANCELLED"
        /\ pc[t] = "completion" => subject[t].status # IF transfer[x].given_up THEN "TIMED_OUT" ELSE "CANCELLED"
    BY <1>5, <2>1 DEF Ending
  <2>4. pc[x] \notin EarlyLabels
    BY <2>2, <2>3 DEF Types, EarlyFresh
  <2>5. ~Submit(x) /\ ~BackendSubmits(x) /\ ~Unsubmit(x)
    BY <2>2, <2>4, WhoMoves DEF EarlyLabels
  <2>6. ~Return(x)
    BY <2>2, <2>3, ReturnsUnlisted
  <2>7. ASSUME NEW s \in Thread, Ends(s, x) \/ Closes(s, x)
        PROVE  FALSE
    <3>1. pc[s] \in {"completion", "do_close"} /\ pc'[s] \in {"reap", "closed"}
      BY <2>2, <2>7, WhoMoves
    <3>2. HoldsEvents(s) /\ HoldsEvents(t)
      BY <1>5, <3>1 DEF HoldsEvents, HandlerLabels
    <3>3. s = t
      BY <3>2 DEF Locks
    <3> QED BY <3>1, <3>3
  <2>8. Kept(x) /\ UrbsMove(x)
    BY <2>2, <2>5, <2>6, <2>7, TransferMoves, UrbMoves DEF TransferMove, Types
  <2>9. "IN_FLIGHT" \in transfer'[x].state_flags /\ transfer'[x].handle
    BY <2>3, <2>8 DEF Kept, SameFlight, SameCalls, InFlight
  <2>10. Drained(urbs'[x]) /\ urbs'[x].reap_action = urbs[x].reap_action
    BY <2>3, <2>5, <2>6, <2>8 DEF UrbsMove, SameVerdict
  <2>11. subject'[t].of = x /\ subject'[t].status = subject[t].status
    BY <1>5, <2>1
  <2>12. transfer'[x].given_up = transfer[x].given_up
    <3>1. ~CancelSucceeds(x)
      BY <2>3 DEF CancelSucceeds, CancelFound, Drained
    <3> QED BY <2>2, <2>5, <3>1, GivenUpMoves
  <2> QED BY <1>5, <2>3, <2>9, <2>10, <2>11, <2>12
<1> QED BY <1>2, <1>3, <1>4, <1>5, PurposeMoves

\* A status says by whom the transfer was cancelled, since the one that is about
\* to be reported does.
LEMMA TimeoutReportedKept ==
  ASSUME Types, Ending, NoVerdict, TimeoutReported, [Next]_vars
  PROVE  TimeoutReported'
<1> SUFFICES ASSUME NEW x \in Thread
             PROVE  /\ transfer'[x].status # IF transfer'[x].given_up THEN "TIMED_OUT" ELSE "CANCELLED"
                    /\ transfer'[x].result # IF transfer'[x].given_up THEN "TIMED_OUT" ELSE "CANCELLED"
  BY DEF TimeoutReported
<1>1. /\ TransferMove(x) /\ None \notin Statuses
      /\ transfer[x].status # IF transfer[x].given_up THEN "TIMED_OUT" ELSE "CANCELLED"
      /\ transfer[x].result # IF transfer[x].given_up THEN "TIMED_OUT" ELSE "CANCELLED"
  BY TransferMoves, EventsAssumption DEF TimeoutReported
<1>2. CASE transfer'[x].given_up = transfer[x].given_up
  <2>1. CASE SameStatus(x)
    BY <1>1, <1>2, <2>1 DEF SameStatus
  <2>2. CASE Unsubmit(x) \/ Return(x)
    BY <1>1, <1>2, <2>2 DEF TransferMove, Blank
  <2>3. ASSUME NEW t \in Thread, Ends(t, x)
        PROVE  /\ transfer'[x].status # IF transfer'[x].given_up THEN "TIMED_OUT" ELSE "CANCELLED"
               /\ transfer'[x].result # IF transfer'[x].given_up THEN "TIMED_OUT" ELSE "CANCELLED"
    BY <1>1, <1>2, <2>3, EndedInFlight DEF TransferMove
  <2> QED BY <1>1, <2>1, <2>2, <2>3 DEF TransferMove, Kept
<1>3. CASE Unsubmit(x) /\ ~transfer'[x].given_up
  <2>1. transfer[x].status = "COMPLETED"
    BY <1>3, WhoMoves DEF NoVerdict, EarlyLabels
  <2> QED BY <1>1, <1>3, <2>1 DEF TransferMove, Blank
<1>4. CASE GiveUp(x) /\ CancelSucceeds(x)
  <2>1. transfer[x].status = "COMPLETED" /\ transfer[x].result = None
    BY <1>4 DEF NoVerdict, CancelSucceeds, Cancellable, InFlight
  <2>2. transfer'[x].status = transfer[x].status /\ transfer'[x].result = transfer[x].result
    <3>1. PICK g : transfer' = [transfer EXCEPT ![x].state_flags = CancelFlags(x), ![x].given_up = g]
      BY <1>4 DEF GiveUp
    <3> QED BY <3>1 DEF Types, TransferType, Transfers
  <2> QED BY <1>1, <2>1, <2>2 DEF Statuses
<1> QED BY <1>2, <1>3, <1>4, GivenUpMoves

(***************************************************************************)
(* The data of the transfers.                                              *)
(***************************************************************************)

\* No URB of a transfer that is being submitted brought anything yet.
EarlyUnused == \A x \in Thread : pc[x] \in EarlyLabels => Unused(urbs[x])

\* The kernel has no URB of a device that is gone, and the handler takes for
\* broken only such a device.
GoneDead == \A x \in gone : Pending(urbs[x]) = {}
ErrorsGone == \A t \in Thread : reported[t].error \subseteq gone

\* The URBs of a lost device are freed with what they hold.
Loses(t, x) == Disconnected(t) /\ Device(t) = x /\ Orphans(x) # {}

\* What a step makes of the data of a transfer.
DataMove(x) ==
  \/ DataMoves(urbs[x], urbs'[x])
  \/ Return(x) /\ urbs'[x] = NewUrbs(setup.num_urbs[x])
  \/ BackendSubmits(x) /\ Numbered(urbs'[x])
  \/ (\E t \in Thread : Closes(t, x) \/ Loses(t, x)) /\ urbs'[x] = Forgotten(urbs[x])

\* Every step moves the data of every transfer so.
LEMMA DataMovesOn ==
  ASSUME Types, EarlyUnused, [Next]_vars, NEW x \in Thread
  PROVE  DataMove(x)
<1>1. DOMAIN urbs = Thread
  BY DEF Types, UrbsSound
<1>2. CASE urbs'[x] = urbs[x]
  BY <1>2 DEF DataMove, DataMoves
<1>3. ASSUME NEW y \in Thread, NEW u, urbs' = [urbs EXCEPT ![y] = u]
      PROVE  urbs'[x] = urbs[x] \/ (y = x /\ urbs'[x] = u)
  BY <1>1, <1>3
<1>4. ASSUME NEW t \in Thread, BackendSubmits(t), urbs'[x] # urbs[x]
      PROVE  DataMove(x)
  <2>1. PICK u \in submit_bulk_transfer(urbs[t]) : urbs' = [urbs EXCEPT ![t] = u]
    BY <1>4 DEF BackendSubmits
  <2>2. t = x /\ urbs'[x] = u
    BY <1>3, <1>4, <2>1
  <2>3. pc[x] = "backend"
    BY <1>4, <2>2 DEF BackendSubmits, At
  <2>4. Fresh(urbs[x]) /\ Unused(urbs[x])
    BY <2>3 DEF Types, EarlyFresh, EarlyUnused, EarlyLabels
  <2>5. Numbered(u)
    BY <2>1, <2>2, <2>4, UrbsOf, SubmittedData
  <2> QED BY <1>4, <2>2, <2>5 DEF DataMove
<1>5. ASSUME NEW t \in Thread, HandleTimeout(t), urbs'[x] # urbs[x]
      PROVE  DataMove(x)
  <2>1. PICK y \in Expired(t) : CancelUrbs(y)
    BY <1>5 DEF HandleTimeout
  <2>2. y \in Thread
    BY ExpiredOnList
  <2>3. PICK u \in op_cancel_transfer(urbs[y]) : urbs' = [urbs EXCEPT ![y] = u]
    BY <1>5, <2>1 DEF CancelUrbs
  <2>4. y = x /\ urbs'[x] = u
    BY <1>3, <1>5, <2>2, <2>3
  <2>5. DataMoves(urbs[x], u)
    BY <2>3, <2>4, UrbsOf, CancelMoves
  <2> QED BY <2>4, <2>5 DEF DataMove
<1>6. ASSUME NEW t \in Thread, GiveUp(t), urbs'[x] # urbs[x]
       PROVE  DataMove(x)
  <2>1. PICK u \in op_cancel_transfer(urbs[t]) : urbs' = [urbs EXCEPT ![t] = u]
    BY <1>6 DEF GiveUp, CancelUrbs
  <2>2. t = x /\ urbs'[x] = u
    BY <1>3, <1>6, <2>1
  <2>3. DataMoves(urbs[x], u)
    BY <2>1, <2>2, UrbsOf, CancelMoves
  <2> QED BY <2>2, <2>3 DEF DataMove
<1>7. ASSUME NEW t \in Thread, Return(t), urbs'[x] # urbs[x]
      PROVE  DataMove(x)
  <2>1. urbs' = [urbs EXCEPT ![t] = NewUrbs(setup.num_urbs[t])]
    BY <1>7 DEF Return
  <2> QED BY <1>3, <1>7, <2>1 DEF DataMove
<1>8. ASSUME NEW t \in Thread, Reap(t), urbs'[x] # urbs[x]
      PROVE  DataMove(x)
  <2>1. PICK h : h = Device(t)
    OBVIOUS
  <2>2. h \in Thread /\ urbs[h].queue # <<>>
    BY <1>8, <2>1, DeviceKnown DEF Reap, Reapable
  <2>3. PICK u \in handle_bulk_completion(urbs[h]) : urbs' = [urbs EXCEPT ![h] = u]
    BY <1>8, <2>1 DEF Reap
  <2>4. h = x /\ urbs'[x] = u
    BY <1>3, <1>8, <2>2, <2>3
  <2>5. DataMoves(urbs[x], u)
    BY <2>2, <2>3, <2>4, UrbsOf, CompletionMoves
  <2> QED BY <2>4, <2>5 DEF DataMove
<1>9. ASSUME NEW t \in Thread, Disconnected(t), urbs'[x] # urbs[x]
      PROVE  DataMove(x)
  <2>1. Device(t) \in Thread
    BY <1>9, DeviceKnown DEF Disconnected
  <2>2. Orphans(Device(t)) # {} /\ urbs' = [urbs EXCEPT ![Device(t)] = Forgotten(urbs[Device(t)])]
    BY <1>9 DEF Disconnected
  <2>3. Device(t) = x /\ urbs'[x] = Forgotten(urbs[x])
    BY <1>3, <1>9, <2>1, <2>2
  <2> QED BY <1>9, <2>2, <2>3 DEF DataMove, Loses
<1>10. ASSUME NEW t \in Thread, DoClose(t), urbs'[x] # urbs[x]
      PROVE  DataMove(x)
  <2>1. subject[t].of \in Thread
    BY <1>10 DEF DoClose, At, Types, Subjects, CloserLabels
  <2>2. urbs' = [urbs EXCEPT ![subject[t].of] = Forgotten(urbs[subject[t].of])]
    BY <1>10 DEF DoClose
  <2>3. subject[t].of = x /\ urbs'[x] = Forgotten(urbs[x])
    BY <1>3, <1>10, <2>1, <2>2
  <2> QED BY <1>10, <2>3 DEF DataMove, Closes
<1>11. ASSUME NEW h \in Thread, DeviceAnswers(h), urbs'[x] # urbs[x]
       PROVE  DataMove(x)
  <2>1. PICK u \in Completions(urbs[h]) \cup Errors(urbs[h]) : urbs' = [urbs EXCEPT ![h] = u]
    BY <1>11 DEF DeviceAnswers
  <2>2. h = x /\ urbs'[x] = u
    BY <1>3, <1>11, <2>1
  <2>3. DataMoves(urbs[x], u)
    BY <2>1, <2>2, UrbsOf, KernelData
  <2> QED BY <2>2, <2>3 DEF DataMove
<1>12. ASSUME NEW h \in Thread, Unplugged(h), urbs'[x] # urbs[x]
       PROVE  DataMove(x)
  <2>1. urbs' = [urbs EXCEPT ![h] = ShutDown(urbs[h])]
    BY <1>12 DEF Unplugged
  <2>2. h = x /\ urbs'[x] = ShutDown(urbs[x])
    BY <1>3, <1>12, <2>1
  <2>3. DataMoves(urbs[x], ShutDown(urbs[x]))
    BY UrbsOf, ShutDownData
  <2> QED BY <2>2, <2>3 DEF DataMove
<1> QED BY <1>2, <1>4, <1>5, <1>7, <1>8, <1>9, <1>10, <1>11, <1>12, <1>6, UrbChanges

\* A transfer that is being submitted stays unused.
LEMMA EarlyUnusedKept ==
  ASSUME Types, EarlyUnused, [Next]_vars
  PROVE  EarlyUnused'
<1> SUFFICES ASSUME NEW x \in Thread, pc'[x] \in EarlyLabels
             PROVE  Unused(urbs'[x])
  BY DEF EarlyUnused
<1>1. pc[x] \in EarlyLabels
  BY EarlyOnce
<1>2. Unused(urbs[x]) /\ Drained(urbs[x])
  BY <1>1 DEF EarlyUnused, Types, EarlyFresh, Fresh
<1>3. ~BackendSubmits(x) /\ ~Return(x)
  BY WhoMoves DEF EarlyLabels
<1>4. Unused(Forgotten(urbs[x]))
  BY <1>2, UrbsOf, ForgottenData
<1> QED BY <1>2, <1>3, <1>4, DataMovesOn DEF DataMove, DataMoves

\* The kernel gets no URB of a device that is gone.
LEMMA GoneDeadKept ==
  ASSUME Types, EarlyUnused, GoneDead, [Next]_vars
  PROVE  GoneDead'
<1> SUFFICES ASSUME NEW x \in gone'
             PROVE  Pending(urbs'[x]) = {}
  BY DEF GoneDead
<1>1. CASE x \in gone
  <2>1. Pending(urbs[x]) = {} /\ x \in Thread
    BY <1>1 DEF GoneDead, Types, WorldType
  <2>2. ~BackendSubmits(x)
    BY <1>1 DEF BackendSubmits
  <2>3. Pending(NewUrbs(setup.num_urbs[x])) = {} /\ Pending(Forgotten(urbs[x])) = {}
    BY <2>1, UrbsOf, NewUrbsData, ForgottenData
  <2> QED BY <2>1, <2>2, <2>3, DataMovesOn DEF DataMove, DataMoves
<1>2. CASE x \notin gone
  <2>1. PICK t \in Thread : DoClose(t) \/ Unplugged(t)
    BY <1>2, WorldChanges
  <2>2. Unplugged(t) /\ t = x
    BY <1>2, <2>1 DEF DoClose, Unplugged
  <2>3. urbs'[x] = ShutDown(urbs[x])
    BY <2>2 DEF Unplugged, Types, UrbsSound
  <2> QED BY <2>2, <2>3, UrbsOf, ShutDownData
<1> QED BY <1>1, <1>2

\* What was found gone stays gone.
LEMMA ErrorsGoneKept ==
  ASSUME Types, ErrorsGone, [Next]_vars
  PROVE  ErrorsGone'
<1> SUFFICES ASSUME NEW x \in Thread
             PROVE  reported'[x].error \subseteq gone'
  BY DEF ErrorsGone
<1>1. reported \in [Thread -> Reports] /\ reported[x].error \subseteq gone
  BY DEF Types, ThreadType, ErrorsGone
<1>2. gone \subseteq gone'
  BY WorldChanges DEF DoClose, Unplugged
<1>3. ASSUME NEW t \in Thread, Poll(t)
      PROVE  reported'[x].error \subseteq gone'
  <2>1. CASE t = x
    BY <1>1, <1>2, <1>3, <2>1 DEF Poll
  <2>2. CASE t # x
    BY <1>1, <1>2, <1>3, <2>2 DEF Poll
  <2> QED BY <2>1, <2>2
<1>4. ASSUME NEW t \in Thread, DeviceDone(t)
      PROVE  reported'[x].error \subseteq gone'
  BY <1>1, <1>2, <1>4 DEF DeviceDone, Reports
<1>5. ASSUME NEW t \in Thread, UnlockEvents(t)
      PROVE  reported'[x].error \subseteq gone'
  BY <1>1, <1>2, <1>5 DEF UnlockEvents, Nothing
<1>6. ASSUME NEW t \in Thread, NothingToReap(t) \/ Disconnected(t)
      PROVE  reported' = reported \/ DeviceDone(t)
  BY <1>6 DEF NothingToReap, Disconnected
<1> QED BY <1>1, <1>2, <1>3, <1>4, <1>5, <1>6, ReportChanges

\* A lost device takes data with it where the kernel does not give back its URBs.
Losing(t, x) == pc[t] = "completion" /\ subject[t] = [of |-> x, status |-> "NO_DEVICE"]
Lost(x) ==
  /\ ~setup.reap_after_disconnect
  /\ \/ transfer[x].calls > 0 /\ transfer[x].status = "NO_DEVICE"
     \/ \E t \in Thread : Losing(t, x)

\* The data of every transfer is in the buffer or in its URBs, unless its handle
\* was closed or its device lost.
DataInv == \A x \in Thread : Numbered(urbs[x]) \/ ~transfer[x].handle \/ Lost(x)

\* Nothing is lost of a transfer that is not in flight and not over.
LEMMA NotLost ==
  ASSUME Types, Phases, Ending, NEW x \in Thread, ~InFlight(x), transfer[x].calls = 0
  PROVE  ~Lost(x)
<1>1. ASSUME NEW t \in Thread, Losing(t, x)
      PROVE  FALSE
  BY <1>1 DEF Losing, Ending
<1> QED BY <1>1 DEF Lost

\* What is lost stays lost until the caller frees the transfer.
LEMMA LostStays ==
  ASSUME Types, Locks, Phases, Ending, [Next]_vars, NEW x \in Thread, Lost(x), ~Return(x), setup' = setup
  PROVE  Lost(x)' /\ \A t \in Thread : ~(Closes(t, x) /\ Listed(x))
<1>1. Phase(x) /\ TransferMove(x) /\ transfer[x].calls \in Nat
  BY TransferMoves DEF Phases, Types, TransferType, Transfers
<1>2. ~Submit(x) /\ ~BackendSubmits(x) /\ ~Unsubmit(x)
  <2>1. pc[x] \in EarlyLabels => ~InFlight(x) /\ transfer[x].calls = 0
    BY <1>1 DEF Types, EarlyFresh, Phase
  <2> QED BY <2>1, NotLost, WhoMoves DEF EarlyLabels
<1>3. ASSUME transfer[x].calls > 0, transfer[x].status = "NO_DEVICE"
      PROVE  Lost(x)' /\ \A t \in Thread : ~(Closes(t, x) /\ Listed(x))
  <2>1. ~Listed(x) /\ ~InFlight(x)
    BY <1>1, <1>3 DEF Phase
  <2>2. \A t \in Thread : ~Ends(t, x)
    BY <2>1, EndedInFlight
  <2>3. Kept(x)
    BY <1>1, <1>2, <2>1, <2>2 DEF TransferMove
  <2>4. transfer'[x].calls > 0 /\ transfer'[x].status = "NO_DEVICE"
    BY <1>3, <2>3 DEF Kept, SameCalls, SameStatus
  <2> QED BY <2>1, <2>4 DEF Lost
<1>4. ASSUME NEW s \in Thread, Losing(s, x)
      PROVE  Lost(x)' /\ \A t \in Thread : ~(Closes(t, x) /\ Listed(x))
  <2>1. pc[s] = "completion" /\ subject[s].of = x /\ subject[s].status = "NO_DEVICE" /\ HoldsEvents(s)
    BY <1>4 DEF Losing, HoldsEvents, HandlerLabels
  <2>2. ASSUME NEW t \in Thread, Closes(t, x)
        PROVE  FALSE
    <3>1. HoldsEvents(t) /\ pc[t] = "do_close"
      BY <2>2, WhoMoves DEF HoldsEvents
    <3>2. t = s
      BY <2>1, <3>1 DEF Locks
    <3> QED BY <2>1, <3>1, <3>2
  <2>3. CASE Completion(s)
    <3>1. Ends(s, x)
      BY <2>1, <2>3 DEF Ends
    <3>2. transfer'[x].calls = transfer[x].calls + 1 /\ transfer'[x].status = "NO_DEVICE"
      BY <1>1, <2>1, <3>1 DEF TransferMove
    <3>3. transfer'[x].calls > 0
      BY <1>1, <3>2
    <3> QED BY <2>2, <3>2, <3>3 DEF Lost
  <2>4. CASE pc'[s] = pc[s] /\ subject'[s] = subject[s]
    BY <1>4, <2>2, <2>4 DEF Lost, Losing
  <2>5. ~TimedOut(s)
    BY <2>1 DEF TimedOut, At
  <2> QED BY <2>1, <2>3, <2>4, <2>5, NextForIt
<1> QED BY <1>3, <1>4 DEF Lost

\* A device is lost with its data only where the kernel keeps its URBs.
LEMMA LosesData ==
  ASSUME Types, GoneDead, ErrorsGone, NEW t \in Thread, NEW x \in Thread, Loses(t, x), setup' = setup
  PROVE  Drained(urbs[x]) \/ Lost(x)'
<1>1. x \in reported[t].error /\ ~Reapable(x) /\ Orphans(x) # {}
  BY DEF Loses, Disconnected, Broken
<1>2. x \in gone /\ Pending(urbs[x]) = {}
  BY <1>1 DEF ErrorsGone, GoneDead
<1>3. CASE setup.reap_after_disconnect
  BY <1>1, <1>2, <1>3 DEF Reapable, Drained
<1>4. CASE ~setup.reap_after_disconnect
  <2>1. /\ subject' = [subject EXCEPT ![t] = [of |-> x, status |-> "NO_DEVICE"]]
        /\ pc' = [pc EXCEPT ![t] = "completion"]
    BY <1>1 DEF Loses, Disconnected, Go
  <2>2. Losing(t, x)'
    BY <2>1 DEF Losing, Types, ThreadType
  <2> QED BY <1>4, <2>2 DEF Lost
<1> QED BY <1>3, <1>4

\* Every step keeps the data of every transfer.
LEMMA DataInvKept ==
  ASSUME Types, Locks, Phases, Ending, EarlyUnused, GoneDead, ErrorsGone, DataInv, [Next]_vars
  PROVE  DataInv'
<1> SUFFICES ASSUME NEW x \in Thread
             PROVE  Numbered(urbs'[x]) \/ ~transfer'[x].handle \/ Lost(x)'
  BY DEF DataInv
<1>1. setup' = setup
  BY WorldTypeKept
<1>2. DataMove(x) /\ TransferMove(x) /\ Phase(x)
  BY DataMovesOn, TransferMoves DEF Phases
<1>3. CASE Return(x)
  <2>1. urbs' = [urbs EXCEPT ![x] = NewUrbs(setup.num_urbs[x])]
    BY <1>3 DEF Return
  <2>2. urbs'[x] = NewUrbs(setup.num_urbs[x])
    BY <2>1 DEF Types, UrbsSound
  <2> QED BY <2>2, UrbsOf, NewUrbsData
<1>4. CASE BackendSubmits(x) /\ Numbered(urbs'[x])
  BY <1>4
<1>5. CASE Unsubmit(x) /\ ~Return(x)
  <2>1. pc[x] = "unsubmit"
    BY <1>5, WhoMoves
  <2>2. ~InFlight(x) /\ transfer[x].calls = 0 /\ transfer[x].handle
    BY <1>2, <2>1 DEF Types, EarlyFresh, Phase, EarlyLabels
  <2>3. Numbered(urbs[x])
    BY <2>2, NotLost DEF DataInv
  <2>4. urbs' = urbs
    BY <1>5 DEF Unsubmit
  <2> QED BY <2>3, <2>4
<1>6. CASE Lost(x) /\ ~Return(x)
  BY <1>1, <1>6, LostStays
<1>7. CASE ~transfer[x].handle /\ ~Return(x) /\ ~Unsubmit(x)
  BY <1>2, <1>7 DEF TransferMove, Kept, SameCalls
<1>8. CASE Numbered(urbs[x]) /\ transfer[x].handle /\ DataMoves(urbs[x], urbs'[x])
  BY <1>8 DEF DataMoves
<1>9. ASSUME Numbered(urbs[x]), transfer[x].handle, urbs'[x] = Forgotten(urbs[x]), Drained(urbs[x])
      PROVE  Numbered(urbs'[x])
  BY <1>9, UrbsOf, ForgottenData
<1>10. ASSUME Numbered(urbs[x]), transfer[x].handle, NEW t \in Thread, Closes(t, x), urbs'[x] = Forgotten(urbs[x])
       PROVE  Numbered(urbs'[x]) \/ ~transfer'[x].handle
  <2>1. CASE Listed(x)
    BY <1>2, <1>10, <2>1 DEF TransferMove
  <2>2. CASE ~Listed(x)
    BY <1>2, <1>9, <1>10, <2>2 DEF Phase
  <2> QED BY <2>1, <2>2
<1>11. ASSUME Numbered(urbs[x]), transfer[x].handle, NEW t \in Thread, Loses(t, x), urbs'[x] = Forgotten(urbs[x])
       PROVE  Numbered(urbs'[x]) \/ Lost(x)'
  BY <1>1, <1>9, <1>11, LosesData
<1> QED BY <1>2, <1>3, <1>4, <1>5, <1>6, <1>7, <1>8, <1>10, <1>11 DEF DataMove, DataInv

\* DataKept is in the data and the phases.
LEMMA DataKeptFollows ==
  ASSUME Types, Phases, Ending, DataInv
  PROVE  DataKept
<1> SUFFICES ASSUME NEW x \in Thread, transfer[x].calls > 0
             PROVE  /\ Pending(urbs[x]) = {} /\ urbs[x].queue = <<>>
                    /\ \/ transfer[x].status = "NO_DEVICE" /\ ~setup.reap_after_disconnect
                       \/ urbs[x].transferred = urbs[x].sent /\ \A k \in 1 .. urbs[x].sent : urbs[x].buffer[k] = k
  BY DEF DataKept
<1>1. Phase(x) /\ transfer[x].calls \in Nat
  BY DEF Phases, Types, TransferType, Transfers
<1>2. transfer[x].handle /\ ~InFlight(x)
  BY <1>1 DEF Phase
<1>3. Drained(urbs[x])
  BY <1>1, <1>2 DEF Phase
<1>4. CASE Lost(x)
  <2>1. ASSUME NEW t \in Thread, Losing(t, x)
        PROVE  FALSE
    BY <1>2, <2>1 DEF Losing, Ending
  <2> QED BY <1>3, <1>4, <2>1 DEF Lost, Drained
<1>5. CASE Numbered(urbs[x])
  <2>1. InQueue(urbs[x]) /\ DataAt(urbs[x]) = {}
    BY <1>3, <1>5 DEF Numbered, Drained, DataAt
  <2>2. urbs[x].transferred \in Nat /\ urbs[x].sent \in Nat
    BY UrbsOf DEF Sound, UrbType
  <2>3. urbs[x].transferred <= urbs[x].sent /\ \A v \in 1 .. urbs[x].transferred : urbs[x].buffer[v] = v
    BY <2>1 DEF InQueue, Received
  <2>4. \A v \in (urbs[x].transferred + 1) .. urbs[x].sent : FALSE
    BY <2>1 DEF InQueue, AllThere
  <2>5. urbs[x].transferred = urbs[x].sent
    BY <2>2, <2>3, <2>4
  <2> QED BY <1>3, <2>3, <2>5 DEF Drained
<1> QED BY <1>2, <1>4, <1>5 DEF DataInv

-----------------------------------------------------------------------------
\* The inductive invariant.
IInv ==
  /\ Types /\ EventSignalled /\ Locks /\ Sources /\ Completing /\ Closing
  /\ Phases /\ Ending /\ InOrder /\ CancelledBy /\ NoVerdict /\ TimeoutReported
  /\ EarlyUnused /\ GoneDead /\ ErrorsGone /\ DataInv

\* The invariant holds initially.
LEMMA IInvAtFirst ==
  ASSUME Init
  PROVE  IInv
<1>1. Types /\ EventSignalled
  BY TypesAtFirst, EventAtFirst
<1>2. /\ \A t \in Thread : pc[t] \in {"submit", "end"} /\ (pc[t] = "end" \/ t \in Users)
      /\ flying_transfers = <<>> /\ flying_transfers_lock = None /\ events_lock = None
      /\ event_sources = Users /\ event_data = {} /\ open = Users
      /\ \A x \in Thread : transfer[x] = NewTransfer /\ reported[x].ready = {}
  BY DEF Init, Nothing
<1>3. Locks
  BY <1>2, EventsAssumption DEF Locks, HoldsEvents, InTimeouts, HandlerLabels, TimeoutLabels
<1>4. Sources
  BY <1>2 DEF Sources, Init
<1>5. Completing /\ Closing /\ Ending
  BY <1>2 DEF Completing, Closing, Ending, CloserLabels
<1>6. ASSUME NEW x \in Thread
      PROVE  /\ Drained(urbs[x]) /\ urbs[x].reap_action = "NORMAL" /\ ~InFlight(x) /\ ~Listed(x)
             /\ transfer[x].status = "COMPLETED" /\ transfer[x].result = None
             /\ ~TimedOutFlag(x) /\ ~transfer[x].given_up
             /\ transfer[x].calls = 0 /\ transfer[x].handle /\ ~transfer[x].completed
  <2>1. setup.num_urbs[x] \in Nat /\ urbs[x] = NewUrbs(setup.num_urbs[x])
    BY <1>1, UrbsOf DEF Init
  <2>2. Drained(urbs[x]) /\ urbs[x].reap_action = "NORMAL"
    BY <2>1, NewUrbsSound
  <2>3. ~Listed(x)
    BY <1>2 DEF Listed, ToSet
  <2> QED BY <1>2, <2>2, <2>3 DEF NewTransfer, InFlight, TimedOutFlag
<1>7. Phases
  BY <1>2, <1>6 DEF Phases, Phase, EarlyLabels
<1>8. InOrder
  BY <1>2 DEF InOrder, Distinct, Sorted
<1>9. CancelledBy /\ NoVerdict
  BY <1>2, <1>6 DEF CancelledBy, Expiry, NoVerdict
<1>10. TimeoutReported
  BY <1>6, EventsAssumption DEF TimeoutReported, Statuses
<1>11. EarlyUnused /\ DataInv
  <2>1. ASSUME NEW x \in Thread
        PROVE  Unused(urbs[x]) /\ Numbered(urbs[x])
    <3>1. setup.num_urbs[x] \in Nat /\ urbs[x] = NewUrbs(setup.num_urbs[x])
      BY <1>1, UrbsOf DEF Init
    <3> QED BY <3>1, NewUrbsData
  <2> QED BY <2>1 DEF EarlyUnused, DataInv
<1>12. GoneDead /\ ErrorsGone
  BY DEF GoneDead, ErrorsGone, Init, Nothing
<1> QED BY <1>1, <1>3, <1>4, <1>5, <1>7, <1>8, <1>9, <1>10, <1>11, <1>12 DEF IInv

\* Every step keeps the invariant.
LEMMA IInvKept ==
  ASSUME IInv, [Next]_vars
  PROVE  IInv'
<1>1. /\ Types /\ EventSignalled /\ Locks /\ Sources /\ Completing /\ Closing
      /\ Phases /\ Ending /\ InOrder /\ CancelledBy /\ NoVerdict /\ TimeoutReported
      /\ EarlyUnused /\ GoneDead /\ ErrorsGone /\ DataInv
  BY DEF IInv
<1>2. Types' /\ EventSignalled' /\ Locks' /\ Sources' /\ Completing' /\ Closing'
  BY <1>1, TypesKept, EventKept, LocksKept, SourcesKept, CompletingKept, ClosingKept
<1>3. Phases' /\ Ending' /\ InOrder' /\ CancelledBy' /\ NoVerdict' /\ TimeoutReported'
  BY <1>1, PhasesKept, EndingKept, OrderKept, CancelledByKept, NoVerdictKept, TimeoutReportedKept
<1>4. EarlyUnused' /\ GoneDead' /\ ErrorsGone' /\ DataInv'
  BY <1>1, EarlyUnusedKept, GoneDeadKept, ErrorsGoneKept, DataInvKept
<1> QED BY <1>2, <1>3, <1>4 DEF IInv

\* The invariant holds of every run.
LEMMA Invariant == Spec => []IInv
BY IInvAtFirst, IInvKept, PTL DEF Spec

\* CalledOnce is in the phases.
LEMMA CalledOnceFollows ==
  ASSUME Types, Phases
  PROVE  CalledOnce
<1>1. ASSUME NEW x \in Thread
      PROVE  transfer[x].calls <= IF transfer[x].handle /\ pc[x] \notin {"backend", "unsubmit"} THEN 1 ELSE 0
  <2>1. Phase(x)
    BY DEF Phases
  <2> QED BY <2>1 DEF Phase, EarlyLabels
<1> QED BY <1>1 DEF CalledOnce

\* FlyingInOrder is in the phases and in the order.
LEMMA FlyingInOrderFollows ==
  ASSUME Types, Phases, InOrder
  PROVE  FlyingInOrder
<1>1. flying_transfers \in Seq(Thread) /\ DOMAIN flying_transfers = 1 .. Len(flying_transfers)
  BY DEF Types, ContextType
<1>2. \A i \in 1 .. Len(flying_transfers) : Deadlines[flying_transfers[i]] = transfer[flying_transfers[i]].deadline
  BY <1>1 DEF Deadlines
<1>3. \A x \in Thread : "IN_FLIGHT" \in transfer[x].state_flags /\ transfer[x].handle => x \in ToSet(flying_transfers)
  BY DEF Phases, Phase, InFlight, Listed
<1>4. ASSUME NEW i \in 1 .. Len(flying_transfers), NEW j \in 1 .. Len(flying_transfers), i < j
      PROVE  LET d == transfer[flying_transfers[i]].deadline
                 e == transfer[flying_transfers[j]].deadline
             IN flying_transfers[i] # flying_transfers[j] /\ (e = 0 \/ (d # 0 /\ d <= e))
  BY <1>2, <1>4 DEF InOrder, Distinct, Sorted
<1> QED BY <1>1, <1>3, <1>4 DEF FlyingInOrder

-----------------------------------------------------------------------------
\* Every variable keeps its type: so many closes, flags and URBs as there can
\* be (libusb_context, usbi_transfer).
THEOREM EventTypes == Spec => []TypeOK
<1>1. IInv => TypeOK
  BY TypeOKFollows DEF IInv
<1> QED BY <1>1, Invariant, PTL

\* The event is signalled exactly while a flag is up, and the flag of a close
\* while somebody closes (libusb_close, handle_event_trigger).
THEOREM EventKeptSignalled == Spec => []EventSignalled
<1>1. IInv => EventSignalled
  BY DEF IInv
<1> QED BY <1>1, Invariant, PTL

\* The handler polls open descriptors only, and ends transfers of open handles
\* only (do_close under the event lock).
THEOREM OpenHandles == Spec => []HandlesOpen
<1>1. IInv => HandlesOpen
  BY HandlesOpenFollows DEF IInv
<1> QED BY <1>1, Invariant, PTL

\* A transfer is called back at most once, never after its handle was closed,
\* and not while its submission is under way or fails
\* (usbi_handle_transfer_completion).
THEOREM CallbackOnce == Spec => []CalledOnce
<1>1. IInv => CalledOnce
  BY CalledOnceFollows DEF IInv
<1> QED BY <1>1, Invariant, PTL

\* What is in flight on an open handle is on the list, once, and the list is in
\* the order of the deadlines (add_to_flying_list, remove_from_flying_list).
THEOREM ListInOrder == Spec => []FlyingInOrder
<1>1. IInv => FlyingInOrder
  BY FlyingInOrderFollows DEF IInv
<1> QED BY <1>1, Invariant, PTL

\* A transfer that a timeout cancelled is never reported as cancelled, one that its
\* caller gave up never as timed out (handle_timeout, libusb_cancel_transfer by
\* sync_transfer_wait_for_completion, usbi_handle_transfer_cancellation).
THEOREM TimeoutsReported == Spec => []TimeoutReported
<1>1. IInv => TimeoutReported
  BY DEF IInv
<1> QED BY <1>1, Invariant, PTL

\* A transfer that is over has all the data the device moved for it, in order and
\* without holes, whatever ended or cancelled it, and no URB of it is left
\* (handle_bulk_completion, discard_urbs, op_cancel_transfer).
THEOREM DataIsKept == Spec => []DataKept
<1>1. IInv => DataKept
  BY DataKeptFollows DEF IInv
<1> QED BY <1>1, Invariant, PTL
===============================================================================
