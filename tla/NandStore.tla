------------------------------ MODULE NandStore ------------------------------
(***************************************************************************)
(* What NandData promises the program: a store of pages on which each call *)
(* of readPage, writePage and erasePage takes effect once, at one moment   *)
(* between its start and its return, and returns what that effect was.     *)
(***************************************************************************)
EXTENDS NandTypes

VARIABLES
  store,    \* the contents of the pages
  job,      \* the operation in progress, or NoOp
  outcome,  \* {} until the operation has taken effect, then {its reply}
  reply     \* what the last operation returned

vars == <<store, job, outcome, reply>>

TypeOK ==
  /\ store \in [Pages -> Content]
  /\ job \in Ops \cup {NoOp}
  /\ outcome \in {{}} \cup {{r} : r \in Replies}
  /\ reply \in Replies

Init ==
  /\ store = [p \in Pages |-> Blank]
  /\ job = NoOp
  /\ outcome = {}
  /\ reply = Reply(TRUE, <<>>)

Invoke(o) ==
  /\ job = NoOp
  /\ job' = o
  /\ UNCHANGED <<store, outcome, reply>>

PerformRead ==
  /\ job.kind = "read"
  /\ outcome' = {Reply(TRUE, Prefix(store[job.at], job.len))}
  /\ store' = store

PerformWrite ==
  /\ job.kind = "write"
  /\ \E r \in ProgramResults(store, job.at, job.data) :
       store' = r.pages /\ outcome' = {Reply(r.ok, <<>>)}

PerformErase ==
  /\ job.kind = "erase"
  /\ \E r \in EraseResults(store, job.at) :
       store' = r.pages /\ outcome' = {Reply(r.ok, <<>>)}

Perform ==
  /\ outcome = {}
  /\ PerformRead \/ PerformWrite \/ PerformErase
  /\ UNCHANGED <<job, reply>>

Finish ==
  /\ outcome = {reply'}
  /\ job' = NoOp
  /\ outcome' = {}
  /\ UNCHANGED store

Next == (\E o \in Ops : Invoke(o)) \/ Perform \/ Finish

Spec == Init /\ [][Next]_vars
=============================================================================
