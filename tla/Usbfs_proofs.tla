---------------------------- MODULE Usbfs_proofs ----------------------------
(***************************************************************************)
(* What the kernel, the backend and the reaping of an URB keep of the URBs *)
(* of a transfer, for any number of them.                                  *)
(***************************************************************************)
EXTENDS Usbfs, FiniteSetTheorems, SequenceTheorems, WellFoundedInduction, TLAPS

\* Every nonempty set of naturals has its minimum in it.
LEMMA MinIn ==
  ASSUME NEW S \in SUBSET Nat, S # {}
  PROVE  /\ Min(S) \in S
         /\ \A j \in S : Min(S) <= j
<1> DEFINE R == OpToRel(<, Nat)
<1>1. IsWellFoundedOn(R, Nat)
  BY NatLessThanWellFounded
<1>2. \A x \in Nat, y \in Nat : x < y => <<x, y>> \in R
  BY DEF OpToRel
<1> HIDE DEF R
<1>3. PICK m \in S : \A y \in S : <<y, m>> \notin R
  BY <1>1, WFMin
<1>4. \A y \in S : ~(y < m)
  BY <1>2, <1>3
<1>5. \A y \in S : m <= y
  BY <1>4
<1> QED BY <1>5 DEF Min

\* The URBs of a transfer are finitely many.
LEMMA FiniteUrbs ==
  ASSUME NEW n \in Nat, NEW S \in SUBSET (1 .. n)
  PROVE  IsFiniteSet(S) /\ Cardinality(S) \in Nat /\ \A j \in S : j \in Nat \ {0} /\ j <= n
<1>1. IsFiniteSet(1 .. n)
  BY FS_Interval
<1>2. IsFiniteSet(S)
  BY <1>1, FS_Subset
<1>3. Cardinality(S) \in Nat
  BY <1>2, FS_CardinalityType
<1> QED BY <1>2, <1>3

\* The k-th element of a set of URBs, counted from the first or from the last on.
LEMMA KthFirst ==
  ASSUME NEW n \in Nat, NEW S \in SUBSET (1 .. n), NEW k \in 1 .. Cardinality(S)
  PROVE  \E i \in S : Cardinality({j \in S : j < i}) = k - 1
<1> DEFINE below(i) == {j \in S : j < i}
           enough == {i \in Nat : Cardinality(below(i)) >= k}
<1>1. IsFiniteSet(S) /\ Cardinality(S) \in Nat /\ \A j \in S : j \in Nat \ {0} /\ j <= n
  BY FiniteUrbs
<1>2. \A i : IsFiniteSet(below(i)) /\ Cardinality(below(i)) \in Nat
  BY <1>1, FS_Subset, FS_CardinalityType
<1>3. n + 1 \in enough
  <2>1. \A j \in S : j < n + 1
    BY <1>1
  <2>2. below(n + 1) = S
    BY <2>1
  <2> QED BY <1>1, <2>2
<1> DEFINE first == Min(enough)
<1>4. first \in enough /\ \A i \in enough : first <= i
  BY <1>3, MinIn
<1> HIDE DEF first
<1>5. first # 0
  <2>1. \A j \in S : ~(j < 0)
    BY <1>1
  <2>2. below(0) = {}
    BY <2>1
  <2>3. Cardinality(below(0)) = 0
    BY <2>2, FS_EmptySet
  <2> QED BY <1>4, <2>3
<1>6. first - 1 \in Nat /\ first - 1 \notin enough
  BY <1>4, <1>5
<1>7. Cardinality(below(first - 1)) < k
  BY <1>2, <1>6
<1>8. \A j \in S : j < first <=> (j < first - 1 \/ j = first - 1)
  BY <1>1, <1>4
<1>9. ~(first - 1 < first - 1)
  BY <1>6
<1>10. CASE first - 1 \in S
  <2>1. below(first) = below(first - 1) \cup {first - 1}
    BY <1>10, <1>8
  <2>2. Cardinality(below(first)) = Cardinality(below(first - 1)) + 1
    BY <1>2, <1>9, <2>1, FS_AddElement
  <2>3. Cardinality(below(first - 1)) = k - 1
    BY <1>2, <1>4, <1>7, <2>2
  <2> QED BY <1>10, <2>3
<1>11. CASE first - 1 \notin S
  <2>1. below(first) = below(first - 1)
    BY <1>11, <1>8
  <2> QED BY <1>2, <1>4, <1>7, <2>1
<1> QED BY <1>10, <1>11

\* FromLast lists the elements of a set, each once.
LEMMA KthLast ==
  ASSUME NEW n \in Nat, NEW S \in SUBSET (1 .. n), NEW k \in 1 .. Cardinality(S)
  PROVE  \E i \in S : Cardinality({j \in S : j > i}) = k - 1
<1> DEFINE above(i) == {j \in S : j > i}
           few == {i \in Nat : Cardinality(above(i)) < k}
<1>1. IsFiniteSet(S) /\ Cardinality(S) \in Nat /\ \A j \in S : j \in Nat \ {0} /\ j <= n
  BY FiniteUrbs
<1>2. \A i : IsFiniteSet(above(i)) /\ Cardinality(above(i)) \in Nat
  BY <1>1, FS_Subset, FS_CardinalityType
<1>3. n \in few
  <2>1. \A j \in S : ~(j > n)
    BY <1>1
  <2>2. above(n) = {}
    BY <2>1
  <2>3. Cardinality(above(n)) = 0
    BY <2>2, FS_EmptySet
  <2> QED BY <1>1, <2>3
<1> DEFINE first == Min(few)
<1>4. first \in few /\ \A i \in few : first <= i
  BY <1>3, MinIn
<1> HIDE DEF first
<1>5. first # 0
  <2>1. \A j \in S : j > 0
    BY <1>1
  <2>2. above(0) = S
    BY <2>1
  <2> QED BY <1>1, <1>4, <2>2
<1>6. first - 1 \in Nat /\ first - 1 \notin few
  BY <1>4, <1>5
<1>7. Cardinality(above(first - 1)) >= k
  BY <1>2, <1>6
<1>8. \A j \in S : j > first - 1 <=> (j > first \/ j = first)
  BY <1>1, <1>4
<1>9. ~(first > first)
  BY <1>4
<1>10. CASE first \in S
  <2>1. above(first - 1) = above(first) \cup {first}
    BY <1>10, <1>8
  <2>2. Cardinality(above(first - 1)) = Cardinality(above(first)) + 1
    BY <1>2, <1>9, <2>1, FS_AddElement
  <2>3. Cardinality(above(first)) = k - 1
    BY <1>2, <1>4, <1>7, <2>2
  <2> QED BY <1>10, <2>3
<1>11. CASE first \notin S
  <2>1. above(first - 1) = above(first)
    BY <1>11, <1>8
  <2>2. Cardinality(above(first)) < k
    BY <1>4
  <2>3. Cardinality(above(first)) >= k
    BY <1>7, <2>1
  <2>4. Cardinality(above(first)) \in Nat
    BY <1>2
  <2> QED BY <2>2, <2>3, <2>4
<1> QED BY <1>10, <1>11

\* Both list the elements of the set, and as many as it has.
LEMMA Listing ==
  ASSUME NEW n \in Nat, NEW S \in SUBSET (1 .. n)
  PROVE  /\ FromFirst(S) \in Seq(S) /\ Len(FromFirst(S)) = Cardinality(S)
         /\ FromLast(S) \in Seq(S) /\ Len(FromLast(S)) = Cardinality(S)
         /\ Cardinality(S) \in Nat
<1>1. Cardinality(S) \in Nat
  BY FiniteUrbs
<1>2. FromFirst(S) \in [1 .. Cardinality(S) -> S]
  BY KthFirst DEF FromFirst
<1>3. FromLast(S) \in [1 .. Cardinality(S) -> S]
  BY KthLast DEF FromLast
<1> QED BY <1>1, <1>2, <1>3

\* The record of a transfer of n URBs, field by field.
UrbType(u, n) ==
  /\ DOMAIN u = {"state", "got", "queue", "sent", "buffer", "transferred", "num_retired",
                 "reap_action", "reap_status"}
  /\ u.state \in [1 .. n -> UrbStates] /\ u.got \in [1 .. n -> 0 .. 1] /\ u.queue \in Seq(1 .. n)
  /\ u.sent \in Nat /\ u.buffer \in [1 .. n -> Nat] /\ u.transferred \in Nat /\ u.num_retired \in Nat
  /\ u.reap_action \in Actions /\ u.reap_status \in Statuses \ {"CANCELLED", "TIMED_OUT"}

\* Every URB counted as retired is one that neither the kernel nor the queue
\* has any more, and gave one unit at most.
Counted(u) ==
  /\ u.num_retired + Len(u.queue) + Cardinality(Pending(u)) <= Number(u)
  /\ u.transferred <= u.num_retired

Sound(u, n) == UrbType(u, n) /\ Counted(u)

Drained(u) == u.queue = <<>> /\ Pending(u) = {}

SameVerdict(u, v) ==
  v.num_retired = u.num_retired /\ v.reap_action = u.reap_action /\ v.reap_status = u.reap_status

\* A sequence over a set is one over a larger set.
LEMMA SeqMonotone ==
  ASSUME NEW S, NEW T, S \subseteq T, NEW q \in Seq(S)
  PROVE  q \in Seq(T)
OBVIOUS

\* New states and a new queue of their URBs leave the rest of the type.
LEMMA UpdateType ==
  ASSUME NEW S, NEW T, NEW f \in [S -> T], NEW x, NEW y \in T
  PROVE  [f EXCEPT ![x] = y] \in [S -> T]
OBVIOUS

\* What the kernel has is a finite set of the transfer's URBs.
LEMMA PendingFinite ==
  ASSUME NEW n \in Nat, NEW u, UrbType(u, n)
  PROVE  /\ Number(u) = n /\ DOMAIN u.state = 1 .. n
         /\ Pending(u) \in SUBSET (1 .. n) /\ IsFiniteSet(Pending(u)) /\ Cardinality(Pending(u)) \in Nat
         /\ Len(u.queue) \in Nat
<1>1. Number(u) = n /\ DOMAIN u.state = 1 .. n /\ Len(u.queue) \in Nat
  BY DEF Number, UrbType
<1>2. Pending(u) \in SUBSET (1 .. n)
  BY <1>1 DEF Pending
<1> QED BY <1>1, <1>2, FiniteUrbs

\* Nothing is left once all are retired.
LEMMA AllRetiredDrained ==
  ASSUME NEW n \in Nat, NEW u, Sound(u, n), AllRetired(u)
  PROVE  Drained(u)
<1>1. UrbType(u, n)
  BY DEF Sound
<1>2. Len(u.queue) = 0 /\ Cardinality(Pending(u)) = 0
  <2>1. u.num_retired \in Nat
    BY <1>1 DEF UrbType
  <2>2. u.num_retired = n /\ u.num_retired + Len(u.queue) + Cardinality(Pending(u)) <= n
    BY <1>1, PendingFinite DEF Sound, Counted, AllRetired
  <2> QED BY <1>1, <2>1, <2>2, PendingFinite
<1>3. u.queue = <<>>
  BY <1>1, <1>2 DEF UrbType
<1>4. Pending(u) = {}
  BY <1>1, <1>2, PendingFinite, FS_EmptySet
<1> QED BY <1>3, <1>4 DEF Drained

\* Before submission there is nothing to reap.
LEMMA NewUrbsSound ==
  ASSUME NEW n \in Nat
  PROVE  /\ Sound(NewUrbs(n), n) /\ Drained(NewUrbs(n))
         /\ NewUrbs(n).num_retired = 0 /\ NewUrbs(n).transferred = 0 /\ NewUrbs(n).reap_action = "NORMAL"
<1> DEFINE u == NewUrbs(n)
<1>1. UrbType(u, n) /\ u.num_retired = 0 /\ u.transferred = 0 /\ u.reap_action = "NORMAL" /\ u.queue = <<>>
  BY DEF NewUrbs, UrbType, UrbStates, Actions, Statuses
<1>2. Pending(u) = {}
  BY DEF NewUrbs, Pending
<1>3. Cardinality(Pending(u)) = 0 /\ Len(u.queue) = 0
  BY <1>1, <1>2, FS_EmptySet
<1> HIDE DEF u
<1>4. Number(u) = n
  BY <1>1, PendingFinite
<1>5. Sound(u, n) /\ Drained(u)
  BY <1>1, <1>2, <1>3, <1>4 DEF Sound, Counted, Drained
<1> QED BY <1>1, <1>5 DEF u

\* An URB that ends passes from the kernel to the queue.
LEMMA EndedSound ==
  ASSUME NEW n \in Nat, NEW u, Sound(u, n), NEW i \in Pending(u),
         NEW s \in UrbStates \ {"pending"}, NEW k \in 0 .. 1
  PROVE  Sound(Ended(u, i, s, k), n) /\ SameVerdict(u, Ended(u, i, s, k))
<1> DEFINE v == Ended(u, i, s, k)
<1>1. UrbType(u, n)
  BY DEF Sound
<1>2. i \in 1 .. n
  BY <1>1, PendingFinite
<1>3. DOMAIN v = DOMAIN u
  BY DEF Ended
<1>4. /\ v.state = [u.state EXCEPT ![i] = s] /\ v.got = [u.got EXCEPT ![i] = k]
      /\ v.queue = Append(u.queue, i) /\ v.sent = u.sent + k
      /\ v.buffer = [u.buffer EXCEPT ![i] = IF k = 0 THEN @ ELSE u.sent + 1]
      /\ SameVerdict(u, v) /\ v.transferred = u.transferred
  BY <1>1 DEF Ended, UrbType, SameVerdict
<1> HIDE DEF v
<1>5. UrbType(v, n) /\ SameVerdict(u, v) /\ v.transferred = u.transferred
  BY <1>1, <1>2, <1>3, <1>4 DEF UrbType, SameVerdict
<1>6. Pending(v) = Pending(u) \ {i}
  BY <1>1, <1>4 DEF Pending, UrbType
<1>7. Cardinality(Pending(v)) = Cardinality(Pending(u)) - 1
  BY <1>1, <1>6, PendingFinite, FS_RemoveElement
<1>8. Len(v.queue) = Len(u.queue) + 1
  BY <1>1, <1>2, <1>4 DEF UrbType
<1>9. v.num_retired + Len(v.queue) + Cardinality(Pending(v)) = u.num_retired + Len(u.queue) + Cardinality(Pending(u))
  <2>1. v.num_retired = u.num_retired /\ u.num_retired \in Nat
    BY <1>1, <1>5 DEF SameVerdict, UrbType
  <2>2. Len(u.queue) \in Nat /\ Cardinality(Pending(u)) \in Nat
    BY <1>1, PendingFinite
  <2>3. \A a, b, c \in Nat : a + (b + 1) + (c - 1) = a + b + c
    OBVIOUS
  <2>4. v.num_retired + Len(v.queue) + Cardinality(Pending(v))
          = u.num_retired + (Len(u.queue) + 1) + (Cardinality(Pending(u)) - 1)
    BY <1>7, <1>8, <2>1
  <2> QED BY <2>1, <2>2, <2>3, <2>4
<1>10. Counted(v)
  <2>1. Number(v) = Number(u)
    BY <1>1, <1>5, PendingFinite
  <2> QED BY <1>5, <1>9, <2>1 DEF Counted, Sound, SameVerdict
<1> QED BY <1>5, <1>10 DEF Sound, v

\* What the device answers is an URB that ended; the verdict is libusb's.
LEMMA KernelSound ==
  ASSUME NEW n \in Nat, NEW u, Sound(u, n), NEW v \in Completions(u) \cup Errors(u)
  PROVE  Sound(v, n) /\ SameVerdict(u, v) /\ Pending(u) # {}
<1>1. Pending(u) # {} /\ \E s \in UrbStates \ {"pending"}, k \in 0 .. 1 : v = Ended(u, Min(Pending(u)), s, k)
  BY DEF Completions, Errors, Failures, UrbStates
<1>2. Min(Pending(u)) \in Pending(u)
  <2>1. Pending(u) \subseteq Nat
    BY PendingFinite DEF Sound
  <2> QED BY <1>1, <2>1, MinIn
<1> QED BY <1>1, <1>2, EndedSound

\* Discarded URBs pass from the kernel to the queue.
LEMMA DiscardSound ==
  ASSUME NEW n \in Nat, NEW u, Sound(u, n), NEW S, NEW v \in discard_urbs(u, S)
  PROVE  /\ Sound(v, n) /\ SameVerdict(u, v) /\ v.transferred = u.transferred
         /\ Drained(u) => Drained(v)
<1> DEFINE killed == S \cap Pending(u)
           dead == [u EXCEPT !.state = [i \in DOMAIN @ |-> IF i \in killed THEN "ENOENT" ELSE @[i]],
                             !.queue = @ \o FromLast(killed)]
<1>1. UrbType(u, n) /\ Pending(u) \in SUBSET (1 .. n) /\ IsFiniteSet(Pending(u))
  BY PendingFinite DEF Sound
<1>2. killed \in SUBSET (1 .. n)
  BY <1>1
<1>3. FromLast(killed) \in Seq(killed) /\ Len(FromLast(killed)) = Cardinality(killed) /\ Cardinality(killed) \in Nat
  BY <1>2, Listing
<1> HIDE DEF killed
<1>4. FromLast(killed) \in Seq(1 .. n)
  BY <1>2, <1>3, SeqMonotone
<1>5. DOMAIN dead = DOMAIN u
  OBVIOUS
<1>6. /\ dead.state = [i \in 1 .. n |-> IF i \in killed THEN "ENOENT" ELSE u.state[i]]
      /\ dead.queue = u.queue \o FromLast(killed)
      /\ dead.got = u.got /\ dead.sent = u.sent /\ dead.buffer = u.buffer
      /\ SameVerdict(u, dead) /\ dead.transferred = u.transferred
  BY <1>1 DEF UrbType, SameVerdict
<1> HIDE DEF dead
<1>7. UrbType(dead, n)
  BY <1>1, <1>4, <1>5, <1>6 DEF UrbType, SameVerdict, UrbStates
<1>8. /\ v.state = dead.state /\ v.queue = dead.queue /\ v.num_retired = dead.num_retired
      /\ v.transferred = dead.transferred /\ SameVerdict(u, v)
      /\ UrbType(v, n)
  <2> DEFINE first == Min(Pending(u))
             late == [dead EXCEPT !.got[first] = 1, !.sent = @ + 1, !.buffer[first] = u.sent + 1]
  <2>1. v = dead \/ v = late
    BY DEF discard_urbs, killed, dead
  <2>2. u.sent \in Nat
    BY <1>1 DEF UrbType
  <2> HIDE DEF first
  <2>3. DOMAIN late = DOMAIN dead
    OBVIOUS
  <2>4. /\ SameVerdict(dead, late) /\ late.state = dead.state
        /\ late.queue = dead.queue /\ late.transferred = dead.transferred
        /\ late.got = [dead.got EXCEPT ![first] = 1] /\ late.sent = dead.sent + 1
        /\ late.buffer = [dead.buffer EXCEPT ![first] = u.sent + 1]
    BY <1>7 DEF UrbType, SameVerdict
  <2> HIDE DEF late
  <2>5. UrbType(late, n)
    <3>1. late.got \in [1 .. n -> 0 .. 1]
      <4>1. dead.got \in [1 .. n -> 0 .. 1] /\ 1 \in 0 .. 1
        BY <1>7 DEF UrbType
      <4> QED BY <2>4, <4>1, UpdateType
    <3>2. late.sent \in Nat
      BY <1>7, <2>4 DEF UrbType
    <3>3. late.buffer \in [1 .. n -> Nat]
      <4>1. dead.buffer \in [1 .. n -> Nat] /\ u.sent + 1 \in Nat
        BY <1>7, <2>2 DEF UrbType
      <4> QED BY <2>4, <4>1, UpdateType
    <3> QED BY <1>7, <2>3, <2>4, <3>1, <3>2, <3>3 DEF UrbType, SameVerdict
  <2> QED BY <1>6, <1>7, <2>1, <2>4, <2>5 DEF SameVerdict
<1>9. Pending(v) = Pending(u) \ killed
  BY <1>1, <1>6, <1>8 DEF Pending, UrbType
<1>10. Cardinality(Pending(v)) = Cardinality(Pending(u)) - Cardinality(killed)
  <2>1. Pending(u) \cap killed = killed
    BY DEF killed
  <2> QED BY <1>1, <1>9, <2>1, FS_Difference
<1>11. Len(v.queue) = Len(u.queue) + Cardinality(killed)
  <2>1. v.queue = u.queue \o FromLast(killed) /\ u.queue \in Seq(1 .. n)
    BY <1>1, <1>6, <1>8 DEF UrbType
  <2>2. Len(u.queue \o FromLast(killed)) = Len(u.queue) + Len(FromLast(killed))
    BY <1>4, <2>1, ConcatProperties
  <2> QED BY <1>3, <2>1, <2>2
<1>12. v.num_retired + Len(v.queue) + Cardinality(Pending(v)) = u.num_retired + Len(u.queue) + Cardinality(Pending(u))
  <2>1. v.num_retired = u.num_retired /\ u.num_retired \in Nat
    BY <1>1, <1>8 DEF SameVerdict, UrbType
  <2> QED BY <1>1, <1>3, <1>10, <1>11, <2>1, PendingFinite
<1>13. Number(v) = Number(u)
  BY <1>1, <1>8, PendingFinite
<1>14. ASSUME Drained(u)
       PROVE  Drained(v)
  <2>1. Pending(v) = {} /\ killed = {} /\ Len(u.queue) = 0
    BY <1>9, <1>14 DEF Drained, killed
  <2>2. Cardinality(killed) = 0
    BY <2>1, FS_EmptySet
  <2>3. v.queue = <<>>
    BY <1>8, <1>11, <2>1, <2>2 DEF UrbType
  <2> QED BY <2>1, <2>3 DEF Drained
<1> QED BY <1>6, <1>8, <1>12, <1>13, <1>14 DEF Counted, Sound, SameVerdict

\* The device is gone: what was pending is in the queue.
LEMMA ShutDownSound ==
  ASSUME NEW n \in Nat, NEW u, Sound(u, n)
  PROVE  /\ Sound(ShutDown(u), n) /\ SameVerdict(u, ShutDown(u)) /\ ShutDown(u).transferred = u.transferred
         /\ Drained(u) => Drained(ShutDown(u))
<1> DEFINE v == ShutDown(u)
           F == FromFirst(Pending(u))
<1>1. UrbType(u, n) /\ Pending(u) \in SUBSET (1 .. n) /\ IsFiniteSet(Pending(u))
      /\ Cardinality(Pending(u)) \in Nat /\ Len(u.queue) \in Nat
  BY PendingFinite DEF Sound
<1>2. F \in Seq(1 .. n) /\ Len(F) = Cardinality(Pending(u))
  BY <1>1, Listing, SeqMonotone
<1>3. DOMAIN v = DOMAIN u
  BY DEF ShutDown
<1>4. /\ v.state = [i \in 1 .. n |-> IF u.state[i] = "pending" THEN "ESHUTDOWN" ELSE u.state[i]]
      /\ v.queue = u.queue \o F
      /\ v.got = u.got /\ v.sent = u.sent /\ v.buffer = u.buffer
      /\ SameVerdict(u, v) /\ v.transferred = u.transferred
  BY <1>1 DEF ShutDown, UrbType, SameVerdict
<1> HIDE DEF v, F
<1>5. UrbType(v, n)
  BY <1>1, <1>2, <1>3, <1>4 DEF UrbType, SameVerdict, UrbStates
<1>6. Pending(v) = {}
  BY <1>4, <1>5 DEF Pending, UrbType
<1>7. Cardinality(Pending(v)) = 0
  BY <1>6, FS_EmptySet
<1>8. Len(v.queue) = Len(u.queue) + Cardinality(Pending(u))
  <2>1. Len(u.queue \o F) = Len(u.queue) + Len(F)
    BY <1>1, <1>2, ConcatProperties DEF UrbType
  <2> QED BY <1>2, <1>4, <2>1
<1>9. Counted(v)
  <2>1. Number(v) = Number(u)
    BY <1>1, <1>5, PendingFinite
  <2>2. v.num_retired = u.num_retired /\ u.num_retired \in Nat
    BY <1>1, <1>4 DEF SameVerdict, UrbType
  <2>3. \A a, b, c \in Nat : a + (b + c) + 0 = a + b + c
    OBVIOUS
  <2>4. v.num_retired + Len(v.queue) + Cardinality(Pending(v)) = u.num_retired + Len(u.queue) + Cardinality(Pending(u))
    BY <1>1, <1>7, <1>8, <2>2, <2>3
  <2> QED BY <1>4, <2>1, <2>2, <2>4 DEF Counted, Sound
<1>10. ASSUME Drained(u) PROVE Drained(v)
  <2>1. Len(v.queue) = 0
    BY <1>8, <1>10, FS_EmptySet DEF Drained
  <2> QED BY <1>5, <1>6, <2>1 DEF Drained, UrbType
<1> QED BY <1>4, <1>5, <1>9, <1>10 DEF Sound, v

\* The kernel forgets the URBs.
LEMMA ForgottenSound ==
  ASSUME NEW n \in Nat, NEW u, Sound(u, n)
  PROVE  /\ Sound(Forgotten(u), n) /\ SameVerdict(u, Forgotten(u)) /\ Drained(Forgotten(u))
         /\ Forgotten(u).transferred = u.transferred
<1> DEFINE v == Forgotten(u)
<1>1. UrbType(u, n) /\ Cardinality(Pending(u)) \in Nat /\ Len(u.queue) \in Nat
  BY PendingFinite DEF Sound
<1>2. DOMAIN v = DOMAIN u
  BY DEF Forgotten
<1>3. /\ v.state = [i \in 1 .. n |-> IF u.state[i] = "new" THEN "new" ELSE "reaped"]
      /\ v.queue = <<>>
      /\ v.got = u.got /\ v.sent = u.sent /\ v.buffer = u.buffer
      /\ SameVerdict(u, v) /\ v.transferred = u.transferred
  BY <1>1 DEF Forgotten, UrbType, SameVerdict
<1> HIDE DEF v
<1>4. UrbType(v, n)
  BY <1>1, <1>2, <1>3 DEF UrbType, SameVerdict, UrbStates
<1>5. Pending(v) = {}
  BY <1>3, <1>4 DEF Pending, UrbType
<1>6. Cardinality(Pending(v)) = 0 /\ Len(v.queue) = 0
  BY <1>3, <1>5, FS_EmptySet
<1>7. Counted(v)
  <2>1. Number(v) = Number(u) /\ Number(u) = n
    BY <1>1, <1>4, PendingFinite
  <2>2. v.num_retired = u.num_retired /\ u.num_retired \in Nat
    BY <1>1, <1>3 DEF SameVerdict, UrbType
  <2>3. \A a, b, c, d \in Nat : a + b + c <= d => a + 0 + 0 <= d
    OBVIOUS
  <2> QED BY <1>1, <1>3, <1>6, <2>1, <2>2, <2>3 DEF Counted, Sound
<1> QED BY <1>3, <1>4, <1>5, <1>7 DEF Sound, Drained, v

\* Before its submission nothing of the transfer is retired or received.
Fresh(u) == Drained(u) /\ u.num_retired = 0 /\ u.transferred = 0 /\ u.reap_action = "NORMAL"

\* The kernel accepts the URBs before the i-th.
LEMMA AcceptedSound ==
  ASSUME NEW n \in Nat, NEW u, Sound(u, n), Fresh(u), NEW i \in 1 .. n + 1
  PROVE  /\ Sound(Submitted(u, i), n) /\ Submitted(u, i).reap_action = "NORMAL"
         /\ Submitted(u, i).queue = <<>> /\ Submitted(u, i).transferred = 0
         /\ Submitted(u, i).got = u.got /\ Submitted(u, i).sent = u.sent
         /\ Submitted(u, i).reap_status = u.reap_status /\ Pending(Submitted(u, i)) = 1 .. (i - 1)
<1> DEFINE w == Submitted(u, i)
<1>1. UrbType(u, n) /\ Number(u) = n
  BY PendingFinite DEF Sound
<1>2. DOMAIN w = DOMAIN u
  BY DEF Submitted
<1>3. /\ w.state = [k \in 1 .. n |-> IF k < i THEN "pending" ELSE "new"]
      /\ w.num_retired = n + 1 - i
      /\ w.queue = u.queue /\ w.got = u.got /\ w.sent = u.sent /\ w.buffer = u.buffer
      /\ w.transferred = u.transferred /\ w.reap_action = u.reap_action /\ w.reap_status = u.reap_status
  BY <1>1 DEF Submitted, UrbType
<1> HIDE DEF w
<1>4. n + 1 - i \in Nat /\ i \in Nat /\ i - 1 \in Nat
  OBVIOUS
<1>5. UrbType(w, n)
  BY <1>1, <1>2, <1>3, <1>4 DEF UrbType, UrbStates
<1>6. Pending(w) = {k \in 1 .. n : k < i}
  BY <1>3, <1>5 DEF Pending, UrbType
<1>7. \A k : (k \in 1 .. n /\ k < i) <=> k \in 1 .. (i - 1)
  OBVIOUS
<1>8. Pending(w) = 1 .. (i - 1)
  BY <1>6, <1>7
<1>9. Cardinality(Pending(w)) = i - 1
  <2>1. Cardinality(1 .. (i - 1)) = IF 1 > i - 1 THEN 0 ELSE (i - 1) - 1 + 1
    BY <1>4, FS_Interval
  <2>2. (IF 1 > i - 1 THEN 0 ELSE (i - 1) - 1 + 1) = i - 1
    OBVIOUS
  <2> QED BY <1>8, <2>1, <2>2
<1>10. w.queue = <<>> /\ Len(w.queue) = 0 /\ w.transferred = 0 /\ w.reap_action = "NORMAL"
  BY <1>3 DEF Fresh, Drained
<1>11. Number(w) = n
  BY <1>5, PendingFinite
<1>12. (n + 1 - i) + 0 + (i - 1) <= n
  OBVIOUS
<1>13. Counted(w)
  BY <1>3, <1>4, <1>9, <1>10, <1>11, <1>12 DEF Counted
<1> QED BY <1>3, <1>5, <1>8, <1>10, <1>13 DEF Sound, w

\* submit_bulk_transfer, whichever URB the kernel refuses.
LEMMA SubmittedSound ==
  ASSUME NEW n \in Nat, NEW u, Sound(u, n), Fresh(u), NEW v \in submit_bulk_transfer(u)
  PROVE  Sound(v, n) /\ v.reap_action \in {"NORMAL", "SUBMIT_FAILED"}
<1>1. UrbType(u, n) /\ Number(u) = n
  BY PendingFinite DEF Sound
<1>2. \A i \in 1 .. n + 1 : Sound(Submitted(u, i), n) /\ Submitted(u, i).reap_action = "NORMAL"
  BY AcceptedSound
<1>3. CASE v = Submitted(u, Number(u) + 1)
  BY <1>1, <1>2, <1>3
<1>4. ASSUME NEW i \in 2 .. Number(u),
             v \in discard_urbs([Submitted(u, i) EXCEPT !.reap_action = "SUBMIT_FAILED"], 1 .. (i - 1))
      PROVE  Sound(v, n) /\ v.reap_action = "SUBMIT_FAILED"
  <2> DEFINE s == Submitted(u, i)
             w == [s EXCEPT !.reap_action = "SUBMIT_FAILED"]
  <2>1. Sound(s, n)
    BY <1>1, <1>2
  <2> HIDE DEF s
  <2>2. UrbType(w, n) /\ w.reap_action = "SUBMIT_FAILED"
    BY <2>1 DEF Sound, UrbType, Actions
  <2>3. Counted(w)
    <3>1. w.num_retired = s.num_retired /\ w.queue = s.queue /\ w.state = s.state /\ w.transferred = s.transferred
      BY <2>1 DEF Sound, UrbType
    <3> QED BY <2>1, <3>1 DEF Sound, Counted, Pending, Number
  <2> HIDE DEF w
  <2>4. v \in discard_urbs(w, 1 .. (i - 1))
    BY <1>4 DEF w, s
  <2>5. Sound(v, n) /\ SameVerdict(w, v)
    BY <2>2, <2>3, <2>4, DiscardSound DEF Sound
  <2> QED BY <2>2, <2>5 DEF SameVerdict
<1> QED BY <1>3, <1>4 DEF submit_bulk_transfer

\* Only a cancellation that found the last URB makes a transfer a cancelled one.
LEMMA CancelSound ==
  ASSUME NEW n \in Nat, NEW u, Sound(u, n), NEW v \in op_cancel_transfer(u)
  PROVE  /\ Sound(v, n) /\ (v.reap_action = "CANCELLED" => u.reap_action = "CANCELLED" \/ CancelFound(u))
         /\ Drained(u) => Drained(v) /\ SameVerdict(u, v) /\ v.transferred = u.transferred
<1>1. PICK w \in discard_urbs(u, DOMAIN u.state) :
        v = IF CancelFound(u) /\ w.reap_action # "ERROR" THEN [w EXCEPT !.reap_action = "CANCELLED"] ELSE w
  BY DEF op_cancel_transfer
<1>2. /\ Sound(w, n) /\ SameVerdict(u, w) /\ w.transferred = u.transferred
      /\ Drained(u) => Drained(w)
  BY DiscardSound
<1>3. CASE v = w /\ ~(CancelFound(u) /\ w.reap_action # "ERROR")
  BY <1>2, <1>3 DEF SameVerdict
<1>4. CASE CancelFound(u) /\ v = [w EXCEPT !.reap_action = "CANCELLED"]
  <2>1. UrbType(v, n)
    BY <1>2, <1>4 DEF Sound, UrbType, Actions
  <2>2. v.num_retired = w.num_retired /\ v.queue = w.queue /\ v.state = w.state /\ v.transferred = w.transferred
    BY <1>2, <1>4 DEF Sound, UrbType
  <2>3. Counted(v)
    BY <1>2, <2>2 DEF Sound, Counted, Pending, Number
  <2>4. ~Drained(u)
    BY <1>4 DEF Drained, CancelFound
  <2> QED BY <1>4, <2>1, <2>3, <2>4 DEF Sound
<1> QED BY <1>1, <1>3, <1>4

\* An URB leaves the queue and counts as retired.
LEMMA ReapedSound ==
  ASSUME NEW n \in Nat, NEW u, Sound(u, n), u.queue # <<>>
  PROVE  LET i == Head(u.queue)
             v == Reaped(u, i)
         IN /\ i \in 1 .. n /\ UrbType(v, n) /\ v.got = u.got
            /\ v.num_retired + Len(v.queue) + Cardinality(Pending(v)) <= n
            /\ v.transferred + u.got[i] <= v.num_retired /\ v.transferred <= v.num_retired
            /\ v.reap_action = u.reap_action /\ v.reap_status = u.reap_status
<1> DEFINE i == Head(u.queue)
           v == Reaped(u, i)
<1>1. UrbType(u, n) /\ u.queue \in Seq(1 .. n) /\ u.num_retired \in Nat /\ u.transferred \in Nat
  BY DEF Sound, UrbType
<1>2. i \in 1 .. n /\ Tail(u.queue) \in Seq(1 .. n) /\ Len(Tail(u.queue)) = Len(u.queue) - 1
  BY <1>1, HeadTailProperties
<1>3. DOMAIN v = DOMAIN u
  BY DEF Reaped
<1> HIDE DEF i
<1>4. /\ v.state = [u.state EXCEPT ![i] = "reaped"] /\ v.queue = Tail(u.queue)
      /\ v.num_retired = u.num_retired + 1
      /\ v.got = u.got /\ v.sent = u.sent /\ v.buffer = u.buffer
      /\ v.transferred = u.transferred /\ v.reap_action = u.reap_action /\ v.reap_status = u.reap_status
  BY <1>1 DEF Reaped, UrbType
<1> HIDE DEF v
<1>5. UrbType(v, n)
  <2>1. v.state \in [1 .. n -> UrbStates]
    BY <1>1, <1>4 DEF UrbType, UrbStates
  <2>2. v.num_retired \in Nat
    BY <1>1, <1>4
  <2> QED BY <1>1, <1>2, <1>3, <1>4, <2>1, <2>2 DEF UrbType
<1>6. Pending(v) \subseteq Pending(u)
  BY <1>1, <1>4, <1>5 DEF Pending, UrbType
<1>7. Cardinality(Pending(v)) <= Cardinality(Pending(u))
  BY <1>1, <1>6, PendingFinite, FS_Subset
<1>8. v.num_retired + Len(v.queue) + Cardinality(Pending(v)) <= n
  <2>1. u.num_retired + Len(u.queue) + Cardinality(Pending(u)) <= n
    BY <1>1, PendingFinite DEF Sound, Counted
  <2>2. Len(u.queue) \in Nat /\ Cardinality(Pending(u)) \in Nat /\ Cardinality(Pending(v)) \in Nat
    BY <1>1, <1>5, PendingFinite
  <2>3. \A a, b, c, d \in Nat : c <= d /\ a + b + d <= n => (a + 1) + (b - 1) + c <= n
    OBVIOUS
  <2> QED BY <1>1, <1>2, <1>4, <1>7, <2>1, <2>2, <2>3
<1>9. u.got[i] \in 0 .. 1
  BY <1>1, <1>2 DEF UrbType
<1>10. v.transferred + u.got[i] <= v.num_retired /\ v.transferred <= v.num_retired
  BY <1>1, <1>4, <1>9 DEF Sound, Counted
<1> QED BY <1>2, <1>4, <1>5, <1>8, <1>10 DEF i, v

\* What the status makes of the transfer leaves its URBs alone.
LEMMA JudgedSound ==
  ASSUME NEW n \in Nat, NEW u, Sound(u, n), NEW i, NEW status
  PROVE  /\ Sound(Judged(u, i, status), n)
         /\ Judged(u, i, status).reap_action \in {u.reap_action, "ERROR", "COMPLETED_EARLY"}
<1> DEFINE v == Judged(u, i, status)
<1>1. UrbType(u, n)
  BY DEF Sound
<1>2. \/ \E s \in Statuses \ {"CANCELLED", "TIMED_OUT"} : v = [u EXCEPT !.reap_status = s]
      \/ \E s \in Statuses \ {"CANCELLED", "TIMED_OUT"} : v = [u EXCEPT !.reap_action = "ERROR", !.reap_status = s]
      \/ v = [u EXCEPT !.reap_action = "COMPLETED_EARLY"]
      \/ v = u
  <2>1. CASE status = "ESHUTDOWN"
    <3>1. v = [u EXCEPT !.reap_status = "NO_DEVICE"]
      BY <2>1 DEF Judged
    <3>2. "NO_DEVICE" \in Statuses \ {"CANCELLED", "TIMED_OUT"}
      BY DEF Statuses
    <3> QED BY <3>1, <3>2
  <2>2. CASE status = "EPIPE"
    <3>1. v = [u EXCEPT !.reap_status = IF @ = "COMPLETED" THEN "STALL" ELSE @]
      BY <2>2 DEF Judged
    <3>2. (IF u.reap_status = "COMPLETED" THEN "STALL" ELSE u.reap_status) \in Statuses \ {"CANCELLED", "TIMED_OUT"}
      BY <1>1 DEF UrbType, Statuses
    <3> QED BY <3>1, <3>2
  <2>3. CASE status = "EPROTO"
    <3>1. v = [u EXCEPT !.reap_action = "ERROR", !.reap_status = IF @ = "COMPLETED" THEN "ERROR" ELSE @]
      BY <2>3 DEF Judged
    <3>2. (IF u.reap_status = "COMPLETED" THEN "ERROR" ELSE u.reap_status) \in Statuses \ {"CANCELLED", "TIMED_OUT"}
      BY <1>1 DEF UrbType, Statuses
    <3> QED BY <3>1, <3>2
  <2>4. CASE status \notin {"ESHUTDOWN", "EPIPE", "EPROTO"}
    BY <2>4 DEF Judged
  <2> QED BY <2>1, <2>2, <2>3, <2>4
<1> HIDE DEF v
<1>3. UrbType(v, n) /\ v.reap_action \in {u.reap_action, "ERROR", "COMPLETED_EARLY"}
      /\ v.state = u.state /\ v.queue = u.queue /\ v.num_retired = u.num_retired /\ v.transferred = u.transferred
  BY <1>1, <1>2 DEF UrbType, Actions
<1>4. Counted(v)
  BY <1>3 DEF Sound, Counted, Pending, Number
<1> QED BY <1>3, <1>4 DEF Sound, v

\* A reaped URB leaves the transfer sound, and cancels nothing.
LEMMA CompletionSound ==
  ASSUME NEW n \in Nat, NEW u, Sound(u, n), u.queue # <<>>, NEW x \in handle_bulk_completion(u)
  PROVE  Sound(x, n) /\ (x.reap_action = "CANCELLED" => u.reap_action = "CANCELLED")
<1> DEFINE i == Head(u.queue)
           status == u.state[i]
           v == Reaped(u, i)
           y == [v EXCEPT !.transferred = @ + u.got[i]]
           w == Judged(y, i, status)
           last == v.num_retired = Number(u)
<1>1. /\ i \in 1 .. n /\ UrbType(v, n) /\ v.got = u.got
      /\ v.num_retired + Len(v.queue) + Cardinality(Pending(v)) <= n
      /\ v.transferred + u.got[i] <= v.num_retired /\ v.transferred <= v.num_retired
      /\ v.reap_action = u.reap_action /\ v.reap_status = u.reap_status
  BY ReapedSound
<1>2. u.got[i] \in 0 .. 1
  BY <1>1 DEF Sound, UrbType
<1>3. CASE u.reap_action # "NORMAL"
  <2> DEFINE s == Surplus(v, i)
  <2>1. PICK r \in Statuses \ {"CANCELLED", "TIMED_OUT"} : x = [s EXCEPT !.reap_status = r]
    <3>1. x = [s EXCEPT !.reap_status = IF last /\ u.reap_action # "COMPLETED_EARLY" /\ @ = "COMPLETED" THEN "ERROR" ELSE @]
      BY <1>3 DEF handle_bulk_completion
    <3>2. s.reap_status = v.reap_status
      BY <1>1 DEF Surplus, UrbType
    <3>3. (IF last /\ u.reap_action # "COMPLETED_EARLY" /\ s.reap_status = "COMPLETED" THEN "ERROR" ELSE s.reap_status)
             \in Statuses \ {"CANCELLED", "TIMED_OUT"}
      BY <1>1, <3>2 DEF UrbType, Statuses
    <3> QED BY <3>1, <3>3
  <2> HIDE DEF v, i
  <2>2. UrbType(s, n) /\ s.state = v.state /\ s.queue = v.queue /\ s.num_retired = v.num_retired
        /\ s.transferred <= s.num_retired /\ s.reap_action = v.reap_action
    <3>1. CASE v.got[i] = 0
      BY <1>1, <3>1 DEF Surplus
    <3>2. CASE v.got[i] # 0
      <4>1. DOMAIN s = DOMAIN v
        BY <3>2 DEF Surplus
      <4>2. /\ s.buffer = [v.buffer EXCEPT ![v.transferred + 1] = v.buffer[i]]
            /\ s.transferred = v.transferred + 1 /\ s.num_retired = v.num_retired
            /\ s.state = v.state /\ s.queue = v.queue /\ s.got = v.got /\ s.sent = v.sent
            /\ s.reap_action = v.reap_action /\ s.reap_status = v.reap_status
        BY <1>1, <3>2 DEF Surplus, UrbType
      <4>3. s.buffer \in [1 .. n -> Nat]
        <5>1. v.buffer \in [1 .. n -> Nat] /\ v.buffer[i] \in Nat
          BY <1>1 DEF UrbType
        <5> QED BY <4>2, <5>1, UpdateType
      <4>4. s.transferred <= s.num_retired /\ s.transferred \in Nat
        BY <1>1, <1>2, <3>2, <4>2 DEF UrbType
      <4> HIDE DEF s
      <4> QED BY <1>1, <4>1, <4>2, <4>3, <4>4 DEF UrbType
    <3> QED BY <3>1, <3>2
  <2> HIDE DEF s
  <2>3. UrbType(x, n) /\ x.state = s.state /\ x.queue = s.queue /\ x.num_retired = s.num_retired
        /\ x.transferred = s.transferred /\ x.reap_action = s.reap_action
    BY <2>1, <2>2 DEF UrbType
  <2>4. Counted(x)
    <3>1. Number(x) = n
      BY <2>3, PendingFinite
    <3>2. Pending(x) = Pending(v)
      BY <2>2, <2>3 DEF Pending
    <3> QED BY <1>1, <2>2, <2>3, <3>1, <3>2 DEF Counted
  <2> QED BY <1>1, <2>2, <2>3, <2>4 DEF Sound
<1>4. CASE u.reap_action = "NORMAL"
  <2>1. x = w \/ x \in discard_urbs(w, (i + 1) .. Number(u))
    BY <1>4 DEF handle_bulk_completion
  <2> HIDE DEF v, i
  <2>2. Sound(y, n) /\ y.reap_action = "NORMAL"
    <3>1. UrbType(y, n) /\ y.state = v.state /\ y.queue = v.queue /\ y.num_retired = v.num_retired
          /\ y.transferred = v.transferred + u.got[i] /\ y.reap_action = v.reap_action
      BY <1>1, <1>2 DEF UrbType
    <3> HIDE DEF y
    <3>2. Number(y) = n /\ Pending(y) = Pending(v)
      BY <3>1, PendingFinite DEF Pending
    <3> QED BY <1>1, <1>4, <3>1, <3>2 DEF Sound, Counted
  <2> HIDE DEF y
  <2>3. Sound(w, n) /\ w.reap_action # "CANCELLED"
    BY <2>2, JudgedSound
  <2> HIDE DEF w
  <2>4. CASE x = w
    BY <2>3, <2>4
  <2>5. CASE x \in discard_urbs(w, (i + 1) .. Number(u))
    BY <2>3, <2>5, DiscardSound DEF SameVerdict
  <2> QED BY <2>1, <2>4, <2>5
<1> QED BY <1>3, <1>4

(***************************************************************************)
(* The data of a transfer: a unit the device has transferred is in the     *)
(* buffer where it belongs, or at an URB of the queue that is to be reaped *)
(* before it is overwritten.                                               *)
(***************************************************************************)

\* The places of the queue whose URB brings a unit of data.
DataAt(u) == {k \in 1 .. Len(u.queue) : u.got[u.queue[k]] = 1}

Received(u) == u.transferred <= u.sent /\ \A v \in 1 .. u.transferred : u.buffer[v] = v

\* A unit lies at its own place or further on, until it is moved there.
Ahead(u) ==
  \A k \in DataAt(u) :
    /\ u.transferred < u.buffer[u.queue[k]] /\ u.buffer[u.queue[k]] <= u.sent
    /\ u.buffer[u.queue[k]] <= u.queue[k]

Ascending(u) ==
  \A j, k \in DataAt(u) :
    j < k => u.queue[j] < u.queue[k] /\ u.buffer[u.queue[j]] < u.buffer[u.queue[k]]

AllThere(u) == \A v \in (u.transferred + 1) .. u.sent : \E k \in DataAt(u) : u.buffer[u.queue[k]] = v

InQueue(u) == Received(u) /\ Ahead(u) /\ Ascending(u) /\ AllThere(u)

\* The kernel serves the URBs in order: what it has comes after the queue.
ToCome(u) ==
  /\ \A p \in Pending(u) : u.got[p] = 0 /\ u.sent < p
  /\ \A p \in Pending(u) : \A k \in 1 .. Len(u.queue) : u.queue[k] < p

Suffix(u) == \A p \in Pending(u) : p .. Number(u) \subseteq Pending(u)

\* A queue that grows by URBs without data holds the same data.
LEMMA NoNewData ==
  ASSUME NEW n \in Nat, NEW u, UrbType(u, n), NEW v, UrbType(v, n),
         Len(v.queue) >= Len(u.queue),
         \A k \in 1 .. Len(u.queue) : v.queue[k] = u.queue[k] /\ v.got[u.queue[k]] = u.got[u.queue[k]],
         \A k \in 1 .. Len(v.queue) : k > Len(u.queue) => v.got[v.queue[k]] = 0,
         v.buffer = u.buffer, v.transferred = u.transferred, v.sent = u.sent
  PROVE  DataAt(v) = DataAt(u) /\ (InQueue(u) => InQueue(v))
<1>1. Len(u.queue) \in Nat /\ Len(v.queue) \in Nat
  BY DEF UrbType
<1>2. \A k \in 1 .. Len(u.queue) : k \in 1 .. Len(v.queue)
  BY <1>1
<1>3. \A k \in 1 .. Len(v.queue) : k \in 1 .. Len(u.queue) \/ k > Len(u.queue)
  BY <1>1
<1>4. DataAt(v) = DataAt(u)
  BY <1>2, <1>3 DEF DataAt
<1>5. \A k \in DataAt(u) : v.queue[k] = u.queue[k]
  BY DEF DataAt
<1> QED BY <1>4, <1>5 DEF InQueue, Received, Ahead, Ascending, AllThere

\* A queue whose last new URB brings the next unit holds that, too.
LEMMA OneNewData ==
  ASSUME NEW n \in Nat, NEW u, UrbType(u, n), NEW v, UrbType(v, n), NEW p \in 1 .. n,
         Len(v.queue) > Len(u.queue), v.queue[Len(v.queue)] = p,
         \A k \in 1 .. Len(u.queue) : v.queue[k] = u.queue[k] /\ u.queue[k] < p,
         \A k \in 1 .. Len(v.queue) : k > Len(u.queue) /\ k # Len(v.queue) => v.got[v.queue[k]] = 0,
         v.got = [u.got EXCEPT ![p] = 1], v.buffer = [u.buffer EXCEPT ![p] = u.sent + 1],
         u.sent < p, v.transferred = u.transferred, v.sent = u.sent + 1, InQueue(u)
  PROVE  InQueue(v)
<1> DEFINE last == Len(v.queue)
<1>1. Len(u.queue) \in Nat /\ last \in Nat \ {0} /\ u.sent \in Nat /\ u.transferred \in Nat /\ p \in Nat
  BY DEF UrbType
<1>2. \A k \in 1 .. Len(u.queue) : k \in 1 .. last /\ k < last
  BY <1>1
<1>3. \A k \in 1 .. last : k \in 1 .. Len(u.queue) \/ k > Len(u.queue)
  BY <1>1
<1>4. \A k \in 1 .. Len(u.queue) : u.queue[k] \in 1 .. n /\ v.queue[k] = u.queue[k] /\ u.queue[k] < p
  <2>1. u.queue \in Seq(1 .. n)
    BY DEF UrbType
  <2>2. \A k \in 1 .. Len(u.queue) : u.queue[k] \in 1 .. n
    BY <2>1, ElementOfSeq
  <2> QED BY <2>2
<1>5. \A j \in 1 .. n : j # p => v.got[j] = u.got[j] /\ v.buffer[j] = u.buffer[j]
  BY DEF UrbType
<1>6. v.got[p] = 1 /\ v.buffer[p] = u.sent + 1
  BY DEF UrbType
<1>7. \A k \in 1 .. Len(u.queue) : u.queue[k] # p
  BY <1>1, <1>4
<1>8. DataAt(v) = DataAt(u) \cup {last}
  <2>1. last \in 1 .. last
    BY <1>1
  <2> QED BY <1>2, <1>3, <1>4, <1>5, <1>6, <1>7, <2>1 DEF DataAt
<1>9. \A k \in DataAt(u) :
        /\ v.queue[k] = u.queue[k] /\ v.buffer[v.queue[k]] = u.buffer[u.queue[k]]
        /\ u.queue[k] < p /\ k < last /\ u.queue[k] \in 1 .. n /\ u.buffer[u.queue[k]] \in Nat
  <2>1. \A k \in DataAt(u) : k \in 1 .. Len(u.queue)
    BY DEF DataAt
  <2> QED BY <1>2, <1>4, <1>5, <1>7, <2>1 DEF UrbType
<1>10. last \notin DataAt(u)
  BY <1>1, <1>9
<1>11. Received(v)
  <2>1. u.transferred <= u.sent /\ \A w \in 1 .. u.transferred : u.buffer[w] = w
    BY DEF InQueue, Received
  <2>2. \A w \in 1 .. u.transferred : w \in 1 .. n /\ w # p
    BY <1>1, <2>1
  <2> QED BY <1>1, <1>5, <2>1, <2>2 DEF Received
<1>12. Ahead(v)
  <2>1. \A k \in DataAt(u) :
          /\ u.transferred < u.buffer[u.queue[k]] /\ u.buffer[u.queue[k]] <= u.sent
          /\ u.buffer[u.queue[k]] <= u.queue[k]
    BY DEF InQueue, Ahead
  <2>2. u.transferred < u.sent + 1 /\ u.sent + 1 <= p
    BY <1>1 DEF InQueue, Received
  <2>3. \A k \in DataAt(u) :
          /\ v.transferred < v.buffer[v.queue[k]] /\ v.buffer[v.queue[k]] <= v.sent
          /\ v.buffer[v.queue[k]] <= v.queue[k]
    BY <1>1, <1>9, <2>1
  <2>4. /\ v.transferred < v.buffer[v.queue[last]] /\ v.buffer[v.queue[last]] <= v.sent
        /\ v.buffer[v.queue[last]] <= v.queue[last]
    BY <1>1, <1>6, <2>2
  <2> HIDE DEF last
  <2> QED BY ONLY <1>8, <2>3, <2>4 DEF Ahead
<1>13. Ascending(v)
  <2>1. \A j, k \in DataAt(u) : 
          j < k => u.queue[j] < u.queue[k] /\ u.buffer[u.queue[j]] < u.buffer[u.queue[k]]
    BY DEF InQueue, Ascending
  <2>2. \A k \in DataAt(u) : u.buffer[u.queue[k]] < u.sent + 1
    BY <1>1, <1>9 DEF InQueue, Ahead
  <2>3. \A k \in DataAt(u) : ~(last < k)
    BY <1>1, <1>9 DEF DataAt
  <2>4. ~(last < last)
    BY <1>1
  <2> QED BY <1>6, <1>8, <1>9, <2>1, <2>2, <2>3, <2>4 DEF Ascending
<1>14. AllThere(v)
  <2> SUFFICES ASSUME NEW w \in (v.transferred + 1) .. v.sent
               PROVE  \E k \in DataAt(v) : v.buffer[v.queue[k]] = w
    BY DEF AllThere
  <2>1. CASE w = u.sent + 1
    BY <1>6, <1>8, <2>1
  <2>2. CASE w # u.sent + 1
    <3>1. w \in (u.transferred + 1) .. u.sent
      BY <1>1, <2>2
    <3>2. PICK k \in DataAt(u) : u.buffer[u.queue[k]] = w
      BY <3>1 DEF InQueue, AllThere
    <3>3. k \in DataAt(v) /\ v.buffer[v.queue[k]] = w
      BY ONLY <1>8, <1>9, <3>2
    <3> QED BY ONLY <3>3
  <2> QED BY <2>1, <2>2
<1> QED BY <1>11, <1>12, <1>13, <1>14 DEF InQueue

\* After a stall or the end of the device no more data comes.
StopsData(u) ==
  \A j \in 1 .. Len(u.queue) :
    /\ u.state[u.queue[j]] \in {"EPIPE", "ESHUTDOWN"} => \A k \in DataAt(u) : k <= j
    /\ u.state[u.queue[j]] = "ESHUTDOWN" => Pending(u) = {}

\* An URB without data is reaped before the k-th of the queue.
Holes(u, k) == \E j \in 1 .. k : u.got[u.queue[j]] = 0

\* While the transfer is a normal one its units are where they belong, unless an
\* URB without data comes first and makes it another.
InPlace(u) ==
  u.reap_action = "NORMAL" =>
    /\ u.reap_status # "COMPLETED" => DataAt(u) = {} /\ Pending(u) = {}
    /\ \A k \in DataAt(u) : u.buffer[u.queue[k]] = u.queue[k] \/ Holes(u, k)
    /\ \A p \in Pending(u) :
         (\A q \in Pending(u) : p <= q) => p = u.sent + 1 \/ Holes(u, Len(u.queue))

Numbered(u) == InQueue(u) /\ ToCome(u) /\ StopsData(u) /\ Suffix(u) /\ InPlace(u)

\* The first URB the kernel has ends, with a unit of data only when no stall and
\* no error came before.
LEMMA EndedData ==
  ASSUME NEW n \in Nat, NEW u, Sound(u, n), Numbered(u),
         NEW i \in Pending(u), \A q \in Pending(u) : i <= q,
         NEW s \in {"ok"} \cup Failures, NEW k \in 0 .. 1, k = 1 => s = "ok" /\ ~Halted(u)
  PROVE  Numbered(Ended(u, i, s, k)) /\ Pending(Ended(u, i, s, k)) \subseteq Pending(u)
<1> DEFINE v == Ended(u, i, s, k)
           last == Len(u.queue) + 1
<1>1. s \in UrbStates \ {"pending"}
  BY DEF UrbStates, Failures
<1>2. UrbType(u, n) /\ UrbType(v, n) /\ SameVerdict(u, v)
  BY <1>1, EndedSound DEF Sound
<1>3. /\ v.state = [u.state EXCEPT ![i] = s] /\ v.got = [u.got EXCEPT ![i] = k]
      /\ v.queue = Append(u.queue, i) /\ v.sent = u.sent + k
      /\ v.buffer = [u.buffer EXCEPT ![i] = IF k = 0 THEN @ ELSE u.sent + 1]
      /\ v.transferred = u.transferred
  BY <1>2 DEF Ended, UrbType
<1> HIDE DEF v
<1>4. /\ i \in 1 .. n /\ Number(u) = n /\ Number(v) = n /\ Pending(u) \in SUBSET (1 .. n)
      /\ u.got[i] = 0 /\ u.sent < i
  BY <1>2, PendingFinite DEF Numbered, ToCome
<1>5. /\ Len(v.queue) = last /\ v.queue[last] = i
      /\ \A j \in 1 .. Len(u.queue) : v.queue[j] = u.queue[j]
      /\ Len(u.queue) \in Nat /\ u.queue \in Seq(1 .. n)
  BY <1>2, <1>3, <1>4 DEF UrbType
<1>6. \A j \in 1 .. Len(u.queue) : u.queue[j] < i /\ u.queue[j] \in 1 .. n /\ u.queue[j] # i
  <2>1. \A j \in 1 .. Len(u.queue) : u.queue[j] \in 1 .. n
    BY <1>5, ElementOfSeq
  <2>2. \A j \in 1 .. Len(u.queue) : u.queue[j] < i
    BY DEF Numbered, ToCome
  <2> QED BY <1>4, <2>1, <2>2
<1>7. \A j \in 1 .. n : j # i => v.got[j] = u.got[j] /\ v.buffer[j] = u.buffer[j] /\ v.state[j] = u.state[j]
  BY <1>2, <1>3 DEF UrbType
<1>8. v.got[i] = k /\ v.state[i] = s /\ (k = 1 => v.buffer[i] = u.sent + 1) /\ (k = 0 => v.buffer[i] = u.buffer[i])
  BY <1>2, <1>3, <1>4 DEF UrbType
<1>9. Pending(v) = Pending(u) \ {i}
  BY <1>1, <1>2, <1>3 DEF Pending, UrbType
<1>10. \A j \in 1 .. last : j \in 1 .. Len(u.queue) \/ j = last
  BY <1>5
<1>11. DataAt(v) = IF k = 1 THEN DataAt(u) \cup {last} ELSE DataAt(u)
  <2>1. \A j \in 1 .. Len(u.queue) : j \in 1 .. last /\ j # last
    BY <1>5
  <2>2. last \in 1 .. last
    BY <1>5
  <2>3. \A j \in 1 .. Len(u.queue) : v.got[v.queue[j]] = u.got[u.queue[j]]
    BY <1>5, <1>6, <1>7
  <2>4. v.got[v.queue[last]] = k
    BY <1>5, <1>8
  <2>5. 1 .. Len(v.queue) = 1 .. Len(u.queue) \cup {last}
    BY <1>5, <1>10, <2>1, <2>2
  <2>6. k = 0 \/ k = 1
    OBVIOUS
  <2> HIDE DEF last
  <2>7. CASE k = 1
    <3>1. DataAt(v) = DataAt(u) \cup {last}
      BY <2>3, <2>4, <2>5, <2>7 DEF DataAt
    <3> QED BY <2>7, <3>1
  <2>8. CASE k = 0
    <3>1. DataAt(v) = DataAt(u)
      BY <2>3, <2>4, <2>5, <2>8 DEF DataAt
    <3> QED BY <2>8, <3>1
  <2> QED BY <2>6, <2>7, <2>8
<1>12. InQueue(v)
  <2>1. InQueue(u)
    BY DEF Numbered
  <2>2. CASE k = 0
    <3>1. v.buffer = u.buffer
      BY <1>2, <1>3, <2>2 DEF UrbType
    <3>2. v.sent = u.sent
      BY <1>2, <1>3, <2>2 DEF UrbType
    <3>3. Len(v.queue) >= Len(u.queue)
      BY <1>5
    <3>4. \A j \in 1 .. Len(v.queue) : j > Len(u.queue) => v.got[v.queue[j]] = 0
      BY <1>5, <1>8, <1>10, <2>2
    <3>5. \A j \in 1 .. Len(u.queue) : v.queue[j] = u.queue[j] /\ v.got[u.queue[j]] = u.got[u.queue[j]]
      BY <1>5, <1>6, <1>7
    <3> QED BY <1>2, <1>3, <2>1, <3>1, <3>2, <3>3, <3>4, <3>5, NoNewData
  <2>3. CASE k = 1
    <3>1. v.buffer = [u.buffer EXCEPT ![i] = u.sent + 1] /\ v.got = [u.got EXCEPT ![i] = 1] /\ v.sent = u.sent + 1
      BY <1>3, <2>3
    <3>2. Len(v.queue) > Len(u.queue) /\ v.queue[Len(v.queue)] = i
      BY <1>5
    <3>3. \A j \in 1 .. Len(v.queue) : j > Len(u.queue) /\ j # Len(v.queue) => v.got[v.queue[j]] = 0
      BY <1>5, <1>10
    <3>4. \A j \in 1 .. Len(u.queue) : v.queue[j] = u.queue[j] /\ u.queue[j] < i
      BY <1>5, <1>6
    <3>5. UrbType(u, n) /\ UrbType(v, n) /\ i \in 1 .. n /\ u.sent < i /\ v.transferred = u.transferred
      BY <1>2, <1>3, <1>4
    <3> QED BY ONLY n \in Nat, <2>1, <3>1, <3>2, <3>3, <3>4, <3>5, OneNewData
  <2> QED BY <2>2, <2>3
<1>13. ToCome(v)
  <2>1. \A p \in Pending(v) : p \in 1 .. n /\ p > i
    BY <1>4, <1>9
  <2>2. \A p \in Pending(v) : v.got[p] = 0
    BY <1>4, <1>7, <1>9, <2>1 DEF Numbered, ToCome
  <2>3. \A p \in Pending(v) : v.sent < p
    <3>1. v.sent = u.sent + k /\ u.sent \in Nat
      BY <1>2, <1>3 DEF UrbType
    <3>2. v.sent \in Nat /\ i \in Nat /\ v.sent <= i
      BY <1>4, <3>1
    <3> QED BY ONLY n \in Nat, <2>1, <3>2
  <2>4. ASSUME NEW p \in Pending(v), NEW j \in 1 .. Len(v.queue)
        PROVE  v.queue[j] < p
    <3>1. v.queue[j] <= i /\ v.queue[j] \in 1 .. n
      <4>1. j \in 1 .. Len(u.queue) \/ j = last
        BY ONLY <1>5, <1>10, j \in 1 .. Len(v.queue)
      <4>2. CASE j = last
        <5>1. v.queue[j] = i /\ i \in 1 .. n
          BY ONLY <1>4, <1>5, <4>2
        <5> QED BY ONLY <5>1, n \in Nat
      <4>3. CASE j \in 1 .. Len(u.queue)
        <5>1. v.queue[j] = u.queue[j] /\ u.queue[j] < i /\ u.queue[j] \in 1 .. n
          BY ONLY <1>5, <1>6, <4>3
        <5>2. i \in 1 .. n
          BY <1>4
        <5> QED BY ONLY <5>1, <5>2, n \in Nat
      <4> QED BY ONLY <4>1, <4>2, <4>3
    <3> QED BY <1>4, <2>1, <3>1
  <2> QED BY <2>2, <2>3, <2>4 DEF ToCome
<1>14. StopsData(v)
  <2> SUFFICES ASSUME NEW j \in 1 .. Len(v.queue)
               PROVE  /\ v.state[v.queue[j]] \in {"EPIPE", "ESHUTDOWN"} => \A d \in DataAt(v) : d <= j
                      /\ v.state[v.queue[j]] = "ESHUTDOWN" => Pending(v) = {}
    BY DEF StopsData
  <2>1. CASE j = last
    <3>1. \A d \in DataAt(v) : d <= j
      BY <1>5, <2>1 DEF DataAt
    <3> QED BY <1>5, <1>8, <2>1, <3>1 DEF Failures
  <2>2. CASE j \in 1 .. Len(u.queue)
    <3>1. v.state[v.queue[j]] = u.state[u.queue[j]] /\ u.queue[j] \in 1 .. n
      BY <1>5, <1>6, <1>7, <2>2
    <3>2. u.state[u.queue[j]] # "ESHUTDOWN"
      BY <2>2 DEF Numbered, StopsData
    <3>3. ASSUME u.state[u.queue[j]] = "EPIPE"
          PROVE  \A d \in DataAt(v) : d <= j
      <4>1. Halted(u)
        BY <1>2, <3>1, <3>3 DEF Halted, UrbType
      <4>2. DataAt(v) = DataAt(u)
        BY <1>11, <4>1
      <4> QED BY <2>2, <3>3, <4>2 DEF Numbered, StopsData
    <3> QED BY <3>1, <3>2, <3>3
  <2> QED BY <1>5, <1>10, <2>1, <2>2
<1>15. Suffix(v)
  <2> SUFFICES ASSUME NEW p \in Pending(v)
               PROVE  p .. n \subseteq Pending(v)
    BY <1>4 DEF Suffix
  <2>1. p .. n \subseteq Pending(u) /\ p > i /\ p \in Nat
    BY <1>4, <1>9 DEF Numbered, Suffix
  <2>2. i \notin p .. n
    BY <1>4, <2>1
  <2> QED BY <1>9, <2>1, <2>2
<1>16. InPlace(v)
  <2> SUFFICES ASSUME v.reap_action = "NORMAL"
               PROVE  /\ v.reap_status # "COMPLETED" => DataAt(v) = {} /\ Pending(v) = {}
                      /\ \A d \in DataAt(v) : v.buffer[v.queue[d]] = v.queue[d] \/ Holes(v, d)
                      /\ \A p \in Pending(v) :
                           (\A q \in Pending(v) : p <= q) => p = v.sent + 1 \/ Holes(v, Len(v.queue))
    BY DEF InPlace
  <2>1. /\ u.reap_status # "COMPLETED" => DataAt(u) = {} /\ Pending(u) = {}
        /\ \A d \in DataAt(u) : u.buffer[u.queue[d]] = u.queue[d] \/ Holes(u, d)
        /\ \A p \in Pending(u) :
             (\A q \in Pending(u) : p <= q) => p = u.sent + 1 \/ Holes(u, Len(u.queue))
    BY <1>2 DEF Numbered, InPlace, SameVerdict
  <2>2. v.reap_status = "COMPLETED"
    BY <1>2, <2>1 DEF SameVerdict
  <2>3. \A d \in 1 .. Len(u.queue) : Holes(u, d) => Holes(v, d) /\ Holes(v, last)
    <3> SUFFICES ASSUME NEW d \in 1 .. Len(u.queue), NEW j \in 1 .. d, u.got[u.queue[j]] = 0
                 PROVE  Holes(v, d) /\ Holes(v, last)
      BY DEF Holes
    <3>1. j \in 1 .. Len(u.queue) /\ j \in 1 .. last
      BY <1>5
    <3>2. v.got[v.queue[j]] = 0
      BY <1>5, <1>6, <1>7, <3>1
    <3> QED BY <3>1, <3>2 DEF Holes
  <2>4. Holes(u, Len(u.queue)) => Holes(v, last)
    <3>1. CASE Len(u.queue) = 0
      BY <3>1 DEF Holes
    <3>2. CASE Len(u.queue) # 0
      <4>1. Len(u.queue) \in 1 .. Len(u.queue)
        BY <1>5, <3>2
      <4> QED BY <2>3, <4>1
    <3> QED BY <3>1, <3>2
  <2>5. i = u.sent + 1 \/ Holes(v, last)
    BY <2>1, <2>4
  <2>6. ASSUME NEW d \in DataAt(v)
        PROVE  v.buffer[v.queue[d]] = v.queue[d] \/ Holes(v, d)
    <3>1. CASE d \in DataAt(u)
      <4>1. d \in 1 .. Len(u.queue)
        BY <3>1 DEF DataAt
      <4>2. v.buffer[v.queue[d]] = u.buffer[u.queue[d]] /\ v.queue[d] = u.queue[d]
        BY <1>5, <1>6, <1>7, <4>1
      <4> QED BY <2>1, <2>3, <3>1, <4>1, <4>2
    <3>2. CASE k = 1 /\ d = last
      BY <1>5, <1>8, <2>5, <3>2
    <3> QED BY <1>11, <2>6, <3>1, <3>2
  <2>7. ASSUME NEW p \in Pending(v), \A q \in Pending(v) : p <= q
        PROVE  p = v.sent + 1 \/ Holes(v, last)
    <3>1. p \in Pending(u) /\ p > i /\ p \in 1 .. n
      BY <1>4, <1>9
    <3>2. i + 1 \in i .. n /\ i + 1 # i
      BY <1>4, <3>1
    <3>3. i + 1 \in Pending(v)
      BY <1>4, <1>9, <3>2 DEF Numbered, Suffix
    <3>4. p = i + 1
      BY <1>4, <2>7, <3>1, <3>3
    <3>5. CASE k = 1
      BY <1>2, <1>3, <2>5, <3>4, <3>5 DEF UrbType
    <3>6. CASE k = 0
      <4>1. last \in 1 .. last
        BY <1>5
      <4> QED BY <1>5, <1>8, <3>6, <4>1 DEF Holes
    <3> QED BY <3>5, <3>6
  <2> QED BY <1>5, <2>2, <2>6, <2>7
<1> QED BY <1>9, <1>12, <1>13, <1>14, <1>15, <1>16 DEF Numbered, v

\* The first of a set of URBs is the last of its list, and there only.
LEMMA FirstIsLast ==
  ASSUME NEW n \in Nat, NEW S \in SUBSET (1 .. n), NEW m \in S, \A j \in S : m <= j
  PROVE  /\ Cardinality(S) \in Nat \ {0} /\ FromLast(S)[Cardinality(S)] = m
         /\ \A k \in 1 .. Cardinality(S) : k # Cardinality(S) => FromLast(S)[k] # m
<1> DEFINE F == FromLast(S)
           above(i) == {j \in S : j > i}
<1>1. IsFiniteSet(S) /\ Cardinality(S) \in Nat /\ \A j \in S : j \in Nat \ {0} /\ j <= n
  BY FiniteUrbs
<1>2. \A k \in 1 .. Cardinality(S) : F[k] \in S /\ Cardinality(above(F[k])) = k - 1
  BY KthLast DEF FromLast
<1>3. Cardinality(S \ {m}) = Cardinality(S) - 1 /\ Cardinality(S \ {m}) \in Nat
  BY <1>1, FS_RemoveElement, FS_Subset, FS_CardinalityType
<1>4. above(m) = S \ {m}
  <2>1. \A j \in S : j > m <=> j # m
    BY <1>1
  <2> QED BY <2>1
<1> HIDE DEF F
<1>5. \A k \in 1 .. Cardinality(S) : F[k] = m => k = Cardinality(S)
  BY <1>1, <1>2, <1>3, <1>4
<1>6. Cardinality(S) # 0
  BY <1>1, <1>3
<1>7. F[Cardinality(S)] = m
  <2> DEFINE i == F[Cardinality(S)]
  <2>1. i \in S /\ Cardinality(above(i)) = Cardinality(S) - 1
    <3>1. Cardinality(S) \in 1 .. Cardinality(S)
      BY <1>1, <1>6
    <3> QED BY <1>2, <3>1
  <2> HIDE DEF i
  <2>2. CASE i # m
    <3>1. above(i) \subseteq (S \ {m}) \ {i} /\ i \in S \ {m}
      BY <1>1, <2>1, <2>2
    <3>2. IsFiniteSet(S \ {m}) /\ IsFiniteSet((S \ {m}) \ {i})
      BY <1>1, FS_Subset
    <3>3. Cardinality((S \ {m}) \ {i}) = Cardinality(S \ {m}) - 1
      BY <3>1, <3>2, FS_RemoveElement
    <3>4. Cardinality(above(i)) <= Cardinality((S \ {m}) \ {i})
      BY <3>1, <3>2, FS_Subset
    <3> QED BY <1>1, <1>3, <2>1, <3>3, <3>4
  <2> QED BY <2>2 DEF i
<1> QED BY <1>1, <1>5, <1>6, <1>7 DEF F

\* Discarding what the kernel has: the URB it was serving may bring its unit,
\* unless the endpoint is halted, and is reaped last.
LEMMA DiscardData ==
  ASSUME NEW n \in Nat, NEW u, Sound(u, n), InQueue(u), ToCome(u), StopsData(u),
         NEW S, Pending(u) \subseteq S, NEW v \in discard_urbs(u, S)
  PROVE  /\ InQueue(v) /\ StopsData(v) /\ Pending(v) = {}
         /\ Halted(u) => DataAt(v) = DataAt(u)
         /\ Pending(u) = {} => /\ DataAt(v) = DataAt(u) /\ v.queue = u.queue /\ v.got = u.got
                               /\ v.buffer = u.buffer /\ v.sent = u.sent
<1> DEFINE P == Pending(u)
           F == FromLast(P)
           first == Min(P)
           dead == [u EXCEPT !.state = [i \in DOMAIN @ |-> IF i \in P THEN "ENOENT" ELSE @[i]], !.queue = @ \o F]
           late == [dead EXCEPT !.got[first] = 1, !.sent = @ + 1, !.buffer[first] = u.sent + 1]
<1>1. UrbType(u, n) /\ P \in SUBSET (1 .. n) /\ IsFiniteSet(P) /\ u.queue \in Seq(1 .. n) /\ Len(u.queue) \in Nat
  BY PendingFinite DEF Sound, UrbType
<1>2. UrbType(v, n) /\ v.transferred = u.transferred
  BY DiscardSound DEF Sound
<1>3. S \cap P = P
  OBVIOUS
<1>4. v = dead \/ (v = late /\ P # {} /\ ~Halted(u))
  BY <1>3 DEF discard_urbs
<1>5. /\ F \in Seq(P) /\ Len(F) = Cardinality(P) /\ Cardinality(P) \in Nat
  BY <1>1, Listing
<1> HIDE DEF F, first, P
<1>6. /\ dead.state = [i \in 1 .. n |-> IF i \in P THEN "ENOENT" ELSE u.state[i]]
      /\ dead.queue = u.queue \o F
      /\ dead.got = u.got /\ dead.sent = u.sent /\ dead.buffer = u.buffer /\ DOMAIN dead = DOMAIN u
  BY <1>1 DEF UrbType
<1> HIDE DEF dead
<1>7. late.state = dead.state /\ late.queue = dead.queue
      /\ late.got = [dead.got EXCEPT ![first] = 1] /\ late.sent = dead.sent + 1
      /\ late.buffer = [dead.buffer EXCEPT ![first] = u.sent + 1]
  BY <1>1, <1>6 DEF UrbType
<1> HIDE DEF late
<1>8. /\ v.state = [i \in 1 .. n |-> IF i \in P THEN "ENOENT" ELSE u.state[i]]
      /\ v.queue = u.queue \o F
      /\ \/ v.got = u.got /\ v.buffer = u.buffer /\ v.sent = u.sent
         \/ /\ v.got = [u.got EXCEPT ![first] = 1] /\ v.buffer = [u.buffer EXCEPT ![first] = u.sent + 1]
            /\ v.sent = u.sent + 1 /\ P # {} /\ ~Halted(u)
  BY <1>4, <1>6, <1>7
<1>9. F \in Seq(1 .. n)
  BY <1>1, <1>5, SeqMonotone
<1>10. /\ Len(v.queue) = Len(u.queue) + Len(F)
       /\ \A k \in 1 .. Len(u.queue) : v.queue[k] = u.queue[k]
       /\ \A k \in 1 .. Len(v.queue) : k > Len(u.queue) => v.queue[k] = F[k - Len(u.queue)]
  BY <1>1, <1>8, <1>9, ConcatProperties
<1>11. \A k \in 1 .. Len(v.queue) : k > Len(u.queue) =>
         k - Len(u.queue) \in 1 .. Len(F) /\ v.queue[k] \in P
  <2>1. \A k \in 1 .. Len(F) : F[k] \in P
    BY <1>5, ElementOfSeq
  <2> QED BY <1>1, <1>5, <1>10, <2>1
<1>12. \A k \in 1 .. Len(u.queue) : u.queue[k] \in 1 .. n /\ u.queue[k] \notin P
  <2>1. \A k \in 1 .. Len(u.queue) : u.queue[k] \in 1 .. n
    BY <1>1, ElementOfSeq
  <2>2. ASSUME NEW k \in 1 .. Len(u.queue), u.queue[k] \in P
        PROVE  FALSE
    <3>1. u.queue[k] < u.queue[k] /\ u.queue[k] \in Nat
      BY <2>1, <2>2 DEF ToCome, P
    <3> QED BY <3>1
  <2> QED BY <2>1, <2>2
<1>13. Pending(v) = {}
  BY <1>1, <1>8 DEF Pending, UrbType, P
<1>14. ASSUME v.got = u.got, v.buffer = u.buffer, v.sent = u.sent
       PROVE  InQueue(v) /\ DataAt(v) = DataAt(u) /\ (P = {} => v.queue = u.queue)
  <2>1. Len(v.queue) >= Len(u.queue)
    BY <1>1, <1>5, <1>10
  <2>2. \A k \in 1 .. Len(v.queue) : k > Len(u.queue) => v.got[v.queue[k]] = 0
    BY <1>11, <1>14 DEF ToCome, P
  <2>3. DataAt(v) = DataAt(u) /\ InQueue(v)
    BY <1>1, <1>2, <1>10, <1>14, <2>1, <2>2, NoNewData
  <2>4. P = {} => v.queue = u.queue
    <3> HAVE P = {}
    <3>1. Len(F) = 0
      BY <1>5, FS_EmptySet
    <3>2. v.queue \in Seq(1 .. n) /\ Len(v.queue) = Len(u.queue)
      BY <1>1, <1>2, <1>10, <3>1 DEF UrbType
    <3> QED BY <1>1, <1>10, <3>2, SeqEqual
  <2> QED BY <2>3, <2>4
<1>15. ASSUME v.got = [u.got EXCEPT ![first] = 1], v.buffer = [u.buffer EXCEPT ![first] = u.sent + 1],
              v.sent = u.sent + 1, P # {}
       PROVE  InQueue(v)
  <2>1. first \in P /\ \A j \in P : first <= j
    BY <1>1, <1>15, MinIn DEF first
  <2>2. /\ Len(F) \in Nat \ {0} /\ F[Len(F)] = first
        /\ \A k \in 1 .. Len(F) : k # Len(F) => F[k] # first
    BY <1>1, <1>5, <2>1, FirstIsLast DEF F
  <2>3. Len(v.queue) > Len(u.queue) /\ Len(v.queue) \in 1 .. Len(v.queue) /\ Len(v.queue) - Len(u.queue) = Len(F)
    BY <1>1, <1>10, <2>2
  <2>4. v.queue[Len(v.queue)] = first
    BY <1>10, <2>2, <2>3
  <2>5. \A k \in 1 .. Len(u.queue) : v.queue[k] = u.queue[k] /\ u.queue[k] < first
    BY <1>10, <2>1 DEF ToCome, P
  <2>6. ASSUME NEW k \in 1 .. Len(v.queue), k > Len(u.queue), k # Len(v.queue)
        PROVE  v.got[v.queue[k]] = 0
    <3>1. k - Len(u.queue) # Len(F)
      BY <1>1, <2>3, <2>6
    <3>2. v.queue[k] \in P /\ v.queue[k] # first
      BY <1>10, <1>11, <2>2, <2>6, <3>1
    <3>3. u.got[v.queue[k]] = 0
      BY <3>2 DEF ToCome, P
    <3> QED BY <1>1, <1>15, <3>2, <3>3 DEF UrbType
  <2>7. first \in 1 .. n /\ u.sent < first
    BY <1>1, <2>1 DEF ToCome, P
  <2>8. UrbType(u, n) /\ UrbType(v, n) /\ v.transferred = u.transferred
    BY <1>1, <1>2
  <2>9. \A k \in 1 .. Len(v.queue) : k > Len(u.queue) /\ k # Len(v.queue) => v.got[v.queue[k]] = 0
    BY <2>6
  <2> QED BY <1>15, <2>3, <2>4, <2>5, <2>7, <2>8, <2>9, OneNewData
<1>16. InQueue(v) /\ (DataAt(v) = DataAt(u) \/ (P # {} /\ ~Halted(u)))
  BY <1>8, <1>14, <1>15
<1>17. StopsData(v)
  <2> SUFFICES ASSUME NEW j \in 1 .. Len(v.queue)
               PROVE  v.state[v.queue[j]] \in {"EPIPE", "ESHUTDOWN"} => \A k \in DataAt(v) : k <= j
    BY <1>13 DEF StopsData
  <2>1. CASE j > Len(u.queue)
    <3>1. v.state[v.queue[j]] = "ENOENT"
      BY <1>1, <1>8, <1>11, <2>1
    <3> QED BY <3>1
  <2>2. CASE j \in 1 .. Len(u.queue)
    <3>1. v.state[v.queue[j]] = u.state[u.queue[j]] /\ u.queue[j] \in 1 .. n
      BY <1>8, <1>10, <1>12, <2>2
    <3>2. u.state[u.queue[j]] \in {"EPIPE", "ESHUTDOWN"} => Halted(u) \/ P = {}
      BY <1>1, <2>2, <3>1 DEF StopsData, Halted, P, UrbType
    <3>3. u.state[u.queue[j]] \in {"EPIPE", "ESHUTDOWN"} => \A k \in DataAt(u) : k <= j
      BY <2>2 DEF StopsData
    <3> QED BY <1>16, <3>1, <3>2, <3>3
  <2>3. j > Len(u.queue) \/ j \in 1 .. Len(u.queue)
    BY <1>1
  <2> QED BY <2>1, <2>2, <2>3
<1> QED BY <1>8, <1>13, <1>14, <1>16, <1>17 DEF P

\* The verdict on a transfer has no part in its data.
LEMMA SameData ==
  ASSUME NEW u, NEW v, v.state = u.state, v.got = u.got, v.queue = u.queue, v.sent = u.sent,
         v.buffer = u.buffer, v.transferred = u.transferred
  PROVE  /\ DataAt(v) = DataAt(u) /\ Pending(v) = Pending(u) /\ Number(v) = Number(u)
         /\ InQueue(u) => InQueue(v)
         /\ ToCome(u) => ToCome(v)
         /\ StopsData(u) => StopsData(v)
         /\ Suffix(u) => Suffix(v)
<1>1. DataAt(v) = DataAt(u)
  BY DEF DataAt
<1>2. Pending(v) = Pending(u) /\ Number(v) = Number(u)
  BY DEF Pending, Number
<1>3. InQueue(u) => InQueue(v)
  BY <1>1 DEF InQueue, Received, Ahead, Ascending, AllThere
<1>4. (ToCome(u) => ToCome(v)) /\ (StopsData(u) => StopsData(v)) /\ (Suffix(u) => Suffix(v))
  BY <1>1, <1>2 DEF ToCome, StopsData, Suffix
<1> QED BY <1>1, <1>2, <1>3, <1>4

\* Nothing is to come or to stop once the kernel has nothing.
LEMMA NoneToCome ==
  ASSUME NEW v, Pending(v) = {}
  PROVE  ToCome(v) /\ Suffix(v)
BY DEF ToCome, Suffix

\* No unit was transferred yet.
Unused(u) == u.sent = 0 /\ u.reap_status = "COMPLETED" /\ \A i \in DOMAIN u.got : u.got[i] = 0

\* What a step makes of the data of a transfer that is under way.
DataMoves(u, v) ==
  /\ Numbered(u) => Numbered(v)
  /\ Pending(v) \subseteq Pending(u)
  /\ Drained(u) /\ Unused(u) => Unused(v)

\* A new transfer.
LEMMA NewUrbsData ==
  ASSUME NEW n \in Nat
  PROVE  Numbered(NewUrbs(n)) /\ Pending(NewUrbs(n)) = {} /\ Unused(NewUrbs(n))
<1> DEFINE u == NewUrbs(n)
<1>1. u.queue = <<>> /\ u.sent = 0 /\ u.transferred = 0 /\ Unused(u)
  BY DEF NewUrbs, Unused
<1>2. Pending(u) = {}
  BY NewUrbsSound DEF Drained
<1> HIDE DEF u
<1>3. DataAt(u) = {} /\ \A j : j \notin 1 .. Len(u.queue)
  BY <1>1 DEF DataAt
<1>4. InQueue(u)
  <2>1. \A k : k \notin 1 .. 0
    OBVIOUS
  <2> QED BY <1>1, <1>3, <2>1 DEF InQueue, Received, Ahead, Ascending, AllThere
<1>5. StopsData(u) /\ InPlace(u) /\ ToCome(u) /\ Suffix(u)
  BY <1>1, <1>2, <1>3, NoneToCome DEF StopsData, InPlace, Unused
<1> QED BY <1>1, <1>2, <1>4, <1>5 DEF Numbered, u

\* The device answers.
LEMMA KernelData ==
  ASSUME NEW n \in Nat, NEW u, Sound(u, n), NEW v \in Completions(u) \cup Errors(u)
  PROVE  DataMoves(u, v)
<1> DEFINE i == Min(Pending(u))
<1>1. Pending(u) # {} /\ Pending(u) \subseteq Nat
  BY KernelSound, PendingFinite DEF Sound
<1>2. i \in Pending(u) /\ \A q \in Pending(u) : i <= q
  BY <1>1, MinIn
<1>3. \E s \in {"ok"} \cup Failures, k \in 0 .. 1 : v = Ended(u, i, s, k) /\ (k = 1 => s = "ok" /\ ~Halted(u))
  BY DEF Completions, Errors
<1> HIDE DEF i
<1>4. PICK s \in {"ok"} \cup Failures, k \in 0 .. 1 : v = Ended(u, i, s, k) /\ (k = 1 => s = "ok" /\ ~Halted(u))
  BY <1>3
<1>5. Numbered(u) => Numbered(v)
  BY <1>2, <1>4, EndedData
<1>6. v.state = [u.state EXCEPT ![i] = s] /\ DOMAIN u.state = 1 .. n
  BY <1>4 DEF Ended, Sound, UrbType
<1>7. Pending(v) \subseteq Pending(u)
  BY <1>6 DEF Pending, Failures
<1>8. ~Drained(u)
  BY <1>1 DEF Drained
<1> QED BY <1>5, <1>7, <1>8 DEF DataMoves

\* The device is gone: what was pending brings nothing.
LEMMA ShutDownData ==
  ASSUME NEW n \in Nat, NEW u, Sound(u, n)
  PROVE  DataMoves(u, ShutDown(u)) /\ Pending(ShutDown(u)) = {}
<1> DEFINE v == ShutDown(u)
           P == Pending(u)
           F == FromFirst(P)
<1>1. UrbType(u, n) /\ UrbType(v, n) /\ SameVerdict(u, v) /\ P \in SUBSET (1 .. n) /\ u.queue \in Seq(1 .. n)
      /\ Len(u.queue) \in Nat
  BY PendingFinite, ShutDownSound DEF Sound, UrbType
<1>2. /\ v.state = [i \in 1 .. n |-> IF u.state[i] = "pending" THEN "ESHUTDOWN" ELSE u.state[i]]
      /\ v.queue = u.queue \o F
      /\ v.got = u.got /\ v.sent = u.sent /\ v.buffer = u.buffer /\ v.transferred = u.transferred
  BY <1>1 DEF ShutDown, UrbType
<1>3. F \in Seq(P) /\ F \in Seq(1 .. n) /\ Len(F) \in Nat
  BY <1>1, Listing, SeqMonotone
<1>4. /\ Len(v.queue) = Len(u.queue) + Len(F)
      /\ \A k \in 1 .. Len(u.queue) : v.queue[k] = u.queue[k]
      /\ \A k \in 1 .. Len(v.queue) : k > Len(u.queue) => v.queue[k] = F[k - Len(u.queue)]
  BY <1>1, <1>2, <1>3, ConcatProperties
<1>5. \A k \in 1 .. Len(v.queue) : k > Len(u.queue) => v.queue[k] \in P
  <2>1. \A k \in 1 .. Len(F) : F[k] \in P
    BY <1>3, ElementOfSeq
  <2>2. \A k \in 1 .. Len(v.queue) : k > Len(u.queue) => k - Len(u.queue) \in 1 .. Len(F)
    BY <1>1, <1>3, <1>4
  <2> QED BY <1>4, <2>1, <2>2
<1>6. Pending(v) = {}
  BY <1>1, <1>2 DEF Pending, UrbType
<1> HIDE DEF v, P, F
<1>7. Drained(u) /\ Unused(u) => Unused(v)
  BY <1>1, <1>2 DEF Unused, SameVerdict
<1>8. ASSUME Numbered(u)
      PROVE  Numbered(v)
  <2>1. Len(v.queue) >= Len(u.queue)
    BY <1>1, <1>3, <1>4
  <2>2. \A k \in 1 .. Len(v.queue) : k > Len(u.queue) => v.got[v.queue[k]] = 0
    BY <1>2, <1>5, <1>8 DEF Numbered, ToCome, P
  <2>3. \A k \in 1 .. Len(u.queue) : v.queue[k] = u.queue[k] /\ v.got[u.queue[k]] = u.got[u.queue[k]]
    BY <1>2, <1>4
  <2>4. DataAt(v) = DataAt(u) /\ InQueue(v)
    BY <1>1, <1>2, <1>8, <2>1, <2>2, <2>3, NoNewData DEF Numbered
  <2>5. \A k \in DataAt(u) : k \in 1 .. Len(u.queue)
    BY DEF DataAt
  <2>6. StopsData(v)
    <3> SUFFICES ASSUME NEW j \in 1 .. Len(v.queue), v.state[v.queue[j]] \in {"EPIPE", "ESHUTDOWN"}
                 PROVE  \A k \in DataAt(u) : k <= j
      BY <1>6, <2>4 DEF StopsData
    <3>1. CASE j > Len(u.queue)
      BY <1>1, <2>5, <3>1
    <3>2. CASE j \in 1 .. Len(u.queue)
      <4>1. u.queue[j] \in 1 .. n /\ u.queue[j] \notin P
        <5>1. u.queue[j] \in 1 .. n
          BY <1>1, <3>2, ElementOfSeq
        <5>2. u.queue[j] \in P => u.queue[j] < u.queue[j]
          BY <1>8, <3>2 DEF Numbered, ToCome, P
        <5> QED BY <5>1, <5>2
      <4>2. v.state[v.queue[j]] = u.state[u.queue[j]]
        BY <1>1, <1>2, <1>4, <3>2, <4>1 DEF P, Pending, UrbType
      <4> QED BY <1>8, <3>2, <4>2 DEF Numbered, StopsData
    <3>3. j > Len(u.queue) \/ j \in 1 .. Len(u.queue)
      BY <1>1
    <3> QED BY <3>1, <3>2, <3>3
  <2>7. InPlace(v)
    <3>1. \A k \in DataAt(u) : Holes(u, k) => Holes(v, k)
      <4> SUFFICES ASSUME NEW k \in DataAt(u), NEW j \in 1 .. k, u.got[u.queue[j]] = 0
                   PROVE  Holes(v, k)
        BY DEF Holes
      <4>1. j \in 1 .. Len(u.queue)
        BY <1>1, <2>5
      <4> QED BY <1>2, <1>4, <4>1 DEF Holes
    <3>2. \A k \in DataAt(u) : v.buffer[v.queue[k]] = u.buffer[u.queue[k]] /\ v.queue[k] = u.queue[k]
      BY <1>2, <1>4, <2>5
    <3> QED BY <1>1, <1>6, <1>8, <2>4, <3>1, <3>2 DEF Numbered, InPlace, SameVerdict
  <2> QED BY <1>6, <2>4, <2>6, <2>7, NoneToCome DEF Numbered
<1> QED BY <1>6, <1>7, <1>8 DEF DataMoves, v

\* To forget URBs that are all reaped loses nothing.
LEMMA ForgottenData ==
  ASSUME NEW n \in Nat, NEW u, Sound(u, n)
  PROVE  /\ Drained(u) /\ Numbered(u) => Numbered(Forgotten(u))
         /\ Pending(Forgotten(u)) = {}
         /\ Unused(u) => Unused(Forgotten(u))
<1> DEFINE v == Forgotten(u)
<1>1. UrbType(u, n) /\ SameVerdict(u, v) /\ Drained(v) /\ v.transferred = u.transferred
  BY ForgottenSound DEF Sound
<1>2. v.queue = <<>> /\ v.got = u.got /\ v.sent = u.sent /\ v.buffer = u.buffer /\ Pending(v) = {}
  BY <1>1 DEF Forgotten, UrbType, Drained
<1> HIDE DEF v
<1>3. Unused(u) => Unused(v)
  BY <1>1, <1>2 DEF Unused, SameVerdict
<1>4. ASSUME Drained(u), Numbered(u)
      PROVE  Numbered(v)
  <2>1. DataAt(v) = {} /\ DataAt(u) = {} /\ \A j : j \notin 1 .. Len(v.queue)
    BY <1>2, <1>4 DEF DataAt, Drained
  <2>2. InQueue(v)
    BY <1>1, <1>2, <1>4, <2>1 DEF Numbered, InQueue, Received, Ahead, Ascending, AllThere
  <2>3. StopsData(v) /\ InPlace(v)
    BY <1>2, <2>1 DEF StopsData, InPlace
  <2> QED BY <1>2, <2>2, <2>3, NoneToCome DEF Numbered
<1> QED BY <1>2, <1>3, <1>4 DEF v

\* A submission, complete or not.
LEMMA SubmittedData ==
  ASSUME NEW n \in Nat, NEW u, Sound(u, n), Fresh(u), Unused(u), NEW v \in submit_bulk_transfer(u)
  PROVE  Numbered(v)
<1>1. UrbType(u, n) /\ Number(u) = n /\ DOMAIN u.got = 1 .. n /\ \A j \in 1 .. n : u.got[j] = 0
  BY PendingFinite DEF Sound, Unused, UrbType
<1>2. ASSUME NEW i \in 1 .. n + 1, NEW w, UrbType(w, n), w.queue = <<>>, w.transferred = 0, w.got = u.got,
             w.sent = 0, w.reap_status = "COMPLETED", Pending(w) = 1 .. (i - 1)
      PROVE  InQueue(w) /\ ToCome(w) /\ StopsData(w) /\ InPlace(w)
  <2>1. DataAt(w) = {} /\ \A j : j \notin 1 .. Len(w.queue)
    BY <1>2 DEF DataAt
  <2>2. \A k : k \notin 1 .. 0
    OBVIOUS
  <2>3. InQueue(w)
    BY <1>2, <2>1, <2>2 DEF InQueue, Received, Ahead, Ascending, AllThere
  <2>4. \A p \in Pending(w) : p \in 1 .. n /\ p > 0
    BY <1>2
  <2>5. ToCome(w) /\ StopsData(w)
    BY <1>1, <1>2, <2>1, <2>4 DEF ToCome, StopsData
  <2>6. ASSUME NEW p \in Pending(w), \A q \in Pending(w) : p <= q
        PROVE  p = 1
    <3>1. 1 \in Pending(w) /\ p \in Nat \ {0}
      BY <1>2, <2>4
    <3> QED BY <2>6, <3>1
  <2>7. InPlace(w)
    BY <1>2, <2>1, <2>6 DEF InPlace
  <2> QED BY <2>3, <2>5, <2>7
<1>3. ASSUME NEW i \in 1 .. n + 1
      PROVE  LET w == Submitted(u, i)
             IN /\ Sound(w, n) /\ InQueue(w) /\ ToCome(w) /\ StopsData(w) /\ InPlace(w)
                /\ Pending(w) = 1 .. (i - 1)
  <2> DEFINE w == Submitted(u, i)
  <2>1. /\ Sound(w, n) /\ w.queue = <<>> /\ w.transferred = 0 /\ w.got = u.got /\ w.sent = 0
        /\ w.reap_status = "COMPLETED" /\ Pending(w) = 1 .. (i - 1)
    BY AcceptedSound DEF Unused
  <2> HIDE DEF w
  <2>2. InQueue(w) /\ ToCome(w) /\ StopsData(w) /\ InPlace(w)
    BY <1>2, <2>1 DEF Sound
  <2> QED BY <2>1, <2>2 DEF w
<1>4. CASE v = Submitted(u, Number(u) + 1)
  <2>1. n + 1 \in 1 .. n + 1 /\ (n + 1) - 1 = n
    OBVIOUS
  <2>2. Sound(v, n) /\ InQueue(v) /\ ToCome(v) /\ StopsData(v) /\ InPlace(v) /\ Pending(v) = 1 .. n
    BY <1>1, <1>3, <1>4, <2>1
  <2>3. \A p \in 1 .. n : p .. n \subseteq 1 .. n
    OBVIOUS
  <2>4. Number(v) = n
    BY <2>2, PendingFinite DEF Sound
  <2> QED BY <2>2, <2>3, <2>4 DEF Numbered, Suffix
<1>5. ASSUME NEW i \in 2 .. Number(u),
             v \in discard_urbs([Submitted(u, i) EXCEPT !.reap_action = "SUBMIT_FAILED"], 1 .. (i - 1))
      PROVE  Numbered(v)
  <2> DEFINE s == Submitted(u, i)
             w == [s EXCEPT !.reap_action = "SUBMIT_FAILED"]
  <2>1. Sound(s, n) /\ InQueue(s) /\ ToCome(s) /\ StopsData(s) /\ Pending(s) = 1 .. (i - 1)
    BY <1>1, <1>3
  <2> HIDE DEF s
  <2>2. /\ UrbType(w, n) /\ w.reap_action = "SUBMIT_FAILED" /\ w.num_retired = s.num_retired
        /\ w.state = s.state /\ w.got = s.got /\ w.queue = s.queue /\ w.sent = s.sent
        /\ w.buffer = s.buffer /\ w.transferred = s.transferred
    BY <2>1 DEF Sound, UrbType, Actions
  <2> HIDE DEF w
  <2>3. Counted(w)
    BY <2>1, <2>2 DEF Sound, Counted, Pending, Number
  <2>4. InQueue(w) /\ ToCome(w) /\ StopsData(w) /\ Pending(w) = 1 .. (i - 1)
    BY <2>1, <2>2, SameData
  <2>5. v \in discard_urbs(w, 1 .. (i - 1))
    BY <1>5 DEF w, s
  <2>6. InQueue(v) /\ StopsData(v) /\ Pending(v) = {}
    BY <2>2, <2>3, <2>4, <2>5, DiscardData DEF Sound
  <2>7. v.reap_action = "SUBMIT_FAILED"
    BY <2>2, <2>3, <2>5, DiscardSound DEF Sound, SameVerdict
  <2> QED BY <2>6, <2>7, NoneToCome DEF Numbered, InPlace
<1> QED BY <1>4, <1>5 DEF submit_bulk_transfer

\* A cancellation of what the kernel has leaves a normal transfer as it is only
\* if it has nothing.
LEMMA CancelData ==
  ASSUME NEW n \in Nat, NEW u, Sound(u, n), NEW v \in op_cancel_transfer(u)
  PROVE  Numbered(u) => Numbered(v)
<1> SUFFICES ASSUME Numbered(u)
             PROVE  Numbered(v)
  OBVIOUS
<1>1. PICK w \in discard_urbs(u, DOMAIN u.state) :
        v = IF CancelFound(u) /\ w.reap_action # "ERROR" THEN [w EXCEPT !.reap_action = "CANCELLED"] ELSE w
  BY DEF op_cancel_transfer
<1>2. Pending(u) \subseteq DOMAIN u.state
  BY DEF Pending
<1>3. /\ InQueue(w) /\ StopsData(w) /\ Pending(w) = {}
      /\ Pending(u) = {} => /\ DataAt(w) = DataAt(u) /\ w.queue = u.queue /\ w.got = u.got
                            /\ w.buffer = u.buffer /\ w.sent = u.sent
  BY <1>1, <1>2, DiscardData DEF Numbered
<1>4. Sound(w, n) /\ SameVerdict(u, w)
  BY <1>1, DiscardSound
<1>5. CASE v = [w EXCEPT !.reap_action = "CANCELLED"]
  <2>1. /\ v.state = w.state /\ v.got = w.got /\ v.queue = w.queue /\ v.sent = w.sent
        /\ v.buffer = w.buffer /\ v.transferred = w.transferred /\ v.reap_action = "CANCELLED"
    BY <1>4, <1>5 DEF Sound, UrbType
  <2>2. InQueue(v) /\ StopsData(v) /\ Pending(v) = {}
    BY <1>3, <2>1, SameData
  <2> QED BY <2>1, <2>2, NoneToCome DEF Numbered, InPlace
<1>6. CASE v = w /\ w.reap_action = "ERROR"
  BY <1>3, <1>6, NoneToCome DEF Numbered, InPlace
<1>7. CASE v = w /\ ~CancelFound(u)
  <2>1. Pending(u) = {}
    <3> SUFFICES ASSUME NEW p \in Pending(u)
                 PROVE  FALSE
      OBVIOUS
    <3>1. Number(u) = n /\ Pending(u) \in SUBSET (1 .. n)
      BY PendingFinite DEF Sound
    <3>2. n \in p .. n
      BY <3>1
    <3> QED BY <1>7, <3>1, <3>2 DEF Numbered, Suffix, CancelFound
  <2>2. InPlace(w)
    <3>1. \A k : Holes(u, k) => Holes(w, k)
      BY <1>3, <2>1 DEF Holes
    <3> QED BY <1>3, <1>4, <2>1, <3>1 DEF Numbered, InPlace, SameVerdict
  <2> QED BY <1>3, <1>7, <2>2, NoneToCome DEF Numbered
<1> QED BY <1>1, <1>5, <1>6, <1>7

\* Discarding leaves no more to the kernel than it had.
LEMMA DiscardPending ==
  ASSUME NEW n \in Nat, NEW u, Sound(u, n), NEW S, NEW v \in discard_urbs(u, S)
  PROVE  Pending(v) \subseteq Pending(u) /\ (Pending(u) = {} => v.got = u.got /\ v.sent = u.sent)
<1> DEFINE killed == S \cap Pending(u)
           dead == [u EXCEPT !.state = [i \in DOMAIN @ |-> IF i \in killed THEN "ENOENT" ELSE @[i]],
                             !.queue = @ \o FromLast(killed)]
           first == Min(Pending(u))
           late == [dead EXCEPT !.got[first] = 1, !.sent = @ + 1, !.buffer[first] = u.sent + 1]
<1>1. v = dead \/ (v = late /\ killed # {})
  BY DEF discard_urbs
<1>2. UrbType(u, n)
  BY DEF Sound
<1> HIDE DEF killed, first
<1>3. /\ dead.state = [i \in 1 .. n |-> IF i \in killed THEN "ENOENT" ELSE u.state[i]]
      /\ dead.got = u.got /\ dead.sent = u.sent /\ late.state = dead.state
  BY <1>2 DEF UrbType
<1> HIDE DEF dead, late
<1>4. Pending(v) \subseteq Pending(u)
  BY <1>1, <1>2, <1>3 DEF Pending, UrbType
<1>5. Pending(u) = {} => killed = {}
  BY DEF killed
<1> QED BY <1>1, <1>3, <1>4, <1>5

\* A cancellation moves the data so.
LEMMA CancelMoves ==
  ASSUME NEW n \in Nat, NEW u, Sound(u, n), NEW v \in op_cancel_transfer(u)
  PROVE  DataMoves(u, v)
<1>1. PICK w \in discard_urbs(u, DOMAIN u.state) :
        v = IF CancelFound(u) /\ w.reap_action # "ERROR" THEN [w EXCEPT !.reap_action = "CANCELLED"] ELSE w
  BY DEF op_cancel_transfer
<1>2. Pending(w) \subseteq Pending(u) /\ (Pending(u) = {} => w.got = u.got /\ w.sent = u.sent)
  BY <1>1, DiscardPending
<1>3. Sound(w, n) /\ SameVerdict(u, w)
  BY <1>1, DiscardSound
<1>4. v.state = w.state /\ v.got = w.got /\ v.sent = w.sent /\ v.reap_status = w.reap_status
  BY <1>1, <1>3 DEF Sound, UrbType
<1>5. Pending(v) = Pending(w)
  BY <1>4 DEF Pending
<1>6. Drained(u) /\ Unused(u) => Unused(v)
  BY <1>2, <1>3, <1>4 DEF Drained, Unused, SameVerdict
<1> QED BY <1>2, <1>5, <1>6, CancelData DEF DataMoves

\* The unit at the head of the queue is the next to be received.
LEMMA NextUnit ==
  ASSUME NEW n \in Nat, NEW u, UrbType(u, n), InQueue(u), u.queue # <<>>, u.got[u.queue[1]] = 1
  PROVE  /\ u.buffer[u.queue[1]] = u.transferred + 1 /\ u.transferred + 1 <= u.queue[1]
         /\ u.transferred + 1 <= u.sent
         /\ \A k \in DataAt(u) : k # 1 =>
              u.queue[1] < u.queue[k] /\ u.transferred + 1 < u.buffer[u.queue[k]]
<1>1. u.queue \in Seq(1 .. n) /\ Len(u.queue) \in Nat /\ u.transferred \in Nat /\ u.sent \in Nat
  BY DEF UrbType
<1>2. 1 \in DataAt(u)
  BY <1>1 DEF DataAt
<1>3. \A k \in DataAt(u) : u.queue[k] \in 1 .. n /\ u.buffer[u.queue[k]] \in Nat /\ k \in Nat /\ k >= 1
  <2>1. \A k \in DataAt(u) : k \in 1 .. Len(u.queue)
    BY DEF DataAt
  <2> QED BY <1>1, <2>1, ElementOfSeq DEF UrbType
<1>4. /\ u.transferred < u.buffer[u.queue[1]] /\ u.buffer[u.queue[1]] <= u.sent
      /\ u.buffer[u.queue[1]] <= u.queue[1]
  BY <1>2 DEF InQueue, Ahead
<1>5. \A k \in DataAt(u) : k # 1 => u.queue[1] < u.queue[k] /\ u.buffer[u.queue[1]] < u.buffer[u.queue[k]]
  BY <1>2, <1>3 DEF InQueue, Ascending
<1>6. u.transferred + 1 \in (u.transferred + 1) .. u.sent
  BY <1>1, <1>2, <1>3, <1>4
<1>7. PICK k \in DataAt(u) : u.buffer[u.queue[k]] = u.transferred + 1
  BY <1>6 DEF InQueue, AllThere
<1>8. u.buffer[u.queue[1]] = u.transferred + 1
  BY <1>1, <1>2, <1>3, <1>4, <1>5, <1>7
<1> QED BY <1>1, <1>2, <1>3, <1>4, <1>5, <1>8

\* The head of the queue is reaped: its unit is received where it lies, or moved
\* to where it belongs.
LEMMA ShiftedData ==
  ASSUME NEW n \in Nat, NEW u, UrbType(u, n), InQueue(u), ToCome(u), StopsData(u), Suffix(u), u.queue # <<>>,
         NEW y, UrbType(y, n), NEW i, i = u.queue[1],
         y.queue = Tail(u.queue), y.state = [u.state EXCEPT ![i] = "reaped"], y.got = u.got, y.sent = u.sent,
         y.transferred = u.transferred + u.got[i],
         \/ y.buffer = u.buffer /\ (u.got[i] = 1 => u.buffer[i] = i)
         \/ u.got[i] = 1 /\ y.buffer = [u.buffer EXCEPT ![u.transferred + 1] = u.buffer[i]]
  PROVE  /\ InQueue(y) /\ ToCome(y) /\ StopsData(y) /\ Suffix(y) /\ Pending(y) = Pending(u)
         /\ Len(y.queue) = Len(u.queue) - 1
         /\ \A k \in 1 .. Len(y.queue) : k + 1 \in 1 .. Len(u.queue) /\ y.queue[k] = u.queue[k + 1]
<1>1. /\ u.queue \in Seq(1 .. n) /\ Len(u.queue) \in Nat \ {0} /\ u.transferred \in Nat /\ u.sent \in Nat
      /\ i \in 1 .. n /\ u.got[i] \in 0 .. 1
  <2>1. u.queue \in Seq(1 .. n) /\ Len(u.queue) \in Nat \ {0} /\ u.transferred \in Nat /\ u.sent \in Nat
    BY DEF UrbType
  <2>2. i \in 1 .. n
    BY <2>1, ElementOfSeq
  <2> QED BY <2>1, <2>2 DEF UrbType
<1>2. /\ Len(y.queue) = Len(u.queue) - 1
      /\ \A k \in 1 .. Len(y.queue) : k + 1 \in 1 .. Len(u.queue) /\ y.queue[k] = u.queue[k + 1]
  BY <1>1
<1>3. Pending(y) = Pending(u) /\ Number(y) = Number(u)
  <2>1. i \notin Pending(u)
    <3>1. i \in Pending(u) => i < i
      BY <1>1 DEF ToCome
    <3> QED BY <1>1, <3>1
  <2>2. \A k \in 1 .. n : k # i => y.state[k] = u.state[k]
    BY DEF UrbType
  <2>3. y.state[i] = "reaped"
    BY <1>1 DEF UrbType
  <2>4. DOMAIN y.state = 1 .. n /\ DOMAIN u.state = 1 .. n
    BY DEF UrbType
  <2>5. Pending(y) = Pending(u)
    BY <2>1, <2>2, <2>3, <2>4 DEF Pending
  <2> QED BY <2>5, PendingFinite
<1>4. \A k \in 1 .. Len(y.queue) : k \in DataAt(y) <=> k + 1 \in DataAt(u)
  BY <1>2 DEF DataAt
<1>5. \A k \in DataAt(y) : k \in 1 .. Len(y.queue) /\ k + 1 \in DataAt(u) /\ k \in Nat /\ k + 1 # 1
  <2>1. \A k \in DataAt(y) : k \in 1 .. Len(y.queue)
    BY DEF DataAt
  <2> QED BY <1>1, <1>2, <1>4, <2>1
<1>6. \A k \in DataAt(u) : k \in 1 .. Len(u.queue) /\ (k # 1 => k - 1 \in DataAt(y) /\ (k - 1) + 1 = k)
  <2>1. \A k \in DataAt(u) : k \in 1 .. Len(u.queue)
    BY DEF DataAt
  <2>2. \A k \in DataAt(u) : k # 1 => k - 1 \in 1 .. Len(y.queue) /\ (k - 1) + 1 = k
    BY <1>1, <1>2, <2>1
  <2> QED BY <1>4, <2>1, <2>2
<1>7. \A k \in DataAt(u) : u.queue[k] \in 1 .. n /\ u.buffer[u.queue[k]] \in Nat
  BY <1>1, <1>6, ElementOfSeq DEF UrbType
<1> DEFINE received == y.transferred <= u.sent /\ \A w \in 1 .. y.transferred : y.buffer[w] = w
           others == \A k \in DataAt(u) : k # 1 =>
                       y.buffer[u.queue[k]] = u.buffer[u.queue[k]] /\ y.transferred < u.buffer[u.queue[k]]
           head == 1 \in DataAt(u) => u.buffer[u.queue[1]] <= y.transferred
<1>8. y.transferred \in Nat /\ u.transferred <= u.sent /\ \A w \in 1 .. u.transferred : u.buffer[w] = w
  BY DEF UrbType, InQueue, Received
<1>9. ASSUME u.got[i] = 0
      PROVE  received /\ others /\ head
  <2>1. y.buffer = u.buffer /\ y.transferred = u.transferred /\ 1 \notin DataAt(u)
    BY <1>1, <1>9 DEF DataAt
  <2> QED BY <1>8, <2>1 DEF InQueue, Ahead
<1>10. ASSUME u.got[i] = 1
       PROVE  received /\ others /\ head
  <2>1. /\ u.buffer[i] = u.transferred + 1 /\ u.transferred + 1 <= i /\ u.transferred + 1 <= u.sent
        /\ \A k \in DataAt(u) : k # 1 => i < u.queue[k] /\ u.transferred + 1 < u.buffer[u.queue[k]]
    BY <1>10, NextUnit
  <2>2. y.transferred = u.transferred + 1
    BY <1>1, <1>10
  <2>3. u.transferred + 1 \in 1 .. n
    BY <1>1, <2>1
  <2>4. /\ y.buffer[u.transferred + 1] = u.transferred + 1
        /\ \A w \in 1 .. n : w # u.transferred + 1 => y.buffer[w] = u.buffer[w]
    <3>1. CASE y.buffer = u.buffer /\ u.buffer[i] = i
      BY <2>1, <3>1
    <3>2. CASE y.buffer = [u.buffer EXCEPT ![u.transferred + 1] = u.buffer[i]]
      BY <2>1, <2>3, <3>2 DEF UrbType
    <3> QED BY <1>10, <3>1, <3>2
  <2>5. received
    <3>1. \A w \in 1 .. y.transferred : w = u.transferred + 1 \/ (w \in 1 .. u.transferred /\ w \in 1 .. n /\ w # u.transferred + 1)
      BY <1>1, <2>2, <2>3
    <3> QED BY <1>8, <2>1, <2>2, <2>4, <3>1
  <2>6. others
    <3>1. \A k \in DataAt(u) : k # 1 => u.queue[k] # u.transferred + 1
      BY <1>1, <1>7, <2>1
    <3> QED BY <1>7, <2>1, <2>2, <2>4, <3>1
  <2>7. head
    BY <1>1, <2>1, <2>2
  <2> QED BY <2>5, <2>6, <2>7
<1>11. received /\ others /\ head
  BY <1>1, <1>9, <1>10
<1> HIDE DEF received, others, head
<1>12. \A k \in DataAt(y) : y.queue[k] = u.queue[k + 1] /\ y.buffer[y.queue[k]] = u.buffer[u.queue[k + 1]]
  BY <1>2, <1>5, <1>11 DEF others
<1>13. Received(y)
  BY <1>11 DEF received, Received
<1>14. Ahead(y)
  BY <1>5, <1>11, <1>12 DEF others, InQueue, Ahead
<1>15. Ascending(y)
  <2> SUFFICES ASSUME NEW j \in DataAt(y), NEW k \in DataAt(y), j < k
               PROVE  y.queue[j] < y.queue[k] /\ y.buffer[y.queue[j]] < y.buffer[y.queue[k]]
    BY DEF Ascending
  <2>1. j + 1 \in DataAt(u) /\ k + 1 \in DataAt(u) /\ j + 1 < k + 1
    BY <1>5
  <2>2. u.queue[j + 1] < u.queue[k + 1] /\ u.buffer[u.queue[j + 1]] < u.buffer[u.queue[k + 1]]
    BY <2>1 DEF InQueue, Ascending
  <2> QED BY <1>12, <2>2
<1>16. AllThere(y)
  <2> SUFFICES ASSUME NEW w \in (y.transferred + 1) .. y.sent
               PROVE  \E k \in DataAt(y) : y.buffer[y.queue[k]] = w
    BY DEF AllThere
  <2>1. w \in (u.transferred + 1) .. u.sent
    BY <1>1, <1>8
  <2>2. PICK k \in DataAt(u) : u.buffer[u.queue[k]] = w
    BY <2>1 DEF InQueue, AllThere
  <2>3. k # 1
    BY <1>8, <1>11, <2>2 DEF head
  <2>4. k - 1 \in DataAt(y) /\ (k - 1) + 1 = k
    BY <1>6, <2>3
  <2> QED BY <1>12, <2>2, <2>4
<1>17. ToCome(y)
  BY <1>2, <1>3 DEF ToCome
<1>18. Suffix(y)
  BY <1>3 DEF Suffix
<1>19. StopsData(y)
  <2> SUFFICES ASSUME NEW j \in 1 .. Len(y.queue), y.state[y.queue[j]] \in {"EPIPE", "ESHUTDOWN"}
               PROVE  /\ \A k \in DataAt(y) : k <= j
                      /\ y.state[y.queue[j]] = "ESHUTDOWN" => Pending(y) = {}
    BY DEF StopsData
  <2>1. j + 1 \in 1 .. Len(u.queue) /\ y.queue[j] = u.queue[j + 1]
    BY <1>2
  <2>2. y.state[y.queue[j]] = u.state[u.queue[j + 1]]
    <3>1. u.queue[j + 1] \in 1 .. n
      BY <1>1, <2>1, ElementOfSeq
    <3> QED BY <1>1, <2>1, <3>1 DEF UrbType
  <2>3. /\ \A k \in DataAt(u) : k <= j + 1
        /\ u.state[u.queue[j + 1]] = "ESHUTDOWN" => Pending(u) = {}
    BY <2>1, <2>2 DEF StopsData
  <2>4. \A k \in DataAt(y) : k <= j
    <3>1. \A k \in DataAt(y) : k + 1 <= j + 1
      BY <1>5, <2>3
    <3> QED BY <1>5, <3>1
  <2> QED BY <1>3, <2>2, <2>3, <2>4
<1> QED BY <1>2, <1>3, <1>5, <1>12, <1>13, <1>14, <1>15, <1>16, <1>17, <1>18, <1>19 DEF InQueue

\* The verdict on the reaped URB, field by field: it concerns the data only where
\* it makes the transfer one that is no longer normal.
LEMMA JudgedData ==
  ASSUME NEW n \in Nat, NEW y, Sound(y, n), NEW i, NEW status
  PROVE  LET w == Judged(y, i, status)
         IN /\ w.state = y.state /\ w.got = y.got /\ w.queue = y.queue /\ w.sent = y.sent
            /\ w.buffer = y.buffer /\ w.transferred = y.transferred /\ w.num_retired = y.num_retired
            /\ w.reap_action = "NORMAL" =>
                 \/ status = "ESHUTDOWN"
                 \/ status = "EPIPE" /\ (y.reap_status = "COMPLETED" => w.reap_status = "STALL")
                 \/ /\ status \notin Failures \cup {"ESHUTDOWN"} /\ w = y
                    /\ y.num_retired >= Number(y) \/ y.got[i] # 0
<1> DEFINE w == Judged(y, i, status)
<1>1. UrbType(y, n)
  BY DEF Sound
<1>2. CASE status = "ESHUTDOWN"
  <2>1. w = [y EXCEPT !.reap_status = "NO_DEVICE"]
    BY <1>2 DEF Judged
  <2> HIDE DEF w
  <2>2. /\ w.state = y.state /\ w.got = y.got /\ w.queue = y.queue /\ w.sent = y.sent
        /\ w.buffer = y.buffer /\ w.transferred = y.transferred /\ w.num_retired = y.num_retired
    BY <1>1, <2>1 DEF UrbType
  <2> QED BY <1>2, <2>2 DEF w
<1>3. CASE status = "EPIPE"
  <2>1. w = [y EXCEPT !.reap_status = IF @ = "COMPLETED" THEN "STALL" ELSE @]
    BY <1>3 DEF Judged
  <2> HIDE DEF w
  <2>2. /\ w.state = y.state /\ w.got = y.got /\ w.queue = y.queue /\ w.sent = y.sent
        /\ w.buffer = y.buffer /\ w.transferred = y.transferred /\ w.num_retired = y.num_retired
        /\ y.reap_status = "COMPLETED" => w.reap_status = "STALL"
    BY <1>1, <2>1 DEF UrbType
  <2> QED BY <1>3, <2>2 DEF w
<1>4. CASE status = "EPROTO"
  <2>1. w = [y EXCEPT !.reap_action = "ERROR", !.reap_status = IF @ = "COMPLETED" THEN "ERROR" ELSE @]
    BY <1>4 DEF Judged
  <2> HIDE DEF w
  <2>2. /\ w.state = y.state /\ w.got = y.got /\ w.queue = y.queue /\ w.sent = y.sent
        /\ w.buffer = y.buffer /\ w.transferred = y.transferred /\ w.num_retired = y.num_retired
        /\ w.reap_action = "ERROR"
    BY <1>1, <2>1 DEF UrbType
  <2> QED BY <2>2 DEF w
<1>5. CASE status \notin Failures \cup {"ESHUTDOWN"} /\ y.num_retired < Number(y) /\ y.got[i] = 0
  <2>1. w = [y EXCEPT !.reap_action = "COMPLETED_EARLY"]
    BY <1>5 DEF Judged, Failures
  <2> HIDE DEF w
  <2>2. /\ w.state = y.state /\ w.got = y.got /\ w.queue = y.queue /\ w.sent = y.sent
        /\ w.buffer = y.buffer /\ w.transferred = y.transferred /\ w.num_retired = y.num_retired
        /\ w.reap_action = "COMPLETED_EARLY"
    BY <1>1, <2>1 DEF UrbType
  <2> QED BY <2>2 DEF w
<1>6. CASE status \notin Failures \cup {"ESHUTDOWN"} /\ ~(y.num_retired < Number(y) /\ y.got[i] = 0)
  <2>1. w = y
    BY <1>6 DEF Judged, Failures
  <2>2. y.num_retired \in Nat /\ Number(y) \in Nat
    BY <1>1, PendingFinite DEF UrbType
  <2>3. y.num_retired < Number(y) \/ y.num_retired >= Number(y)
    BY <2>2
  <2>4. y.num_retired >= Number(y) \/ y.got[i] # 0
    BY <1>6, <2>3
  <2> QED BY <1>6, <2>1, <2>4
<1> QED BY <1>2, <1>3, <1>4, <1>5, <1>6 DEF Failures

\* Reaping an URB.
LEMMA CompletionData ==
  ASSUME NEW n \in Nat, NEW u, Sound(u, n), u.queue # <<>>, NEW x \in handle_bulk_completion(u), Numbered(u)
  PROVE  Numbered(x)
<1> DEFINE i == Head(u.queue)
           status == u.state[i]
           v == Reaped(u, i)
           y == [v EXCEPT !.transferred = @ + u.got[i]]
           w == Judged(y, i, status)
           last == v.num_retired = Number(u)
<1>1. UrbType(u, n) /\ InQueue(u) /\ ToCome(u) /\ StopsData(u) /\ Suffix(u) /\ u.queue \in Seq(1 .. n) /\ Number(u) = n
  BY PendingFinite DEF Sound, Numbered, UrbType
<1>2. /\ i \in 1 .. n /\ i = u.queue[1] /\ 1 \in 1 .. Len(u.queue) /\ u.got[i] \in 0 .. 1
      /\ UrbType(v, n) /\ v.got = u.got /\ v.transferred + u.got[i] <= v.num_retired
      /\ v.num_retired + Len(v.queue) + Cardinality(Pending(v)) <= n
      /\ v.reap_action = u.reap_action /\ v.reap_status = u.reap_status
  <2>1. i = u.queue[1] /\ 1 \in 1 .. Len(u.queue)
    BY <1>1
  <2> HIDE DEF i
  <2>2. /\ i \in 1 .. n /\ UrbType(v, n) /\ v.got = u.got /\ v.transferred + u.got[i] <= v.num_retired
        /\ v.num_retired + Len(v.queue) + Cardinality(Pending(v)) <= n
        /\ v.reap_action = u.reap_action /\ v.reap_status = u.reap_status
    BY ReapedSound DEF i
  <2> QED BY <1>1, <2>1, <2>2 DEF UrbType
<1> HIDE DEF i
<1>3. /\ v.state = [u.state EXCEPT ![i] = "reaped"] /\ v.queue = Tail(u.queue)
      /\ v.sent = u.sent /\ v.buffer = u.buffer /\ v.transferred = u.transferred
  BY <1>1 DEF Reaped, UrbType
<1>4. Sound(x, n)
  BY CompletionSound
<1>5. CASE u.reap_action # "NORMAL"
  <2> DEFINE s == Surplus(v, i)
             r == IF last /\ u.reap_action # "COMPLETED_EARLY" /\ s.reap_status = "COMPLETED" THEN "ERROR" ELSE s.reap_status
  <2>1. x = [s EXCEPT !.reap_status = r]
    BY <1>5 DEF handle_bulk_completion, i
  <2> HIDE DEF v, r
  <2>2. /\ s.state = v.state /\ s.got = v.got /\ s.queue = v.queue /\ s.sent = v.sent
        /\ s.transferred = v.transferred + v.got[i] /\ s.reap_action = v.reap_action
        /\ \/ v.got[i] = 0 /\ s.buffer = v.buffer
           \/ v.got[i] = 1 /\ s.buffer = [v.buffer EXCEPT ![v.transferred + 1] = v.buffer[i]]
        /\ DOMAIN s = DOMAIN v
    <3>1. CASE v.got[i] = 0
      <4>1. s = v
        BY <3>1 DEF Surplus
      <4> QED BY <1>2, <3>1, <4>1 DEF UrbType
    <3>2. CASE v.got[i] = 1
      <4>1. s = [v EXCEPT !.buffer[v.transferred + 1] = v.buffer[i], !.transferred = @ + 1]
        BY <3>2 DEF Surplus
      <4> HIDE DEF s
      <4> QED BY <1>2, <3>2, <4>1 DEF UrbType
    <3> QED BY <1>2, <3>1, <3>2
  <2> HIDE DEF s
  <2>3. /\ x.state = s.state /\ x.got = s.got /\ x.queue = s.queue /\ x.sent = s.sent
        /\ x.transferred = s.transferred /\ x.reap_action = s.reap_action /\ x.buffer = s.buffer
    BY <1>2, <2>1, <2>2 DEF UrbType
  <2>4. /\ x.state = [u.state EXCEPT ![i] = "reaped"] /\ x.queue = Tail(u.queue) /\ x.got = u.got /\ x.sent = u.sent
        /\ x.transferred = u.transferred + u.got[i]
        /\ \/ x.buffer = u.buffer /\ (u.got[i] = 1 => u.buffer[i] = i)
           \/ u.got[i] = 1 /\ x.buffer = [u.buffer EXCEPT ![u.transferred + 1] = u.buffer[i]]
    BY <1>2, <1>3, <2>2, <2>3
  <2>5. InQueue(x) /\ ToCome(x) /\ StopsData(x) /\ Suffix(x)
    <3>1. UrbType(x, n) /\ n \in Nat
      BY <1>4 DEF Sound
    <3>2. i = u.queue[1] /\ u.queue # <<>>
      BY <1>2
    <3>3. /\ UrbType(u, n) /\ InQueue(u) /\ ToCome(u) /\ StopsData(u) /\ Suffix(u)
      BY <1>1
    <3> HIDE DEF status, y, w, last
    <3> QED BY ONLY <2>4, <3>1, <3>2, <3>3, ShiftedData
  <2> QED BY <1>2, <1>5, <2>2, <2>3, <2>5 DEF Numbered, InPlace
<1>6. CASE u.reap_action = "NORMAL"
  <2>1. \/ x = w /\ (last \/ (status \notin Failures \cup {"ESHUTDOWN"} /\ u.got[i] = 1))
        \/ /\ x \in discard_urbs(w, (i + 1) .. Number(u)) /\ ~last
           /\ ~(status \notin Failures \cup {"ESHUTDOWN"} /\ u.got[i] = 1)
    BY <1>6 DEF handle_bulk_completion, i
  <2> HIDE DEF v, status, last
  <2>2. /\ UrbType(y, n) /\ y.state = v.state /\ y.queue = v.queue /\ y.num_retired = v.num_retired
        /\ y.got = u.got /\ y.sent = v.sent /\ y.buffer = v.buffer
        /\ y.transferred = u.transferred + u.got[i] /\ y.reap_action = "NORMAL" /\ y.reap_status = u.reap_status
    <3>1. y = [v EXCEPT !.transferred = u.transferred + u.got[i]]
      BY <1>2, <1>3 DEF UrbType
    <3>2. u.transferred + u.got[i] \in Nat
      <4>1. u.transferred \in Nat
        BY <1>1 DEF UrbType
      <4> QED BY <1>2, <4>1
    <3> HIDE DEF y
    <3>3. /\ DOMAIN y = DOMAIN v /\ y.state = v.state /\ y.queue = v.queue /\ y.num_retired = v.num_retired
          /\ y.got = v.got /\ y.sent = v.sent /\ y.buffer = v.buffer /\ y.reap_action = v.reap_action
          /\ y.reap_status = v.reap_status /\ y.transferred = u.transferred + u.got[i]
      BY <1>2, <3>1 DEF UrbType
    <3>4. UrbType(y, n)
      BY <1>2, <3>1, <3>2 DEF UrbType
    <3> QED BY <1>2, <1>3, <1>6, <3>3, <3>4
  <2> HIDE DEF y
  <2>3. Number(y) = n /\ Sound(y, n)
    <3>1. Number(y) = n /\ Pending(y) = Pending(v)
      BY <2>2, PendingFinite DEF Pending
    <3> QED BY <1>2, <1>3, <2>2, <3>1 DEF Sound, Counted
  <2>4. u.got[i] = 1 => u.buffer[i] = i
    <3>1. 1 \in DataAt(u) \/ u.got[i] # 1
      BY <1>2 DEF DataAt
    <3>2. Holes(u, 1) => u.got[i] = 0
      BY <1>2 DEF Holes
    <3> QED BY <1>2, <1>6, <3>1, <3>2 DEF Numbered, InPlace
  <2>5. /\ InQueue(y) /\ ToCome(y) /\ StopsData(y) /\ Suffix(y) /\ Pending(y) = Pending(u)
        /\ Len(y.queue) = Len(u.queue) - 1
        /\ \A k \in 1 .. Len(y.queue) : k + 1 \in 1 .. Len(u.queue) /\ y.queue[k] = u.queue[k + 1]
        /\ \A k \in DataAt(y) : k + 1 \in DataAt(u) /\ y.buffer[y.queue[k]] = u.buffer[u.queue[k + 1]]
    <3>1. i = u.queue[1] /\ u.queue # <<>>
      BY <1>2
    <3>2. /\ UrbType(u, n) /\ InQueue(u) /\ ToCome(u) /\ StopsData(u) /\ Suffix(u)
      BY <1>1
    <3>3. /\ UrbType(y, n) /\ y.queue = Tail(u.queue) /\ y.state = [u.state EXCEPT ![i] = "reaped"]
          /\ y.got = u.got /\ y.sent = u.sent /\ y.transferred = u.transferred + u.got[i]
      BY <1>3, <2>2
    <3>4. \/ y.buffer = u.buffer /\ (u.got[i] = 1 => u.buffer[i] = i)
          \/ u.got[i] = 1 /\ y.buffer = [u.buffer EXCEPT ![u.transferred + 1] = u.buffer[i]]
      BY <1>3, <2>2, <2>4
    <3>5. InQueue(y) /\ ToCome(y) /\ StopsData(y) /\ Suffix(y) /\ Pending(y) = Pending(u)
      BY ONLY <3>1, <3>2, <3>3, <3>4, n \in Nat, ShiftedData
    <3>6. Len(y.queue) = Len(u.queue) - 1
      BY ONLY <3>1, <3>2, <3>3, <3>4, n \in Nat, ShiftedData
    <3>7. \A k \in 1 .. Len(y.queue) : k + 1 \in 1 .. Len(u.queue) /\ y.queue[k] = u.queue[k + 1]
      BY ONLY <3>1, <3>2, <3>3, <3>4, n \in Nat, ShiftedData
    <3>8. \A k \in DataAt(y) : k + 1 \in DataAt(u) /\ y.buffer[y.queue[k]] = u.buffer[u.queue[k + 1]]
      BY <1>3, <2>2, <3>7 DEF DataAt
    <3> QED BY ONLY <3>5, <3>6, <3>7, <3>8
  <2>6. /\ w.state = y.state /\ w.got = y.got /\ w.queue = y.queue /\ w.sent = y.sent
        /\ w.buffer = y.buffer /\ w.transferred = y.transferred /\ w.num_retired = y.num_retired
        /\ w.reap_action = "NORMAL" =>
                 \/ status = "ESHUTDOWN"
                 \/ status = "EPIPE" /\ (y.reap_status = "COMPLETED" => w.reap_status = "STALL")
                 \/ /\ status \notin Failures \cup {"ESHUTDOWN"} /\ w = y
                    /\ y.num_retired >= Number(y) \/ y.got[i] # 0
    BY <2>3, JudgedData
  <2>7. Sound(w, n)
    BY <2>3, JudgedSound
  <2> HIDE DEF w
  <2>8. InQueue(w) /\ ToCome(w) /\ StopsData(w) /\ Suffix(w) /\ DataAt(w) = DataAt(y) /\ Pending(w) = Pending(u)
        /\ Number(w) = n
    BY <2>3, <2>5, <2>6, SameData
  <2>9. CASE x = w /\ last
    <3>1. AllRetired(w)
      BY <1>1, <2>2, <2>6, <2>8, <2>9 DEF AllRetired, last
    <3>2. Drained(w)
      BY <2>7, <3>1, AllRetiredDrained
    <3>3. DataAt(w) = {}
      BY <3>2 DEF DataAt, Drained
    <3>4. InPlace(w)
      BY <3>2, <3>3 DEF InPlace, Drained
    <3> QED BY <2>8, <2>9, <3>4 DEF Numbered
  <2>10. CASE x = w /\ status \notin Failures \cup {"ESHUTDOWN"} /\ u.got[i] = 1
    <3>1. InPlace(w)
      <4> SUFFICES ASSUME w.reap_action = "NORMAL"
                   PROVE  /\ w.reap_status # "COMPLETED" => DataAt(w) = {} /\ Pending(w) = {}
                          /\ \A k \in DataAt(w) : w.buffer[w.queue[k]] = w.queue[k] \/ Holes(w, k)
                          /\ \A p \in Pending(w) :
                               (\A q \in Pending(w) : p <= q) => p = w.sent + 1 \/ Holes(w, Len(w.queue))
        BY DEF InPlace
      <4>1. w = y
        BY <2>6, <2>10 DEF Failures
      <4>2. /\ u.reap_status # "COMPLETED" => DataAt(u) = {} /\ Pending(u) = {}
            /\ \A k \in DataAt(u) : u.buffer[u.queue[k]] = u.queue[k] \/ Holes(u, k)
            /\ \A p \in Pending(u) :
                 (\A q \in Pending(u) : p <= q) => p = u.sent + 1 \/ Holes(u, Len(u.queue))
        BY <1>6 DEF Numbered, InPlace
      <4>3. 1 \in DataAt(u)
        BY <1>2, <2>10 DEF DataAt
      <4>4. ASSUME NEW k \in Nat, k <= Len(y.queue), Holes(u, k + 1)
            PROVE  Holes(y, k)
        <5>1. PICK j \in 1 .. k + 1 : u.got[u.queue[j]] = 0
          BY <4>4 DEF Holes
        <5>2. j # 1
          BY <1>2, <2>10, <5>1
        <5>3. Len(y.queue) \in Nat
          BY <2>2 DEF UrbType
        <5>4. j - 1 \in 1 .. k /\ j - 1 \in 1 .. Len(y.queue) /\ (j - 1) + 1 = j
          BY <4>4, <5>2, <5>3
        <5>5. y.got[y.queue[j - 1]] = 0
          BY <2>2, <2>5, <5>1, <5>4
        <5> QED BY <5>4, <5>5 DEF Holes
      <4>5. Len(u.queue) \in Nat /\ Len(y.queue) \in Nat /\ Len(y.queue) + 1 = Len(u.queue)
        BY <1>1, <1>2, <2>5
      <4>6. ASSUME NEW k \in DataAt(y)
            PROVE  y.buffer[y.queue[k]] = y.queue[k] \/ Holes(y, k)
        <5>1. k \in 1 .. Len(y.queue)
          BY DEF DataAt
        <5>2. k \in Nat /\ k <= Len(y.queue)
          BY <4>5, <5>1
        <5> QED BY <2>5, <4>2, <4>4, <5>1, <5>2
      <4>7. Holes(u, Len(u.queue)) => Holes(y, Len(y.queue))
        BY <4>4, <4>5
      <4>8. /\ y.reap_status = u.reap_status /\ y.sent = u.sent /\ Pending(y) = Pending(u)
        BY <1>3, <2>2, <2>5
      <4>9. y.reap_status # "COMPLETED" => DataAt(y) = {} /\ Pending(y) = {}
        BY ONLY <4>2, <4>3, <4>8
      <4>10. \A p \in Pending(y) :
               (\A q \in Pending(y) : p <= q) => p = y.sent + 1 \/ Holes(y, Len(y.queue))
        BY ONLY <4>2, <4>7, <4>8
      <4> QED BY ONLY <4>1, <4>6, <4>9, <4>10
    <3> QED BY <2>8, <2>10, <3>1 DEF Numbered
  <2>11. CASE x \in discard_urbs(w, (i + 1) .. Number(u)) /\ ~last
                 /\ ~(status \notin Failures \cup {"ESHUTDOWN"} /\ u.got[i] = 1)
    <3>1. Pending(w) \subseteq (i + 1) .. Number(u)
      <4>1. \A p \in Pending(u) : p \in 1 .. n /\ i < p
        BY <1>1, <1>2, PendingFinite DEF ToCome
      <4> QED BY <1>1, <1>2, <2>8, <4>1
    <3>2. InQueue(x) /\ StopsData(x) /\ Pending(x) = {} /\ (Halted(w) \/ Pending(w) = {} => DataAt(x) = DataAt(w))
      <4>1. InQueue(w) /\ ToCome(w) /\ StopsData(w)
        BY <2>8
      <4>2. x \in discard_urbs(w, (i + 1) .. Number(u))
        BY <2>11
      <4> QED BY ONLY n \in Nat, <2>7, <3>1, <4>1, <4>2, DiscardData
    <3>3. SameVerdict(w, x)
      BY <2>7, <2>11, DiscardSound
    <3>4. ASSUME w.reap_action = "NORMAL"
          PROVE  DataAt(x) = {}
      <4>1. status \in {"ESHUTDOWN", "EPIPE"} /\ (status = "EPIPE" => (y.reap_status = "COMPLETED" => w.reap_status = "STALL"))
        <5>1. ~(y.num_retired >= Number(y) \/ y.got[i] # 0) \/ status \in Failures \cup {"ESHUTDOWN"}
          <6>1. y.num_retired # Number(y) /\ y.num_retired <= Number(y)
            <7>1. y.num_retired + Len(y.queue) + Cardinality(Pending(y)) <= Number(y)
              BY <2>3 DEF Sound, Counted
            <7>2. y.num_retired \in Nat /\ Len(y.queue) \in Nat /\ Cardinality(Pending(y)) \in Nat
              BY <2>2, PendingFinite DEF UrbType
            <7> QED BY <1>1, <2>2, <2>3, <2>11, <7>1, <7>2 DEF last
          <6>2. ~(y.num_retired >= Number(y))
            <7>1. y.num_retired \in Nat /\ Number(y) \in Nat
              BY <2>2, <2>3 DEF UrbType
            <7> QED BY <6>1, <7>1
          <6>3. CASE status \in Failures \cup {"ESHUTDOWN"}
            BY <6>3
          <6>4. CASE u.got[i] # 1
            <7>1. y.got[i] = 0
              BY <1>2, <2>2, <6>4
            <7> QED BY <6>2, <7>1
          <6> QED BY <2>11, <6>3, <6>4
        <5> QED BY <2>6, <3>4, <5>1
      <4>2. DataAt(w) = {}
        <5>1. \A k \in DataAt(u) : k <= 1
          BY <1>1, <1>2, <4>1 DEF StopsData, status
        <5>2. \A k \in DataAt(y) : k \in 1 .. Len(y.queue) /\ k + 1 <= 1
          BY <2>5, <5>1 DEF DataAt
        <5>3. Len(y.queue) \in Nat
          BY <2>2 DEF UrbType
        <5> QED BY <2>8, <5>2, <5>3
      <4>3. Halted(w) \/ Pending(w) = {}
        <5>1. status = "ESHUTDOWN" => Pending(w) = {}
          BY <1>1, <1>2, <2>8 DEF StopsData, status
        <5>2. y.reap_status # "COMPLETED" => Pending(w) = {}
          BY <1>6, <2>2, <2>8 DEF Numbered, InPlace
        <5> QED BY <4>1, <5>1, <5>2 DEF Halted
      <4> QED BY <3>2, <4>2, <4>3
    <3>5. InPlace(x)
      BY <3>2, <3>3, <3>4 DEF InPlace, SameVerdict
    <3> QED BY <3>2, <3>5, NoneToCome DEF Numbered
  <2> QED BY ONLY <2>1, <2>9, <2>10, <2>11
<1> QED BY <1>5, <1>6

\* Reaping gives the kernel nothing back.
LEMMA CompletionMoves ==
  ASSUME NEW n \in Nat, NEW u, Sound(u, n), u.queue # <<>>, NEW x \in handle_bulk_completion(u)
  PROVE  DataMoves(u, x)
<1> DEFINE i == Head(u.queue)
           status == u.state[i]
           v == Reaped(u, i)
           y == [v EXCEPT !.transferred = @ + u.got[i]]
           w == Judged(y, i, status)
<1>1. UrbType(u, n) /\ i \in 1 .. n /\ UrbType(v, n) /\ v.got = u.got /\ u.got[i] \in 0 .. 1
      /\ v.num_retired + Len(v.queue) + Cardinality(Pending(v)) <= n
      /\ v.transferred + u.got[i] <= v.num_retired
      /\ v.reap_action = u.reap_action
  <2>1. i \in 1 .. n /\ UrbType(v, n) /\ v.got = u.got /\ v.reap_action = u.reap_action
        /\ v.num_retired + Len(v.queue) + Cardinality(Pending(v)) <= n
        /\ v.transferred + u.got[i] <= v.num_retired
    BY ReapedSound
  <2> QED BY <2>1 DEF Sound, UrbType
<1> HIDE DEF i
<1>2. Pending(v) \subseteq Pending(u)
  <2>1. v.state = [u.state EXCEPT ![i] = "reaped"]
    BY <1>1 DEF Reaped, UrbType
  <2> HIDE DEF v
  <2> QED BY <1>1, <2>1 DEF Pending, UrbType
<1>3. CASE u.reap_action # "NORMAL"
  <2>1. PICK r : x = [Surplus(v, i) EXCEPT !.reap_status = r]
    BY <1>3 DEF handle_bulk_completion, i
  <2> HIDE DEF v
  <2>2. x.state = v.state
    <3>1. CASE v.got[i] = 0
      BY <1>1, <2>1, <3>1 DEF Surplus, UrbType
    <3>2. CASE v.got[i] # 0
      <4>1. Surplus(v, i) = [v EXCEPT !.buffer[v.transferred + 1] = v.buffer[i], !.transferred = @ + 1]
        BY <3>2 DEF Surplus
      <4> QED BY <1>1, <2>1, <4>1 DEF UrbType
    <3> QED BY <3>1, <3>2
  <2> QED BY <1>2, <2>2, CompletionData DEF DataMoves, Pending, Drained
<1>4. CASE u.reap_action = "NORMAL"
  <2>1. x = w \/ x \in discard_urbs(w, (i + 1) .. Number(u))
    BY <1>4 DEF handle_bulk_completion, i
  <2> HIDE DEF v
  <2>2. UrbType(y, n) /\ y.state = v.state /\ y.queue = v.queue /\ y.num_retired = v.num_retired
        /\ y.transferred = v.transferred + u.got[i]
    <3>1. v.transferred \in Nat
      BY <1>1 DEF UrbType
    <3>2. v.transferred + u.got[i] \in Nat
      BY <1>1, <3>1
    <3>3. y = [v EXCEPT !.transferred = v.transferred + u.got[i]] /\ DOMAIN y = DOMAIN v
      OBVIOUS
    <3> HIDE DEF y
    <3>4. /\ y.state = v.state /\ y.queue = v.queue /\ y.num_retired = v.num_retired /\ y.got = v.got
          /\ y.sent = v.sent /\ y.buffer = v.buffer /\ y.reap_action = v.reap_action
          /\ y.reap_status = v.reap_status /\ y.transferred = v.transferred + u.got[i]
      BY <1>1, <3>3 DEF UrbType
    <3> QED BY <1>1, <3>2, <3>3, <3>4 DEF UrbType
  <2> HIDE DEF y
  <2>3. Sound(y, n)
    <3>1. Number(y) = n /\ Pending(y) = Pending(v)
      BY <2>2, PendingFinite DEF Pending
    <3> QED BY <1>1, <2>2, <3>1 DEF Sound, Counted
  <2>4. Sound(w, n) /\ w.state = y.state
    BY <2>3, JudgedSound, JudgedData
  <2> HIDE DEF w
  <2>5. Pending(w) \subseteq Pending(u)
    BY <1>2, <2>2, <2>4 DEF Pending
  <2>6. Pending(x) \subseteq Pending(w)
    BY <2>1, <2>4, DiscardPending
  <2> QED BY <2>5, <2>6, CompletionData DEF DataMoves, Drained
<1>5. u.reap_action # "NORMAL" \/ u.reap_action = "NORMAL"
  OBVIOUS
<1> QED BY <1>3, <1>4, <1>5
=============================================================================
