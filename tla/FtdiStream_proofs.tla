--------------------------- MODULE FtdiStream_proofs ---------------------------
(***************************************************************************)
(* What holds of the data calls and the stream of libftdi for every packet *)
(* size, chunk size, number of transfers, calls and mishaps.               *)
(*                                                                         *)
(* Bytes are numbered as they are sent, so everything that lies between    *)
(* the device and the program is an interval of numbers: what the program  *)
(* has, what its call has gathered, what the read buffer keeps and what    *)
(* the transfers hold follow one another.                                  *)
(***************************************************************************)
EXTENDS FtdiStream, SequenceTheorems, WellFoundedInduction, TLAPS

Hows == {"none", "sync", "async"}
Statuses == {"COMPLETED", "TIMED_OUT", "ERROR", "CANCELLED", "NO_DEVICE"}

Control ==
  [how : Hows, size : Nat, offset : Nat, buf : Seq(Nat), completed : BOOLEAN,
   transfer : BOOLEAN, status : Statuses]
Transfer ==
  [state : {"none", "pending", "cancelled", "over"}, first : Nat, length : Nat, status : Statuses]
Call == [name : {"idle", "bulk", "done", "cancel", "stream", "over"}, dir : Dirs]

Types ==
  /\ call \in Call
  /\ tc \in [Dirs -> Control] /\ transfer \in [Dirs -> Transfer]
  /\ sent \in Nat /\ given \in Nat /\ calls \in Nat /\ mishaps \in Nat
  /\ gone \in BOOLEAN /\ dropped \in [Dirs -> BOOLEAN]
  /\ received \in Seq(Nat) /\ device_got \in Seq(Nat)
  /\ readbuffer \in [1 .. ReadChunk -> Nat]
  /\ readbuffer_offset \in Nat /\ readbuffer_remaining \in Nat
  /\ readbuffer_offset + readbuffer_remaining <= ReadChunk
  /\ stream \in [transfers : Seq(Transfer), result : {"none", "error", "quiet"},
                 activity : BOOLEAN, stop : BOOLEAN, timeout : Nat]

\* A call of the direction is under way exactly when something belongs to it.
Calling(d) ==
  /\ tc[d].how = "none" => tc[d] = NoControl /\ transfer[d] = NoTransfer
  /\ tc[d].how = "sync" <=> Waits("bulk", d)
  /\ tc[d].completed => transfer[d] = NoTransfer
  /\ transfer[d].state # "none" => ~tc[d].completed
  /\ tc[d].offset <= tc[d].size

\* The stream is the last call.
Streaming ==
  /\ call.name \in {"stream", "over"} => \A d \in Dirs : tc[d].how = "none"
  /\ stream.transfers # <<>> => call.name \in {"stream", "over"}

\* Numbers from 1 to top, each greater than those before it.
Rising(s, top) ==
  /\ Increasing(s)
  /\ \A k \in DOMAIN s : s[k] \in 1 .. top

-----------------------------------------------------------------------------
(***************************************************************************)
(* Writing.                                                                *)
(***************************************************************************)
Arrived == given + tc["out"].offset + (IF Over("out") THEN transfer["out"].length ELSE 0)

Written ==
  LET t == tc["out"]
      x == transfer["out"]
  IN /\ x.state # "none" => x.first = given + t.offset + 1 /\ t.offset + x.length <= t.size
     /\ Rising(device_got, Arrived)
     /\ ~dropped["out"] => device_got = Interval(0, Arrived)

-----------------------------------------------------------------------------
(***************************************************************************)
(* Reading.                                                                *)
(***************************************************************************)
\* The lengths transfers end with: no packet is cut after its first byte.
Whole(n) == n \in 0 .. ReadChunk /\ n % PacketSize # 1

\* The number of payload bytes a transfer brings, which come after byte a.
Brought(x) == IF x.state = "over" THEN Data(x.length) ELSE 0
After(x, a) ==
  /\ x.state = "over" => Whole(x.length)
  /\ Brought(x) > 0 => x.first = a + 1

\* The transfers of the stream bring the bytes after d, up to the last one sent:
\* those that are over come first, and at the others all of it is accounted for.
Chains(xs, d, top) ==
  \E pos \in [0 .. Len(xs) -> 0 .. top] :
    /\ pos[0] = d /\ pos[Len(xs)] = top
    /\ \A k \in 1 .. Len(xs) :
         /\ xs[k].state \in {"pending", "over"}
         /\ After(xs[k], pos[k - 1]) /\ pos[k] = pos[k - 1] + Brought(xs[k])
         /\ xs[k].state # "over" => pos[k - 1] = top

\* What the device sent, in its order: what the program has, what its call has
\* gathered, what the read buffer keeps, what the transfer of the call and those
\* of the stream hold. Only before what was gathered may something be missing.
Flow(has, lost, gathered, kept, x, xs, top) ==
  \E a \in 0 .. top :
    LET b == a + Len(gathered)
        c == b + Len(kept)
    IN /\ Rising(has, a) /\ (~lost => has = Interval(0, a))
       /\ gathered = Interval(a, b) /\ kept = Interval(b, c)
       /\ After(x, c) /\ Chains(xs, c + Brought(x), top)

\* A transfer in flight finds the read buffer empty, and so does the stream.
ReadsFresh ==
  /\ transfer["in"].state # "none" \/ call.name \in {"stream", "over"} =>
       readbuffer_offset = 0 /\ readbuffer_remaining = 0
  /\ tc["in"].offset = Len(tc["in"].buf)

Read ==
  /\ ReadsFresh
  /\ Flow(received, dropped["in"], tc["in"].buf, Buffered(readbuffer_remaining), transfer["in"],
          stream.transfers, sent)

IInv == Types /\ (\A d \in Dirs : Calling(d)) /\ Streaming /\ Written /\ Read

-----------------------------------------------------------------------------
(***************************************************************************)
(* Intervals.                                                              *)
(***************************************************************************)
LEMMA IntervalIs ==
  ASSUME NEW a \in Nat, NEW b \in Nat, a <= b
  PROVE  /\ Interval(a, b) \in Seq(Nat) /\ Len(Interval(a, b)) = b - a
         /\ DOMAIN Interval(a, b) = 1 .. (b - a)
         /\ \A k \in 1 .. (b - a) : Interval(a, b)[k] = a + k
<1>1. b - a \in Nat
  OBVIOUS
<1>2. Interval(a, b) \in [1 .. (b - a) -> Nat]
  BY <1>1 DEF Interval
<1>3. Interval(a, b) \in Seq(Nat)
  BY ONLY <1>1, <1>2
<1> QED BY <1>1, <1>2, <1>3 DEF Interval

LEMMA IntervalEmpty ==
  ASSUME NEW a \in Nat
  PROVE  Interval(a, a) = <<>>
<1>1. Interval(a, a) \in Seq(Nat) /\ Len(Interval(a, a)) = 0
  BY IntervalIs
<1> QED BY <1>1

LEMMA SameSequence ==
  ASSUME NEW s \in Seq(Nat), NEW t \in Seq(Nat), Len(s) = Len(t), \A k \in 1 .. Len(s) : s[k] = t[k]
  PROVE  s = t
  OBVIOUS

LEMMA PartIs ==
  ASSUME NEW b \in Seq(Nat), NEW m \in Nat, NEW n \in Nat, m <= n, n <= Len(b)
  PROVE  /\ SubSeq(b, m + 1, n) \in Seq(Nat) /\ Len(SubSeq(b, m + 1, n)) = n - m
         /\ \A k \in 1 .. n - m : SubSeq(b, m + 1, n)[k] = b[m + k]
<1>1. PICK i \in 1 .. Len(b) + 1 : i = m + 1
  OBVIOUS
<1>2. n \in i - 1 .. Len(b) /\ n - i + 1 = n - m
  BY <1>1
<1>3. /\ SubSeq(b, i, n) \in Seq(Nat) /\ Len(SubSeq(b, i, n)) = n - i + 1
      /\ \A k \in 1 .. n - i + 1 : SubSeq(b, i, n)[k] = b[i + k - 1]
  BY <1>2, SubSeqProperties
<1>4. \A k \in 1 .. n - m : i + k - 1 = m + k
  BY <1>1
<1> QED BY <1>1, <1>2, <1>3, <1>4

LEMMA IntervalJoin ==
  ASSUME NEW a \in Nat, NEW b \in Nat, NEW c \in Nat, a <= b, b <= c
  PROVE  Interval(a, b) \o Interval(b, c) = Interval(a, c)
<1> DEFINE s == Interval(a, b)
           t == Interval(b, c)
           u == Interval(a, c)
<1>1. /\ s \in Seq(Nat) /\ t \in Seq(Nat) /\ u \in Seq(Nat)
      /\ Len(s) = b - a /\ Len(t) = c - b /\ Len(u) = c - a
      /\ \A k \in 1 .. (b - a) : s[k] = a + k
      /\ \A k \in 1 .. (c - b) : t[k] = b + k
      /\ \A k \in 1 .. (c - a) : u[k] = a + k
  <2>1. /\ s \in Seq(Nat) /\ Len(s) = b - a /\ \A k \in 1 .. (b - a) : s[k] = a + k
    BY IntervalIs
  <2>2. /\ t \in Seq(Nat) /\ Len(t) = c - b /\ \A k \in 1 .. (c - b) : t[k] = b + k
    BY IntervalIs
  <2>3. a <= c
    OBVIOUS
  <2>4. /\ u \in Seq(Nat) /\ Len(u) = c - a /\ \A k \in 1 .. (c - a) : u[k] = a + k
    BY <2>3, IntervalIs
  <2> QED BY <2>1, <2>2, <2>4
<1> HIDE DEF s, t, u
<1>2. s \o t \in Seq(Nat) /\ Len(s \o t) = c - a
  BY <1>1
<1>3. \A k \in 1 .. (c - a) : (s \o t)[k] = u[k]
  <2> TAKE k \in 1 .. (c - a)
  <2>1. CASE k <= b - a
    BY <1>1, <2>1
  <2>2. CASE b - a < k
    <3>1. k - (b - a) \in 1 .. (c - b) /\ (s \o t)[k] = t[k - (b - a)]
      BY <1>1, <2>2, SMTT(30)
    <3>2. t[k - (b - a)] = b + (k - (b - a))
      BY <1>1, <3>1
    <3> QED BY <1>1, <3>1, <3>2
  <2> QED BY <2>1, <2>2, <1>1, SMTT(30)
<1> QED BY <1>1, <1>2, <1>3, SameSequence DEF s, t, u

LEMMA IntervalParts ==
  ASSUME NEW s \in Seq(Nat), NEW b \in Nat, NEW c \in Nat, b <= c, s = Interval(b, c), NEW n \in 0 .. Len(s)
  PROVE  SubSeq(s, 1, n) = Interval(b, b + n) /\ SubSeq(s, n + 1, Len(s)) = Interval(b + n, c)
<1>1. Len(s) = c - b /\ \A k \in 1 .. (c - b) : s[k] = b + k
  BY IntervalIs
<1>2. PICK e \in Nat : e = b + n
  OBVIOUS
<1> DEFINE u == Interval(b, e)
           v == Interval(e, c)
           p == SubSeq(s, 1, n)
           q == SubSeq(s, n + 1, Len(s))
<1>3. b <= e /\ e <= c
  BY <1>1, <1>2
<1>4. u \in Seq(Nat) /\ Len(u) = n /\ \A k \in 1 .. n : u[k] = b + k
  <2>1. u \in Seq(Nat) /\ Len(u) = e - b /\ \A k \in 1 .. (e - b) : u[k] = b + k
    BY <1>3, IntervalIs
  <2> QED BY <1>2, <2>1
<1>5. v \in Seq(Nat) /\ Len(v) = Len(s) - n /\ \A k \in 1 .. Len(s) - n : v[k] = b + n + k
  <2>1. v \in Seq(Nat) /\ Len(v) = c - e /\ \A k \in 1 .. (c - e) : v[k] = e + k
    BY <1>3, IntervalIs
  <2> HIDE DEF v
  <2> QED BY <1>1, <1>2, <2>1
<1>6. p \in Seq(Nat) /\ Len(p) = n /\ \A k \in 1 .. n : p[k] = s[k]
  OBVIOUS
<1>7. q \in Seq(Nat) /\ Len(q) = Len(s) - n /\ \A k \in 1 .. Len(s) - n : q[k] = s[n + k]
  <2>1. n \in Nat /\ n <= Len(s) /\ Len(s) \in Nat /\ Len(s) <= Len(s)
    OBVIOUS
  <2> QED BY <2>1, PartIs
<1> HIDE DEF p, q, u, v
<1>8. p = u
  <2>1. \A k \in 1 .. n : p[k] = u[k]
    <3> TAKE k \in 1 .. n
    <3>1. k \in 1 .. (c - b)
      BY <1>1
    <3> QED BY <1>1, <1>4, <1>6, <3>1
  <2> QED BY <1>4, <1>6, <2>1, SameSequence
<1>9. q = v
  <2>1. \A k \in 1 .. Len(s) - n : q[k] = v[k]
    BY <1>1, <1>5, <1>7
  <2> QED BY <1>5, <1>7, <2>1, SameSequence
<1> QED BY <1>2, <1>8, <1>9 DEF p, q, u, v

LEMMA RisingMore ==
  ASSUME NEW s, NEW a \in Nat, NEW b \in Nat, a <= b, Rising(s, a)
  PROVE  Rising(s, b)
  BY DEF Rising

LEMMA RisingJoin ==
  ASSUME NEW s \in Seq(Nat), NEW a \in Nat, NEW b \in Nat, a <= b, Rising(s, a)
  PROVE  Rising(s \o Interval(a, b), b)
<1> DEFINE t == Interval(a, b)
<1>1. /\ t \in Seq(Nat) /\ Len(t) = b - a /\ \A k \in 1 .. (b - a) : t[k] = a + k
  BY IntervalIs
<1> HIDE DEF t
<1>2. /\ s \o t \in Seq(Nat) /\ Len(s \o t) = Len(s) + (b - a)
      /\ \A k \in 1 .. Len(s) : (s \o t)[k] = s[k]
      /\ \A k \in Len(s) + 1 .. Len(s) + (b - a) : (s \o t)[k] = a + (k - Len(s))
  BY <1>1, SMTT(30)
<1>3. /\ \A k \in 1 .. Len(s) - 1 : s[k] < s[k + 1]
      /\ \A k \in 1 .. Len(s) : s[k] \in 1 .. a
  BY DEF Rising, Increasing
<1>4. \A k \in 1 .. Len(s \o t) : (s \o t)[k] \in 1 .. b
  <2> TAKE k \in 1 .. Len(s \o t)
  <2>1. CASE k \in 1 .. Len(s)
    BY <2>1, <1>2, <1>3
  <2>2. CASE k \in Len(s) + 1 .. Len(s) + (b - a)
    BY <2>2, <1>2
  <2> QED BY <2>1, <2>2, <1>2
<1>5. \A k \in 1 .. (Len(s \o t) - 1) : (s \o t)[k] < (s \o t)[k + 1]
  <2> TAKE k \in 1 .. (Len(s \o t) - 1)
  <2>1. k + 1 \in 1 .. Len(s \o t)
    BY <1>2
  <2>2. CASE k + 1 \in 1 .. Len(s)
    BY <2>2, <1>2, <1>3
  <2>3. CASE k = Len(s)
    BY <2>3, <2>1, <1>2, <1>3, SMTT(30)
  <2>4. CASE k \in Len(s) + 1 .. Len(s) + (b - a)
    <3>1. k + 1 \in Len(s) + 1 .. Len(s) + (b - a)
      BY <2>1, <2>4, <1>2
    <3>2. (s \o t)[k] = a + (k - Len(s)) /\ (s \o t)[k + 1] = a + ((k + 1) - Len(s))
      BY <2>4, <3>1, <1>2
    <3> QED BY <2>4, <3>2
  <2>5. Len(s) \in Nat /\ k \in 1 .. Len(s) + (b - a)
    BY <1>2
  <2> QED BY <2>2, <2>3, <2>4, <2>5
<1>6. DOMAIN (s \o t) = 1 .. Len(s \o t)
  BY <1>2
<1> QED BY <1>4, <1>5, <1>6 DEF Rising, Increasing, t

LEMMA IntervalRising ==
  ASSUME NEW a \in Nat
  PROVE  Rising(Interval(0, a), a)
<1>1. /\ Len(Interval(0, a)) = a /\ DOMAIN Interval(0, a) = 1 .. a
      /\ \A k \in 1 .. a : Interval(0, a)[k] = k
  <2>1. 0 \in Nat /\ 0 <= a /\ a - 0 = a
    OBVIOUS
  <2>2. /\ Len(Interval(0, a)) = a - 0 /\ DOMAIN Interval(0, a) = 1 .. (a - 0)
        /\ \A k \in 1 .. (a - 0) : Interval(0, a)[k] = 0 + k
    BY ONLY <2>1, IntervalIs, a \in Nat
  <2> QED BY <2>1, <2>2
<1> QED BY <1>1 DEF Rising, Increasing

-----------------------------------------------------------------------------
(***************************************************************************)
(* Packets.                                                                *)
(***************************************************************************)
LEMMA DivideBy ==
  ASSUME NEW d \in Nat \ {0}, NEW u \in Nat, NEW v \in 0 .. d - 1
  PROVE  (d * u + v) \div d = u /\ (d * u + v) % d = v
  BY SMTT(30)

LEMMA Divided ==
  ASSUME NEW d \in Nat \ {0}, NEW n \in Nat
  PROVE  n \div d \in Nat /\ (n % d) \in 0 .. d - 1 /\ n = d * (n \div d) + (n % d)
  BY SMTT(30)

LEMMA ProductOrder ==
  ASSUME NEW d \in Nat, NEW u \in Nat, NEW v \in Nat
  PROVE  d * u \in Nat /\ (u < v => d * u + d <= d * v)
<1>1. d * u \in Nat
  BY SMTT(30)
<1>2. ASSUME u < v PROVE d * u + d <= d * v
  <2>1. PICK w \in Nat : v = u + 1 + w
    BY <1>2
  <2>2. d * (u + 1 + w) = d * u + d + d * w /\ d * w \in Nat
    BY SMTT(30)
  <2> QED BY <1>1, <2>1, <2>2
<1> QED BY <1>1, <1>2

\* A transfer of n bytes is c whole packets and r bytes.
LEMMA DataOf ==
  ASSUME NEW n \in Nat, Whole(n)
  PROVE  LET c == n \div PacketSize
             r == n % PacketSize
         IN Data(n) = Payload * c + (IF r = 0 THEN 0 ELSE r - 2) /\ Data(n) \in 0 .. n
<1> DEFINE c == n \div PacketSize
           r == n % PacketSize
<1>1. PacketSize \in Nat \ {0} /\ PacketSize > 2 /\ Payload = PacketSize - 2
  BY FtdiAssumption DEF FtdiAssumption, Payload
<1>2. c \in Nat /\ r \in 0 .. PacketSize - 1 /\ n = PacketSize * c + r /\ r # 1
  <2>1. c \in Nat /\ r \in 0 .. PacketSize - 1 /\ n = PacketSize * c + r
    BY <1>1, Divided
  <2> QED BY <2>1 DEF Whole
<1> HIDE DEF c, r
<1>3. Payload * c = PacketSize * c - 2 * c /\ Payload * c \in Nat
  BY <1>1, <1>2, SMTT(30)
<1>4. CASE r = 0
  <2>1. n + PacketSize - 1 = PacketSize * c + (PacketSize - 1)
    BY <1>1, <1>2, <1>4
  <2>2. (n + PacketSize - 1) \div PacketSize = c
    BY <1>1, <1>2, <2>1, DivideBy
  <2>3. Data(n) = n - 2 * c
    BY <2>2 DEF Data
  <2>4. Data(n) = Payload * c /\ Data(n) \in 0 .. n
    <3>1. PacketSize * c \in Nat
      BY <1>1, <1>2, SMTT(30)
    <3>2. n = PacketSize * c
      BY <1>2, <1>4, <3>1
    <3>3. Data(n) = Payload * c
      BY <1>3, <2>3, <3>2
    <3> QED BY <1>2, <1>3, <2>3, <3>3
  <2>5. Payload * c + 0 = Payload * c
    BY <1>3
  <2> QED BY <1>4, <2>4, <2>5 DEF c, r
<1>5. CASE r # 0
  <2>1. n + PacketSize - 1 = PacketSize * (c + 1) + (r - 1)
    BY <1>1, <1>2, <1>5, SMTT(30)
  <2>2. (n + PacketSize - 1) \div PacketSize = c + 1
    <3>1. c + 1 \in Nat /\ r - 1 \in 0 .. PacketSize - 1
      BY <1>1, <1>2, <1>5
    <3>2. (PacketSize * (c + 1) + (r - 1)) \div PacketSize = c + 1
      BY <1>1, <3>1, DivideBy
    <3> QED BY <2>1, <3>2
  <2>3. Data(n) = n - 2 * (c + 1)
    BY <2>2 DEF Data
  <2>4. Data(n) = Payload * c + (r - 2)
    <3>1. n - 2 * (c + 1) = (n - 2 * c) - 2
      BY <1>2
    <3>2. n - 2 * c = (PacketSize * c - 2 * c) + r
      <4>1. PacketSize * c \in Nat
        BY <1>1, <1>2, SMTT(30)
      <4> QED BY <1>2, <4>1
    <3> QED BY <1>2, <1>3, <2>3, <3>1, <3>2
  <2>5. Data(n) \in 0 .. n
    BY <1>2, <1>3, <1>5, <2>3, <2>4
  <2> QED BY <1>5, <2>4, <2>5 DEF c, r
<1> QED BY <1>4, <1>5

\* Payload byte q is in its packet behind the status bytes.
LEMMA PayloadByte ==
  ASSUME NEW n \in Nat, Whole(n), NEW q \in Nat, q < Data(n)
  PROVE  LET u == q \div Payload
             v == q % Payload
         IN /\ u * PacketSize + 2 + v \in 0 .. n - 1
            /\ u * PacketSize + 2 + v = q + 2 + 2 * u
            /\ u \in Nat /\ v \in 0 .. Payload - 1
            /\ (u * PacketSize + 2 + v) \div PacketSize = u
            /\ (u * PacketSize + 2 + v) % PacketSize = 2 + v
            /\ q = u * Payload + v
            /\ u < n \div PacketSize \/ (u = n \div PacketSize /\ v < (n % PacketSize) - 2)
<1> DEFINE u == q \div Payload
           v == q % Payload
           c == n \div PacketSize
           r == n % PacketSize
<1>1. PacketSize \in Nat \ {0} /\ PacketSize > 2 /\ Payload = PacketSize - 2 /\ Payload \in Nat \ {0}
  BY FtdiAssumption DEF FtdiAssumption, Payload
<1>2. u \in Nat /\ v \in 0 .. Payload - 1 /\ q = Payload * u + v
  BY <1>1, Divided
<1>3. c \in Nat /\ r \in 0 .. PacketSize - 1 /\ n = PacketSize * c + r /\ r # 1
  <2>1. c \in Nat /\ r \in 0 .. PacketSize - 1 /\ n = PacketSize * c + r
    BY <1>1, Divided
  <2> QED BY <2>1 DEF Whole
<1>4. Data(n) = Payload * c + (IF r = 0 THEN 0 ELSE r - 2)
  BY DataOf
<1> HIDE DEF u, v, c, r
<1>5. /\ Payload * u = PacketSize * u - 2 * u /\ PacketSize * u = u * PacketSize
      /\ Payload * u = u * Payload
      /\ PacketSize * u \in Nat /\ Payload * c \in Nat /\ PacketSize * c \in Nat /\ Payload * u \in Nat
  BY <1>1, <1>2, <1>3, SMTT(30)
<1>6. /\ c < u => Payload * c + Payload <= Payload * u
      /\ u < c => PacketSize * u + PacketSize <= PacketSize * c
  BY <1>1, <1>2, <1>3, ProductOrder
<1>7. u <= c
  BY <1>1, <1>2, <1>3, <1>4, <1>5, <1>6
<1>8. u < c \/ (u = c /\ v < r - 2)
  <2>1. CASE u = c
    <3>1. Payload * u = Payload * c
      BY <2>1
    <3>2. v < (IF r = 0 THEN 0 ELSE r - 2)
      BY <1>2, <1>3, <1>4, <1>5, <3>1
    <3> QED BY <1>2, <1>3, <2>1, <3>2
  <2> QED BY <1>2, <1>3, <1>7, <2>1
<1>9. PacketSize * u + (2 + v) \in 0 .. n - 1
  <2>1. CASE u < c
    BY <1>1, <1>2, <1>3, <1>5, <1>6, <2>1
  <2>2. CASE u = c /\ v < r - 2
    <3>1. PacketSize * u = PacketSize * c
      BY <2>2
    <3> QED BY <1>2, <1>3, <1>5, <2>2, <3>1
  <2> QED BY <1>8, <2>1, <2>2
<1>10. 2 + v \in 0 .. PacketSize - 1
  BY <1>1, <1>2
<1>11. /\ (PacketSize * u + (2 + v)) \div PacketSize = u
       /\ (PacketSize * u + (2 + v)) % PacketSize = 2 + v
  BY <1>1, <1>2, <1>10, DivideBy
<1>12. u * PacketSize + 2 + v = PacketSize * u + (2 + v)
  BY <1>2, <1>5
<1> QED BY <1>2, <1>5, <1>8, <1>9, <1>11, <1>12 DEF u, v, c, r

LEMMA RawByte ==
  ASSUME NEW n \in Nat, Whole(n), NEW first \in Nat, NEW q \in Nat, q < Data(n)
  PROVE  LET p == (q \div Payload) * PacketSize + 2 + (q % Payload) + 1
         IN p \in 1 .. n /\ Raw(first, n)[p] = first + q /\ p = q + 3 + 2 * (q \div Payload)
<1> DEFINE u == q \div Payload
           v == q % Payload
           p == u * PacketSize + 2 + v + 1
<1>1. PacketSize \in Nat \ {0} /\ PacketSize > 2 /\ Payload = PacketSize - 2 /\ Payload \in Nat \ {0}
  BY FtdiAssumption DEF FtdiAssumption, Payload
<1>2. /\ u * PacketSize + 2 + v \in 0 .. n - 1
      /\ u * PacketSize + 2 + v = q + 2 + 2 * u
      /\ u \in Nat /\ v \in 0 .. Payload - 1
      /\ (u * PacketSize + 2 + v) \div PacketSize = u
      /\ (u * PacketSize + 2 + v) % PacketSize = 2 + v
      /\ q = u * Payload + v
  BY PayloadByte
<1> HIDE DEF u, v
<1>3. p \in 1 .. n /\ p - 1 = u * PacketSize + 2 + v
  BY <1>2
<1>4. (p - 1) % PacketSize = 2 + v /\ (p - 1) \div PacketSize = u
  BY <1>2, <1>3
<1>5. Raw(first, n)[p] = first + u * Payload + (2 + v) - 2
  BY <1>2, <1>3, <1>4 DEF Raw
<1>6. first + u * Payload + (2 + v) - 2 = first + q
  BY <1>1, <1>2, SMTT(30)
<1> QED BY <1>2, <1>3, <1>5, <1>6 DEF u, v

LEMMA PayloadsAre ==
  ASSUME NEW x \in Transfer, NEW a \in Nat, Whole(x.length), Data(x.length) > 0 => x.first = a + 1
  PROVE  Payloads(x) = Interval(a, a + Data(x.length))
<1>1. x.length \in Nat /\ x.first \in Nat
  BY DEF Transfer
<1>2. Data(x.length) \in Nat /\ a + Data(x.length) - a = Data(x.length)
  BY <1>1, DataOf
<1>3. ASSUME NEW k \in 1 .. Data(x.length)
      PROVE  Raw(x.first, x.length)[((k - 1) \div Payload) * PacketSize + 2 + ((k - 1) % Payload) + 1] = a + k
  <2>1. k - 1 \in Nat /\ k - 1 < Data(x.length) /\ x.first = a + 1
    BY <1>2, <1>3
  <2>2. Raw(x.first, x.length)[((k - 1) \div Payload) * PacketSize + 2 + ((k - 1) % Payload) + 1] = x.first + (k - 1)
    BY <1>1, <2>1, RawByte
  <2> QED BY <1>2, <2>1, <2>2
<1> QED BY <1>2, <1>3 DEF Payloads, Interval

-----------------------------------------------------------------------------
(***************************************************************************)
(* Stripping the status bytes off: a loop of moves, each of which moves    *)
(* what no earlier one has touched.                                        *)
(***************************************************************************)
LEMMA LeastNumber ==
  ASSUME NEW S, S \subseteq Nat, S # {}
  PROVE  \E k \in S : \A j \in S : k <= j
<1> DEFINE R == OpToRel(<, Nat)
<1>1. IsWellFoundedOn(R, Nat)
  BY NatLessThanWellFounded
<1>2. \A x \in Nat, y \in Nat : x < y => <<x, y>> \in R
  BY DEF OpToRel
<1> HIDE DEF R
<1>3. PICK k \in S : \A j \in S : <<j, k>> \notin R
  BY <1>1, WFMin
<1>4. \A j \in S : ~(j < k)
  BY <1>2, <1>3
<1> QED BY <1>3, <1>4

\* Two functions that are built alike, step by step, are the same.
LEMMA Unrolled ==
  ASSUME NEW m \in Nat, NEW f, NEW g, f[0] = g[0],
         \A i \in 1 .. m : f[i - 1] = g[i - 1] => f[i] = g[i]
  PROVE  \A i \in 0 .. m : f[i] = g[i]
<1> DEFINE S == {i \in 0 .. m : f[i] # g[i]}
<1>1. SUFFICES ASSUME S # {} PROVE FALSE
  OBVIOUS
<1>2. PICK k \in S : \A j \in S : k <= j
  <2>1. S \subseteq Nat
    OBVIOUS
  <2> HIDE DEF S
  <2> QED BY <1>1, <2>1, LeastNumber
<1>3. k \in 1 .. m /\ k - 1 \in 0 .. m /\ k - 1 \notin S
  BY <1>2
<1> QED BY <1>2, <1>3

\* The i-th place of a payload, and its byte p.
LEMMA Place ==
  ASSUME NEW i \in Nat, NEW p \in Nat
  PROVE  p - 1 \in 2 + Payload * i .. 2 + Payload * i + Payload - 1
           <=> p >= 3 /\ (p - 3) \div Payload = i
<1>1. Payload \in Nat \ {0}
  BY FtdiAssumption DEF FtdiAssumption, Payload
<1> DEFINE d == Payload
<1>2. d * i \in Nat
  BY <1>1, SMTT(30)
<1>3. ASSUME p - 1 \in 2 + d * i .. 2 + d * i + d - 1
      PROVE  p >= 3 /\ (p - 3) \div d = i
  <2>1. p >= 3 /\ p - 3 - d * i \in 0 .. d - 1
    BY <1>1, <1>2, <1>3
  <2>2. PICK v \in 0 .. d - 1 : p - 3 = d * i + v
    BY <1>1, <1>2, <2>1
  <2>3. (d * i + v) \div d = i
    BY <1>1, DivideBy
  <2> QED BY <2>1, <2>2, <2>3
<1>4. ASSUME p >= 3, (p - 3) \div d = i
      PROVE  p - 1 \in 2 + d * i .. 2 + d * i + d - 1
  <2>1. p - 3 \in Nat
    BY <1>4
  <2>2. ((p - 3) % d) \in 0 .. d - 1 /\ p - 3 = d * ((p - 3) \div d) + ((p - 3) % d)
    BY <1>1, <2>1, Divided
  <2>3. PICK v \in 0 .. d - 1 : p - 3 = d * i + v
    BY <1>4, <2>2
  <2> QED BY <1>1, <1>2, <2>3
<1> QED BY <1>3, <1>4

\* What i packets moved make of buffer b.
Moved(b, i) ==
  [p \in DOMAIN b |-> IF p >= 3 /\ (p - 3) \div Payload \in 1 .. i
                      THEN b[p + 2 * ((p - 3) \div Payload)] ELSE b[p]]

LEMMA PacketMoved ==
  ASSUME NEW b \in [1 .. ReadChunk -> Nat], NEW i \in Nat \ {0}, NEW k \in 0 .. Payload,
         PacketSize * i + 2 + k <= ReadChunk
  PROVE  LET moved == memmove(Moved(b, i - 1), 2 + Payload * i, 2 + PacketSize * i, k)
         IN /\ k = Payload => moved = Moved(b, i)
            /\ moved \in [1 .. ReadChunk -> Nat]
            /\ \A p \in 1 .. ReadChunk :
                 moved[p] = IF p - 1 \in 2 + Payload * i .. 2 + Payload * i + k - 1
                            THEN b[p + 2 * i] ELSE Moved(b, i - 1)[p]
<1>1. /\ PacketSize \in Nat \ {0} /\ PacketSize > 2 /\ Payload = PacketSize - 2
      /\ Payload \in Nat \ {0} /\ ReadChunk \in Nat
  BY FtdiAssumption DEF FtdiAssumption, Payload
<1>2. Payload * i = PacketSize * i - 2 * i /\ Payload * i \in Nat /\ PacketSize * i \in Nat
  BY <1>1, SMTT(30)
<1> DEFINE c == Moved(b, i - 1)
           moved == memmove(c, 2 + Payload * i, 2 + PacketSize * i, k)
<1>3. DOMAIN c = 1 .. ReadChunk /\ i - 1 \in Nat
  BY DEF Moved
<1>4. ASSUME NEW p \in 1 .. ReadChunk
      PROVE  moved[p] = IF p - 1 \in 2 + Payload * i .. 2 + Payload * i + k - 1
                        THEN b[p + 2 * i] ELSE c[p]
  <2>1. moved[p] = IF p - 1 \in 2 + Payload * i .. 2 + Payload * i + k - 1
                   THEN c[p - (2 + Payload * i) + (2 + PacketSize * i)] ELSE c[p]
    BY <1>3 DEF memmove
  <2>2. CASE p - 1 \in 2 + Payload * i .. 2 + Payload * i + k - 1
    <3> DEFINE r == p + 2 * i
    <3>1. p - (2 + Payload * i) + (2 + PacketSize * i) = r
      BY <1>2
    <3>2. r \in 1 .. ReadChunk
      BY <1>1, <1>2, <2>2
    <3>3. c[r] = IF r >= 3 /\ (r - 3) \div Payload \in 1 .. i - 1
                 THEN b[r + 2 * ((r - 3) \div Payload)] ELSE b[r]
      BY <3>2, <1>3 DEF Moved
    <3>4. (r - 3) \div Payload \notin 1 .. i - 1
      <4>1. SUFFICES ASSUME NEW j \in 1 .. i - 1, (r - 3) \div Payload = j
                     PROVE  FALSE
        OBVIOUS
      <4>2. r >= 3 /\ r \in Nat /\ j \in Nat
        BY <1>1, <1>2, <2>2, <3>2
      <4>3. r - 1 <= 2 + Payload * j + Payload - 1
        <5> HIDE DEF r
        <5>1. r - 1 \in 2 + Payload * j .. 2 + Payload * j + Payload - 1
          BY <4>1, <4>2, Place
        <5> QED BY <5>1
      <4>4. Payload * j + Payload <= Payload * i /\ Payload * j \in Nat
        BY <1>1, <4>2, ProductOrder
      <4> QED BY <1>1, <1>2, <2>2, <4>2, <4>3, <4>4
    <3> QED BY <2>1, <2>2, <3>1, <3>3, <3>4
  <2> QED BY <2>1, <2>2
<1>5. DOMAIN moved = 1 .. ReadChunk
  BY <1>3 DEF memmove
<1>6. ASSUME NEW p \in 1 .. ReadChunk, NEW j \in 1 .. i, p >= 3, (p - 3) \div Payload = j
      PROVE  j <= i - 1 => p + 2 * j \in 1 .. ReadChunk
  <2>1. p - 1 <= 2 + Payload * j + Payload - 1 /\ j \in Nat
    BY <1>6, Place
  <2>2. ASSUME j <= i - 1
        PROVE  Payload * j + Payload <= Payload * i /\ Payload * j \in Nat
    BY <1>1, <2>1, <2>2, ProductOrder
  <2> QED BY <1>1, <1>2, <2>1, <2>2
<1>7. \A p \in 1 .. ReadChunk : c[p] \in Nat
  <2> TAKE p \in 1 .. ReadChunk
  <2>1. c[p] = IF p >= 3 /\ (p - 3) \div Payload \in 1 .. i - 1
               THEN b[p + 2 * ((p - 3) \div Payload)] ELSE b[p]
    BY DEF Moved
  <2>2. CASE p >= 3 /\ (p - 3) \div Payload \in 1 .. i - 1
    <3>1. PICK j \in 1 .. i : j <= i - 1 /\ (p - 3) \div Payload = j
      BY <2>2
    <3>2. p + 2 * j \in 1 .. ReadChunk
      BY <2>2, <3>1, <1>6
    <3> QED BY <2>1, <2>2, <3>1, <3>2
  <2> QED BY <2>1, <2>2
<1>8. \A p \in 1 .. ReadChunk : moved[p] \in Nat
  <2> TAKE p \in 1 .. ReadChunk
  <2>1. CASE p - 1 \in 2 + Payload * i .. 2 + Payload * i + k - 1
    <3>1. p + 2 * i \in 1 .. ReadChunk
      BY <1>1, <1>2, <2>1
    <3> QED BY <2>1, <3>1, <1>4
  <2> QED BY <2>1, <1>4, <1>7
<1>9. moved \in [1 .. ReadChunk -> Nat]
  <2>1. moved = [p \in 1 .. ReadChunk |-> moved[p]]
    BY <1>3 DEF memmove
  <2> HIDE DEF moved
  <2> QED BY <1>8, <2>1
<1>10. ASSUME k = Payload PROVE moved = Moved(b, i)
  <2>1. ASSUME NEW p \in 1 .. ReadChunk PROVE moved[p] = Moved(b, i)[p]
    <3>1. Moved(b, i)[p] = IF p >= 3 /\ (p - 3) \div Payload \in 1 .. i
                           THEN b[p + 2 * ((p - 3) \div Payload)] ELSE b[p]
      BY DEF Moved
    <3>2. c[p] = IF p >= 3 /\ (p - 3) \div Payload \in 1 .. i - 1
                 THEN b[p + 2 * ((p - 3) \div Payload)] ELSE b[p]
      BY DEF Moved
    <3>3. p - 1 \in 2 + Payload * i .. 2 + Payload * i + k - 1 <=> p >= 3 /\ (p - 3) \div Payload = i
      BY <1>10, Place
    <3>4. CASE p >= 3 /\ (p - 3) \div Payload = i
      BY <1>4, <3>1, <3>3, <3>4
    <3>5. CASE ~(p >= 3 /\ (p - 3) \div Payload = i)
      <4>1. moved[p] = c[p]
        BY <1>4, <3>3, <3>5
      <4>2. p >= 3 => ((p - 3) \div Payload \in 1 .. i <=> (p - 3) \div Payload \in 1 .. i - 1)
        BY <3>5
      <4> HIDE DEF moved, c
      <4> QED BY <3>1, <3>2, <4>1, <4>2
    <3> QED BY <3>4, <3>5
  <2>2. Moved(b, i) = [p \in 1 .. ReadChunk |-> Moved(b, i)[p]]
    BY DEF Moved
  <2>3. moved = [p \in 1 .. ReadChunk |-> moved[p]]
    BY <1>3 DEF memmove
  <2> HIDE DEF moved
  <2> QED BY <2>1, <2>2, <2>3
<1> QED BY <1>4, <1>9, <1>10

\* The loop over the whole packets behind the first.
LEMMA LoopIs ==
  ASSUME NEW b \in [1 .. ReadChunk -> Nat], NEW m \in Nat, PacketSize * (m + 1) <= ReadChunk, NEW w,
         w = CHOOSE f : f = [i \in 0 .. m |-> IF i = 0 THEN b
               ELSE memmove(f[i - 1], 2 + Payload * i, 2 + PacketSize * i, Payload)]
  PROVE  w[m] = Moved(b, m)
<1> DEFINE D(f) == [i \in 0 .. m |-> IF i = 0 THEN b
                      ELSE memmove(f[i - 1], 2 + Payload * i, 2 + PacketSize * i, Payload)]
           g == [i \in 0 .. m |-> Moved(b, i)]
<1>1. /\ PacketSize \in Nat \ {0} /\ PacketSize > 2 /\ Payload = PacketSize - 2
      /\ Payload \in Nat \ {0} /\ ReadChunk \in Nat
  BY FtdiAssumption DEF FtdiAssumption, Payload
<1>2. Moved(b, 0) = b
  <2>1. \A p \in 1 .. ReadChunk : Moved(b, 0)[p] = b[p]
    BY DEF Moved
  <2>2. Moved(b, 0) = [p \in 1 .. ReadChunk |-> Moved(b, 0)[p]]
    BY DEF Moved
  <2> QED BY <2>1, <2>2
<1>3. ASSUME NEW i \in 1 .. m
      PROVE  memmove(Moved(b, i - 1), 2 + Payload * i, 2 + PacketSize * i, Payload) = Moved(b, i)
  <2>1. PacketSize * i + 2 + Payload <= ReadChunk
    <3>1. i < m + 1 /\ i \in Nat /\ m + 1 \in Nat
      OBVIOUS
    <3>2. PacketSize * i + PacketSize <= PacketSize * (m + 1) /\ PacketSize * i \in Nat
      BY <1>1, <3>1, ProductOrder
    <3>3. PacketSize * (m + 1) \in Nat
      BY <1>1, <3>1, ProductOrder
    <3> QED BY <1>1, <3>2, <3>3
  <2>2. i \in Nat \ {0} /\ Payload \in 0 .. Payload
    BY <1>1
  <2> QED BY <2>1, <2>2, PacketMoved
<1>4. g = D(g)
  <2>1. ASSUME NEW i \in 0 .. m PROVE g[i] = D(g)[i]
    <3>1. CASE i = 0
      BY <1>2, <3>1
    <3>2. CASE i # 0
      <4>1. i \in 1 .. m /\ i - 1 \in 0 .. m
        BY <3>2
      <4>2. g[i - 1] = Moved(b, i - 1) /\ g[i] = Moved(b, i)
        BY <4>1
      <4>3. D(g)[i] = memmove(Moved(b, i - 1), 2 + Payload * i, 2 + PacketSize * i, Payload)
        BY <3>2, <4>1, <4>2
      <4> QED BY <1>3, <4>1, <4>2, <4>3
    <3> QED BY <3>1, <3>2
  <2> DEFINE h == D(g)
  <2>2. g = [i \in 0 .. m |-> g[i]] /\ h = [i \in 0 .. m |-> h[i]]
    OBVIOUS
  <2>3. \A i \in 0 .. m : g[i] = h[i]
    BY <2>1
  <2> HIDE DEF g, h
  <2>4. g = h
    BY <2>2, <2>3
  <2> QED BY <2>4 DEF h
<1>5. w = D(w)
  <2> HIDE DEF D, g
  <2>1. \E f : f = D(f)
    BY <1>4
  <2>2. w = CHOOSE f : f = D(f)
    BY DEF D
  <2> QED BY <2>1, <2>2
<1>6. w[0] = g[0]
  <2>1. w[0] = D(w)[0]
    BY <1>5
  <2> QED BY <1>2, <2>1
<1>7. \A i \in 1 .. m : w[i - 1] = g[i - 1] => w[i] = g[i]
  <2> SUFFICES ASSUME NEW i \in 1 .. m, w[i - 1] = g[i - 1] PROVE w[i] = g[i]
    OBVIOUS
  <2>1. w[i] = D(w)[i]
    BY <1>5
  <2>2. D(w)[i] = memmove(w[i - 1], 2 + Payload * i, 2 + PacketSize * i, Payload)
    <3>1. i \in 0 .. m /\ i # 0
      OBVIOUS
    <3> QED BY ONLY <3>1 DEF D
  <2>3. w[i - 1] = Moved(b, i - 1) /\ g[i] = Moved(b, i)
    OBVIOUS
  <2> QED BY <1>3, <2>1, <2>2, <2>3
<1>8. \A i \in 0 .. m : w[i] = g[i]
  <2> HIDE DEF g
  <2> QED BY ONLY <1>6, <1>7, m \in Nat, Unrolled
<1>9. m \in 0 .. m /\ g[m] = Moved(b, m)
  OBVIOUS
<1> HIDE DEF g
<1> QED BY ONLY <1>8, <1>9

\* Stripping the status bytes of a transfer in place: its payload byte q comes to
\* stand at place q behind the first two status bytes, for every length that is
\* not cut after the first byte of a packet, and the length that is computed is
\* the number of payload bytes.
THEOREM PayloadsStripped ==
  ASSUME NEW b \in [1 .. ReadChunk -> Nat], NEW n \in Nat, Whole(n), n > 2
  PROVE  /\ Stripped(b, 2, n) \in [1 .. ReadChunk -> Nat]
         /\ \A q \in 0 .. Data(n) - 1 : Stripped(b, 2, n)[q + 3] = b[q + 3 + 2 * (q \div Payload)]
         /\ StrippedLength(n) = Data(n) /\ Data(n) + 2 <= n
<1> DEFINE c == n \div PacketSize
           r == n % PacketSize
           w == CHOOSE f : f = [i \in 0 .. c - 1 |-> IF i = 0 THEN b
                  ELSE memmove(f[i - 1], 2 + Payload * i, 2 + PacketSize * i, Payload)]
           s == Stripped(b, 2, n)
<1>1. /\ PacketSize \in Nat \ {0} /\ PacketSize > 2 /\ Payload = PacketSize - 2
      /\ Payload \in Nat \ {0} /\ ReadChunk \in Nat
  BY FtdiAssumption DEF FtdiAssumption, Payload
<1>2. c \in Nat /\ r \in 0 .. PacketSize - 1 /\ n = PacketSize * c + r /\ r # 1 /\ n <= ReadChunk
  <2>1. c \in Nat /\ r \in 0 .. PacketSize - 1 /\ n = PacketSize * c + r
    BY <1>1, Divided
  <2> QED BY <2>1 DEF Whole
<1>3. Data(n) = Payload * c + (IF r = 0 THEN 0 ELSE r - 2)
  BY DataOf
<1>4. s = IF n - 2 <= Payload THEN b
          ELSE IF r > 2 THEN memmove(w[c - 1], 2 + Payload * c, 2 + PacketSize * c, r - 2) ELSE w[c - 1]
  BY DEF Stripped
<1>5. Payload * c = PacketSize * c - 2 * c /\ PacketSize * c \in Nat /\ Payload * c \in Nat
  <2> HIDE DEF c
  <2> QED BY <1>1, <1>2, SMTT(30)
<1>6. StrippedLength(n) = IF n - 2 <= Payload THEN n - 2
                          ELSE IF r > 2 THEN n - 2 - 2 * c ELSE n - 2 - (2 * (c - 1) + r)
  BY DEF StrippedLength
<1>7. Data(n) = n - 2 * c - (IF r = 0 THEN 0 ELSE 2) /\ Data(n) \in Nat
  <2>1. Data(n) \in Nat
    BY DataOf
  <2> HIDE DEF c, r
  <2> QED BY <1>2, <1>3, <1>5, <2>1
<1>8. c = 0 \/ c = 1 \/ c > 1
  BY <1>2
<1>9. /\ c = 0 => PacketSize * c = 0 /\ Payload * c = 0
      /\ c = 1 => PacketSize * c = PacketSize /\ Payload * c = Payload
      /\ c > 1 => PacketSize + PacketSize <= PacketSize * c
  <2>1. c > 1 => PacketSize * 1 + PacketSize <= PacketSize * c
    BY <1>1, <1>2, ProductOrder
  <2> HIDE DEF c
  <2> QED BY <1>1, <2>1
<1>10. StrippedLength(n) = Data(n) /\ Data(n) + 2 <= n
  <2> HIDE DEF c, r
  <2>1. CASE n - 2 <= Payload
    <3>1. n <= PacketSize
      BY <1>1, <2>1
    <3>2. c = 0 \/ (c = 1 /\ r = 0)
      BY <1>1, <1>2, <1>8, <1>9, <3>1
    <3> QED BY <1>1, <1>2, <1>6, <1>7, <2>1, <3>2
  <2>2. CASE ~(n - 2 <= Payload)
    <3>1. c > 0
      BY <1>1, <1>2, <1>8, <1>9, <2>2
    <3> QED BY <1>1, <1>2, <1>6, <1>7, <2>2, <3>1
  <2> QED BY <2>1, <2>2
<1>11. \A q \in 0 .. Data(n) - 1 :
         /\ q \div Payload \in Nat
         /\ q \div Payload < c \/ (q \div Payload = c /\ (q % Payload) < r - 2)
         /\ q = (q \div Payload) * Payload + (q % Payload)
         /\ (q % Payload) \in 0 .. Payload - 1
  <2> TAKE q \in 0 .. Data(n) - 1
  <2>1. q \in Nat /\ q < Data(n)
    BY <1>10, <1>2, <1>7
  <2> QED BY <2>1, PayloadByte
<1> HIDE DEF c, r, s, w
<1>12. CASE n - 2 <= Payload
  <2>1. s = b
    BY <1>4, <1>12
  <2>2. \A q \in 0 .. Data(n) - 1 : q \div Payload = 0
    <3> TAKE q \in 0 .. Data(n) - 1
    <3>1. q \in 0 .. Payload - 1 /\ q = Payload * 0 + q
      BY <1>1, <1>2, <1>7, <1>10, <1>12
    <3>2. (Payload * 0 + q) \div Payload = 0
      BY <1>1, <3>1, DivideBy
    <3> QED BY <3>1, <3>2
  <2>3. \A q \in 0 .. Data(n) - 1 : s[q + 3] = b[q + 3 + 2 * (q \div Payload)]
    <3> TAKE q \in 0 .. Data(n) - 1
    <3>1. q \div Payload = 0 /\ q + 3 + 2 * 0 = q + 3
      BY <1>2, <1>7, <2>2
    <3> QED BY <2>1, <3>1
  <2> QED BY <1>10, <2>1, <2>3 DEF s
<1>13. CASE ~(n - 2 <= Payload)
  <2>1. c > 0 /\ c - 1 \in Nat /\ (c - 1) + 1 = c
    BY <1>1, <1>2, <1>8, <1>9, <1>13
  <2>2. w[c - 1] = Moved(b, c - 1)
    <3>1. PacketSize * ((c - 1) + 1) <= ReadChunk
      <4>1. PacketSize * c <= ReadChunk
        BY <1>1, <1>2, <1>5
      <4> QED BY ONLY <2>1, <4>1, Zenon
    <3> QED BY <2>1, <3>1, LoopIs DEF w
  <2>3. \A q \in 0 .. Data(n) - 1 :
          /\ q + 3 \in 1 .. ReadChunk
          /\ Moved(b, c - 1)[q + 3] = IF q \div Payload \in 1 .. c - 1
               THEN b[q + 3 + 2 * (q \div Payload)] ELSE b[q + 3]
    <3> TAKE q \in 0 .. Data(n) - 1
    <3>1. q + 3 \in 1 .. ReadChunk /\ q + 3 >= 3 /\ (q + 3) - 3 = q
      BY <1>1, <1>2, <1>7, <1>10
    <3> QED BY <3>1 DEF Moved
  <2>4. CASE r > 2
    <3>1. /\ c \in Nat \ {0} /\ r - 2 \in 0 .. Payload /\ PacketSize * c + 2 + (r - 2) <= ReadChunk
      BY <1>1, <1>2, <1>5, <2>1, <2>4
    <3>2. s = memmove(Moved(b, c - 1), 2 + Payload * c, 2 + PacketSize * c, r - 2)
      BY <1>4, <1>13, <2>2, <2>4
    <3>3. /\ s \in [1 .. ReadChunk -> Nat]
          /\ \A p \in 1 .. ReadChunk :
               s[p] = IF p - 1 \in 2 + Payload * c .. 2 + Payload * c + (r - 2) - 1
                      THEN b[p + 2 * c] ELSE Moved(b, c - 1)[p]
      <4>1. PICK k \in 0 .. Payload : k = r - 2
        BY <3>1
      <4> DEFINE moved == memmove(Moved(b, c - 1), 2 + Payload * c, 2 + PacketSize * c, k)
      <4>2. /\ moved \in [1 .. ReadChunk -> Nat]
            /\ \A p \in 1 .. ReadChunk :
                 moved[p] = IF p - 1 \in 2 + Payload * c .. 2 + Payload * c + k - 1
                            THEN b[p + 2 * c] ELSE Moved(b, c - 1)[p]
        <5>1. c \in Nat \ {0} /\ PacketSize * c + 2 + k <= ReadChunk
          BY <3>1, <4>1
        <5> QED BY <5>1, PacketMoved
      <4>3. s = moved
        BY <3>2, <4>1
      <4> HIDE DEF moved
      <4> QED BY <4>1, <4>2, <4>3
    <3>4. ASSUME NEW q \in 0 .. Data(n) - 1
          PROVE  s[q + 3] = b[q + 3 + 2 * (q \div Payload)]
      <4> DEFINE u == q \div Payload
                 v == q % Payload
      <4>1. /\ u \in Nat /\ (u < c \/ (u = c /\ v < r - 2)) /\ q = u * Payload + v
            /\ v \in 0 .. Payload - 1
        BY <1>11
      <4>2. /\ q + 3 \in 1 .. ReadChunk
            /\ Moved(b, c - 1)[q + 3] = IF u \in 1 .. c - 1 THEN b[q + 3 + 2 * u] ELSE b[q + 3]
        BY <2>3
      <4> HIDE DEF u, v
      <4>3. /\ u < c => Payload * u + Payload <= Payload * c
            /\ u * Payload = Payload * u /\ Payload * u \in Nat
        BY <1>1, <1>2, <4>1, ProductOrder, SMTT(30)
      <4>4. CASE u = c /\ v < r - 2
        <5>1. u * Payload = Payload * c
          BY <4>3, <4>4
        <5>2. (q + 3) - 1 \in 2 + Payload * c .. 2 + Payload * c + (r - 2) - 1
          BY <1>1, <1>2, <1>5, <4>1, <4>4, <5>1
        <5>3. s[q + 3] = b[(q + 3) + 2 * c]
          BY <3>3, <4>2, <5>2
        <5> QED BY <4>4, <5>3 DEF u
      <4>5. CASE u < c
        <5>1. (q + 3) - 1 \notin 2 + Payload * c .. 2 + Payload * c + (r - 2) - 1
          BY <1>1, <1>2, <1>5, <4>1, <4>3, <4>5
        <5>2. s[q + 3] = Moved(b, c - 1)[q + 3]
          BY <3>3, <4>2, <5>1
        <5>3. u = 0 \/ u \in 1 .. c - 1
          BY <1>2, <4>1, <4>5
        <5>4. q + 3 + 2 * 0 = q + 3
          BY <4>1, <4>2
        <5> QED BY <4>2, <5>2, <5>3, <5>4 DEF u
      <4> QED BY <4>1, <4>4, <4>5
    <3> QED BY <1>10, <3>3, <3>4 DEF s
  <2>5. CASE ~(r > 2)
    <3>1. s = Moved(b, c - 1)
      BY <1>4, <1>13, <2>2, <2>5
    <3>2. s \in [1 .. ReadChunk -> Nat]
      <4>1. CASE c = 1
        <5>1. \A p \in 1 .. ReadChunk : Moved(b, 0)[p] = b[p]
          BY DEF Moved
        <5>2. Moved(b, 0) = [p \in 1 .. ReadChunk |-> Moved(b, 0)[p]]
          BY DEF Moved
        <5> QED BY <3>1, <4>1, <5>1, <5>2
      <4>2. CASE c # 1
        <5>1. c - 1 \in Nat \ {0} /\ Payload \in 0 .. Payload
          BY <1>1, <2>1, <4>2
        <5>2. PacketSize * (c - 1) + 2 + Payload <= ReadChunk
          <6>1. PacketSize * (c - 1) + PacketSize <= PacketSize * c /\ PacketSize * (c - 1) \in Nat
            BY <1>1, <1>2, <2>1, ProductOrder
          <6> QED BY <1>1, <1>2, <1>5, <6>1
        <5> QED BY <3>1, <5>1, <5>2, PacketMoved
      <4> QED BY <4>1, <4>2
    <3>3. ASSUME NEW q \in 0 .. Data(n) - 1
          PROVE  s[q + 3] = b[q + 3 + 2 * (q \div Payload)]
      <4>1. q \div Payload \in Nat /\ q \div Payload < c /\ (q % Payload) \in 0 .. Payload - 1
        BY <1>1, <1>2, <1>11, <2>5
      <4>2. q \div Payload = 0 \/ q \div Payload \in 1 .. c - 1
        BY <1>2, <4>1
      <4>3. q + 3 + 2 * 0 = q + 3
        BY <1>2, <1>7
      <4> QED BY <2>3, <3>1, <4>2, <4>3
    <3> QED BY <1>10, <3>2, <3>3 DEF s
  <2> QED BY <2>4, <2>5
<1> QED BY <1>12, <1>13

LEMMA DataPositive ==
  ASSUME NEW n \in Nat, Whole(n)
  PROVE  Data(n) \in Nat /\ (n > 2 <=> Data(n) > 0)
<1> DEFINE c == n \div PacketSize
           r == n % PacketSize
<1>1. /\ PacketSize \in Nat \ {0} /\ PacketSize > 2 /\ Payload = PacketSize - 2
      /\ Payload \in Nat \ {0}
  BY FtdiAssumption DEF FtdiAssumption, Payload
<1>2. c \in Nat /\ r \in 0 .. PacketSize - 1 /\ n = PacketSize * c + r /\ r # 1
  <2>1. c \in Nat /\ r \in 0 .. PacketSize - 1 /\ n = PacketSize * c + r
    BY <1>1, Divided
  <2> QED BY <2>1 DEF Whole
<1>3. Data(n) = Payload * c + (IF r = 0 THEN 0 ELSE r - 2)
  BY DataOf
<1> HIDE DEF c, r
<1>4. /\ c = 0 => PacketSize * c = 0 /\ Payload * c = 0
      /\ c > 0 => PacketSize * c >= PacketSize /\ Payload * c >= Payload
      /\ PacketSize * c \in Nat /\ Payload * c \in Nat
  BY <1>1, <1>2, SMTT(30)
<1>5. CASE c = 0
  BY <1>1, <1>2, <1>3, <1>4, <1>5
<1>6. CASE c > 0
  BY <1>1, <1>2, <1>3, <1>4, <1>6
<1> QED BY <1>2, <1>5, <1>6

\* What a transfer that brings the bytes after a does: the call gets as many as
\* it wants, and the read buffer keeps the others.
LEMMA TakenIs ==
  ASSUME NEW t \in Control, NEW x \in Transfer, NEW a \in Nat,
         readbuffer \in [1 .. ReadChunk -> Nat], readbuffer_offset = 0,
         Whole(x.length), x.length > 2, x.first = a + 1, t.offset <= t.size
  PROVE  LET r == Taken(t, x)
             n == Data(x.length)
             part == IF t.offset + n <= t.size THEN n ELSE t.size - t.offset
         IN /\ part \in 0 .. n
            /\ t.offset + part <= t.size
            /\ r.control = [t EXCEPT !.buf = @ \o Interval(a, a + part), !.offset = @ + part]
            /\ r.buffer \in [1 .. ReadChunk -> Nat]
            /\ r.remaining = n - part /\ r.offset \in Nat
            /\ r.offset + r.remaining <= ReadChunk
            /\ SubSeq(r.buffer, r.offset + 1, r.offset + r.remaining) = Interval(a + part, a + n)
            /\ t.offset + part < t.size => r.remaining = 0 /\ (t.how = "async" => r.offset = 0)
<1> DEFINE len == x.length
           n == Data(len)
           part == IF t.offset + n <= t.size THEN n ELSE t.size - t.offset
           filled == Raw(x.first, len) \o SubSeq(readbuffer, len + 1, ReadChunk)
           b == Stripped(filled, 2, len)
           fits == t.offset + n <= t.size
           off == IF ~fits THEN 2 + part ELSE IF t.how = "async" THEN 0 ELSE 2
<1>1. /\ len \in Nat /\ x.first \in Nat /\ t.offset \in Nat /\ t.size \in Nat /\ t.buf \in Seq(Nat)
  BY DEF Transfer, Control
<1>2. ReadChunk \in Nat /\ PacketSize \in Nat \ {0} /\ PacketSize > 2 /\ len <= ReadChunk
  BY FtdiAssumption DEF FtdiAssumption, Whole
<1>3. n \in Nat
  BY <1>1, DataPositive
<1>4. part \in 0 .. n /\ t.offset + part <= t.size /\ part \in Nat
  <2> HIDE DEF n, len
  <2> QED BY <1>1, <1>3
<1>5. Raw(x.first, len) \in Seq(Nat) /\ Len(Raw(x.first, len)) = len
      /\ \A p \in 1 .. len : Raw(x.first, len)[p] \in Nat
  <2>1. \A p \in 1 .. len : Raw(x.first, len)[p] \in Nat
    <3> TAKE p \in 1 .. len
    <3> DEFINE q == (p - 1) % PacketSize
               u == (p - 1) \div PacketSize
    <3>1. p - 1 \in Nat
      OBVIOUS
    <3>2. q \in Nat /\ u \in Nat
      <4>1. u \in Nat /\ q \in 0 .. PacketSize - 1
        BY <1>2, <3>1, Divided
      <4> HIDE DEF q
      <4> QED BY <1>2, <4>1
    <3>3. Raw(x.first, len)[p] = IF q < 2 THEN 0 ELSE x.first + u * Payload + q - 2
      BY DEF Raw
    <3> HIDE DEF q, u
    <3>4. Payload \in Nat /\ u * Payload \in Nat
      BY <1>2, <3>2, SMTT(30) DEF Payload
    <3>5. PICK z \in Nat : z = u * Payload
      BY <3>4
    <3>6. CASE q < 2
      BY <3>3, <3>6
    <3>7. CASE ~(q < 2)
      <4>1. x.first + z + q - 2 \in Nat
        BY <1>1, <3>2, <3>7
      <4> QED BY <3>3, <3>5, <3>7, <4>1
    <3> QED BY <3>6, <3>7
  <2>2. Raw(x.first, len) = [p \in 1 .. len |-> Raw(x.first, len)[p]]
    BY DEF Raw
  <2> DEFINE raw == Raw(x.first, len)
  <2>3. raw \in [1 .. len -> Nat]
    <3> HIDE DEF raw
    <3> QED BY <2>1, <2>2 DEF raw
  <2> HIDE DEF raw, len
  <2>4. raw \in Seq(Nat) /\ Len(raw) = len
    BY ONLY <1>1, <2>3
  <2> QED BY <2>1, <2>4 DEF raw
<1>6. /\ filled \in [1 .. ReadChunk -> Nat]
      /\ \A p \in 1 .. len : filled[p] = Raw(x.first, len)[p]
  <2> DEFINE raw == Raw(x.first, len)
             rest == SubSeq(readbuffer, len + 1, ReadChunk)
  <2> HIDE DEF raw, len
  <2>1. readbuffer \in Seq(Nat) /\ Len(readbuffer) = ReadChunk
    BY ONLY <1>2, readbuffer \in [1 .. ReadChunk -> Nat]
  <2>2. rest \in Seq(Nat) /\ Len(rest) = ReadChunk - len
    BY <1>1, <1>2, <2>1
  <2> HIDE DEF rest
  <2>3. raw \in Seq(Nat) /\ Len(raw) = len
    BY <1>5 DEF raw
  <2>4. raw \o rest \in Seq(Nat) /\ Len(raw \o rest) = ReadChunk
    <3>1. raw \o rest \in Seq(Nat) /\ Len(raw \o rest) = Len(raw) + Len(rest)
      BY ONLY <2>2, <2>3, ConcatProperties
    <3> QED BY <1>1, <1>2, <2>2, <2>3, <3>1
  <2>5. \A p \in 1 .. len : (raw \o rest)[p] = raw[p]
    BY <2>2, <2>3
  <2>6. raw \o rest \in [1 .. ReadChunk -> Nat]
    <3> DEFINE s == raw \o rest
    <3>1. s \in Seq(Nat) /\ Len(s) = ReadChunk
      BY <2>4
    <3> HIDE DEF s
    <3>2. s \in [1 .. Len(s) -> Nat]
      BY <3>1, LenProperties
    <3> QED BY <3>1, <3>2 DEF s
  <2> QED BY <2>5, <2>6 DEF raw, rest, len
<1> HIDE DEF filled
<1>7. /\ b \in [1 .. ReadChunk -> Nat]
      /\ \A q \in 0 .. n - 1 : b[q + 3] = filled[q + 3 + 2 * (q \div Payload)]
      /\ StrippedLength(len) = n /\ n + 2 <= len
  BY <1>1, <1>6, PayloadsStripped
<1>8. \A q \in 0 .. n - 1 : b[q + 3] = a + 1 + q
  <2> TAKE q \in 0 .. n - 1
  <2> DEFINE p == (q \div Payload) * PacketSize + 2 + (q % Payload) + 1
  <2>1. q \in Nat /\ q < Data(len)
    BY <1>3
  <2>2. p \in 1 .. len /\ Raw(x.first, len)[p] = x.first + q /\ p = q + 3 + 2 * (q \div Payload)
    BY <1>1, <2>1, RawByte, ZenonT(30)
  <2> HIDE DEF p
  <2> QED BY <1>6, <1>7, <2>2
<1> HIDE DEF b, n, part, fits, off, len
<1>9. Taken(t, x) = [buffer |-> b, offset |-> off, remaining |-> n - part,
                     control |-> [t EXCEPT !.buf = @ \o SubSeq(b, 3, 2 + part), !.offset = @ + part]]
  <2>1. readbuffer_offset + 2 = 2 /\ \A k : 2 + 1 = 3
    OBVIOUS
  <2> QED BY <1>7, <2>1 DEF Taken, fits, part, off, b, filled, len
<1>10. b \in Seq(Nat) /\ Len(b) = ReadChunk
  BY ONLY <1>2, <1>7
<1>11. SubSeq(b, 3, 2 + part) = Interval(a, a + part)
  <2> DEFINE s == SubSeq(b, 3, 2 + part)
             u == Interval(a, a + part)
  <2>1. s \in Seq(Nat) /\ Len(s) = part /\ \A k \in 1 .. part : s[k] = b[k + 2]
    <3>1. 2 \in Nat /\ 2 + part \in Nat /\ 2 <= 2 + part /\ 2 + part <= Len(b) /\ 2 + 1 = 3
          /\ (2 + part) - 2 = part
      BY <1>1, <1>2, <1>3, <1>4, <1>7, <1>10
    <3>2. /\ SubSeq(b, 2 + 1, 2 + part) \in Seq(Nat) /\ Len(SubSeq(b, 2 + 1, 2 + part)) = (2 + part) - 2
          /\ \A k \in 1 .. (2 + part) - 2 : SubSeq(b, 2 + 1, 2 + part)[k] = b[2 + k]
      BY ONLY <1>10, <3>1, PartIs
    <3>3. \A k \in 1 .. part : 2 + k = k + 2
      BY <1>4
    <3> QED BY <3>1, <3>2, <3>3
  <2>2. a + part \in Nat /\ a <= a + part /\ (a + part) - a = part
    BY <1>4
  <2>3. u \in Seq(Nat) /\ Len(u) = part /\ \A k \in 1 .. part : u[k] = a + k
    BY <2>2, IntervalIs
  <2> HIDE DEF s, u
  <2>4. \A k \in 1 .. part : s[k] = u[k]
    <3> TAKE k \in 1 .. part
    <3>1. k - 1 \in 0 .. n - 1 /\ (k - 1) + 3 = k + 2
      BY <1>3, <1>4
    <3> QED BY <1>8, <2>1, <2>3, <3>1
  <2> QED BY <2>1, <2>3, <2>4, SameSequence DEF s, u
<1>12. /\ off \in Nat /\ off + (n - part) <= ReadChunk
       /\ SubSeq(b, off + 1, off + (n - part)) = Interval(a + part, a + n)
  <2>1. CASE fits
    <3>1. part = n
      BY <2>1 DEF fits, part
    <3>2. off \in {0, 2} /\ off \in Nat
      BY <2>1 DEF off
    <3>3. n - part = 0 /\ off + 0 = off /\ a + n \in Nat
      BY <1>3, <3>1, <3>2
    <3>4. SubSeq(b, off + 1, off) = <<>>
      BY <1>10, <3>2
    <3>5. Interval(a + n, a + n) = <<>>
      BY <3>3, IntervalEmpty
    <3>6. off + (n - part) = off /\ off <= ReadChunk
      BY <1>1, <1>2, <1>3, <1>7, <3>2, <3>3
    <3> QED BY <3>1, <3>2, <3>4, <3>5, <3>6
  <2>2. CASE ~fits
    <3>1. off = 2 + part
      BY <2>2 DEF off
    <3> DEFINE s == SubSeq(b, off + 1, off + (n - part))
               u == Interval(a + part, a + n)
    <3>2. off + (n - part) = 2 + n /\ off \in Nat /\ 2 + n <= ReadChunk
      BY <1>1, <1>2, <1>3, <1>4, <1>7, <3>1
    <3>3. s \in Seq(Nat) /\ Len(s) = n - part /\ \A k \in 1 .. n - part : s[k] = b[part + k + 2]
      <4> DEFINE e == off + (n - part)
      <4>1. e \in Nat /\ off <= e /\ e <= Len(b) /\ e - off = n - part
        BY <1>2, <1>3, <1>4, <1>10, <3>1, <3>2
      <4> HIDE DEF e
      <4>2. /\ SubSeq(b, off + 1, e) \in Seq(Nat) /\ Len(SubSeq(b, off + 1, e)) = e - off
            /\ \A k \in 1 .. e - off : SubSeq(b, off + 1, e)[k] = b[off + k]
        BY <1>10, <3>2, <4>1, PartIs
      <4>3. \A k \in 1 .. n - part : off + k = part + k + 2
        BY <1>3, <1>4, <3>1
      <4> QED BY <4>1, <4>2, <4>3 DEF e
    <3>4. /\ a + part \in Nat /\ a + n \in Nat /\ a + part <= a + n
          /\ (a + n) - (a + part) = n - part
      BY <1>3, <1>4
    <3>5. u \in Seq(Nat) /\ Len(u) = n - part /\ \A k \in 1 .. n - part : u[k] = a + part + k
      BY <3>4, IntervalIs, ZenonT(30)
    <3> HIDE DEF s, u
    <3>6. \A k \in 1 .. n - part : s[k] = u[k]
      <4> TAKE k \in 1 .. n - part
      <4>1. (part + k) - 1 \in 0 .. n - 1 /\ ((part + k) - 1) + 3 = part + k + 2
        BY <1>3, <1>4
      <4>2. b[part + k + 2] = a + 1 + ((part + k) - 1)
        BY <1>8, <4>1
      <4> QED BY <1>3, <1>4, <3>3, <3>5, <4>2
    <3>7. s = u
      BY <3>3, <3>5, <3>6, SameSequence
    <3> QED BY <3>2, <3>7 DEF s, u
  <2> QED BY <2>1, <2>2
<1>13. t.offset + part < t.size => n - part = 0 /\ (t.how = "async" => off = 0)
  BY <1>1, <1>3, <1>4 DEF part, off, fits
<1> DEFINE r == Taken(t, x)
<1>14. r.buffer = b /\ r.offset = off /\ r.remaining = n - part
       /\ r.control = [t EXCEPT !.buf = @ \o Interval(a, a + part), !.offset = @ + part]
  <2> DEFINE s == SubSeq(b, 3, 2 + part)
             y == Interval(a, a + part)
             z == [t EXCEPT !.buf = @ \o s, !.offset = @ + part]
  <2>1. s = y
    BY <1>11
  <2>2. r = [buffer |-> b, offset |-> off, remaining |-> n - part, control |-> z]
    BY <1>9
  <2> HIDE DEF r, z
  <2>3. r.buffer = b /\ r.offset = off /\ r.remaining = n - part /\ r.control = z
    BY ONLY <2>2
  <2> HIDE DEF s, y
  <2>4. z = [t EXCEPT !.buf = @ \o y, !.offset = @ + part]
    BY ONLY <2>1 DEF z
  <2> QED BY ONLY <2>3, <2>4 DEF y
<1> HIDE DEF r
<1>15. /\ part \in 0 .. n /\ t.offset + part <= t.size
       /\ r.control = [t EXCEPT !.buf = @ \o Interval(a, a + part), !.offset = @ + part]
       /\ r.buffer \in [1 .. ReadChunk -> Nat]
       /\ r.remaining = n - part /\ r.offset \in Nat
       /\ r.offset + r.remaining <= ReadChunk
       /\ SubSeq(r.buffer, r.offset + 1, r.offset + r.remaining) = Interval(a + part, a + n)
       /\ t.offset + part < t.size => r.remaining = 0 /\ (t.how = "async" => r.offset = 0)
  BY ONLY <1>4, <1>7, <1>12, <1>13, <1>14
<1> QED BY ONLY <1>15 DEF n, part, len, r

-----------------------------------------------------------------------------
(***************************************************************************)
(* Transfers in flight.                                                    *)
(***************************************************************************)
LEMMA Constants ==
  /\ PacketSize \in Nat \ {0} /\ PacketSize > 2
  /\ ReadChunk \in Nat \ {0} /\ ReadChunk % PacketSize = 0 /\ WriteChunk \in Nat \ {0}
  /\ ReadSizes \subseteq Nat \ {0} /\ WriteSizes \subseteq Nat \ {0}
  /\ DeviceData \in Nat /\ Calls \in Nat /\ Mishaps \in Nat
  /\ NumTransfers \in Nat \ {0} /\ ReadTimeouts \subseteq Nat
  BY FtdiAssumption, StreamAssumption DEF FtdiAssumption, StreamAssumption

LEMMA Nothing ==
  /\ NoControl \in Control /\ NoTransfer \in Transfer /\ Idle \in Call
  /\ NoControl.how = "none" /\ NoControl.offset = 0 /\ NoControl.size = 0 /\ NoControl.buf = <<>>
  /\ NoControl.completed = FALSE /\ NoTransfer.state = "none"
  BY DEF NoControl, NoTransfer, Idle, Control, Transfer, Call, Hows, Statuses, Dirs

LEMMA SubmittedIs ==
  ASSUME Types, NEW first \in Nat, NEW length \in Nat
  PROVE  /\ Submitted(first, length) \in Transfer
         /\ Submitted(first, length).state \in {"pending", "over"}
         /\ Submitted(first, length).first = first
         /\ Submitted(first, length).length <= length
         /\ Submitted(first, length).state = "over" => gone /\ Submitted(first, length).length = 0
  BY DEF Submitted, Transfer, Statuses, Types


\* A transfer that brings nothing: it is not over yet, or came back empty.
Inert(x) == x.state = "over" => x.length = 0

LEMMA WholeNone == Whole(0) /\ Data(0) = 0
<1>1. 0 % PacketSize = 0 /\ 0 \div PacketSize = 0 /\ 0 \in 0 .. ReadChunk
  BY Constants, SMTT(30)
<1>2. Whole(0)
  BY <1>1 DEF Whole
<1>3. Data(0) = Payload * 0 + 0
  BY <1>1, <1>2, DataOf
<1>4. Payload \in Nat
  BY Constants DEF Payload
<1> QED BY <1>2, <1>3, <1>4

LEMMA InertBrings ==
  ASSUME NEW x, Inert(x), NEW a
  PROVE  Brought(x) = 0 /\ After(x, a)
<1>1. Brought(x) = 0
  BY WholeNone DEF Inert, Brought
<1> QED BY <1>1, WholeNone DEF Inert, After

LEMMA BroughtIs ==
  ASSUME NEW x \in Transfer, NEW a, After(x, a)
  PROVE  Brought(x) \in Nat
<1>1. CASE x.state = "over"
  <2>1. x.length \in Nat /\ Whole(x.length)
    BY <1>1 DEF After, Transfer
  <2> QED BY <1>1, <2>1, DataPositive DEF Brought
<1>2. CASE x.state # "over"
  BY <1>2 DEF Brought
<1> QED BY <1>1, <1>2

LEMMA ChainsBound ==
  ASSUME NEW xs \in Seq(Transfer), NEW d, NEW top \in Nat, Chains(xs, d, top)
  PROVE  d \in 0 .. top
<1>1. PICK pos \in [0 .. Len(xs) -> 0 .. top] : pos[0] = d
  BY DEF Chains
<1>2. 0 \in 0 .. Len(xs)
  OBVIOUS
<1> QED BY <1>1, <1>2

LEMMA ChainsEmpty ==
  ASSUME NEW d, NEW top \in Nat
  PROVE  Chains(<<>>, d, top) <=> d = top
<1>1. ASSUME Chains(<<>>, d, top) PROVE d = top
  BY <1>1 DEF Chains
<1>2. Chains(<<>>, top, top)
  <2> DEFINE pos == [k \in 0 .. 0 |-> top]
  <2>1. pos \in [0 .. Len(<<>>) -> 0 .. top] /\ pos[0] = top /\ pos[Len(<<>>)] = top
    OBVIOUS
  <2>2. 1 .. Len(<<>>) = {}
    OBVIOUS
  <2> HIDE DEF pos
  <2> QED BY <2>1, <2>2 DEF Chains
<1> QED BY <1>1, <1>2

\* The first transfer is judged.
LEMMA ChainsHead ==
  ASSUME NEW xs \in Seq(Transfer), xs # <<>>, NEW d, NEW top \in Nat, Chains(xs, d, top)
  PROVE  /\ After(Head(xs), d) /\ Head(xs) \in Transfer
         /\ Tail(xs) \in Seq(Transfer) /\ Chains(Tail(xs), d + Brought(Head(xs)), top)
<1> DEFINE n == Len(xs)
<1>1. /\ n \in Nat \ {0} /\ Head(xs) = xs[1] /\ Head(xs) \in Transfer /\ Tail(xs) \in Seq(Transfer)
      /\ Len(Tail(xs)) = n - 1 /\ \A k \in 1 .. n - 1 : Tail(xs)[k] = xs[k + 1]
  BY HeadTailProperties, EmptySeq
<1>2. PICK pos \in [0 .. n -> 0 .. top] :
        /\ pos[0] = d /\ pos[n] = top
        /\ \A k \in 1 .. n :
             /\ xs[k].state \in {"pending", "over"}
             /\ After(xs[k], pos[k - 1]) /\ pos[k] = pos[k - 1] + Brought(xs[k])
             /\ xs[k].state # "over" => pos[k - 1] = top
  BY DEF Chains
<1> HIDE DEF n
<1>3. After(Head(xs), d) /\ pos[1] = d + Brought(Head(xs))
  <2>1. 1 \in 1 .. n /\ 1 - 1 = 0
    BY <1>1
  <2> QED BY <1>1, <1>2, <2>1
<1> DEFINE rest == [k \in 0 .. n - 1 |-> pos[k + 1]]
<1>4. rest \in [0 .. Len(Tail(xs)) -> 0 .. top]
  <2>1. \A k \in 0 .. n - 1 : pos[k + 1] \in 0 .. top
    BY <1>1, <1>2
  <2> QED BY <1>1, <2>1
<1>5. rest[0] = d + Brought(Head(xs)) /\ rest[Len(Tail(xs))] = top
  BY <1>1, <1>2, <1>3
<1>6. ASSUME NEW k \in 1 .. Len(Tail(xs))
      PROVE  /\ Tail(xs)[k].state \in {"pending", "over"}
             /\ After(Tail(xs)[k], rest[k - 1]) /\ rest[k] = rest[k - 1] + Brought(Tail(xs)[k])
             /\ Tail(xs)[k].state # "over" => rest[k - 1] = top
  <2>1. k + 1 \in 1 .. n /\ (k + 1) - 1 = k /\ k \in 1 .. n - 1
    BY <1>1
  <2>2. rest[k - 1] = pos[k] /\ rest[k] = pos[k + 1]
    BY <1>1, <2>1
  <2>3. Tail(xs)[k] = xs[k + 1]
    BY <1>1, <2>1
  <2> HIDE DEF rest
  <2> QED BY <1>2, <2>1, <2>2, <2>3
<1> HIDE DEF rest
<1> QED BY <1>1, <1>3, <1>4, <1>5, <1>6 DEF Chains

\* A transfer is submitted again.
LEMMA ChainsAppend ==
  ASSUME NEW xs \in Seq(Transfer), NEW d, NEW top \in Nat, Chains(xs, d, top),
         NEW y \in Transfer, y.state \in {"pending", "over"}, Inert(y)
  PROVE  Chains(xs \o <<y>>, d, top)
<1> DEFINE n == Len(xs)
           ys == xs \o <<y>>
<1>1. /\ n \in Nat /\ ys \in Seq(Transfer) /\ Len(ys) = n + 1
      /\ (\A k \in 1 .. n : ys[k] = xs[k]) /\ ys[n + 1] = y
  OBVIOUS
<1>2. PICK pos \in [0 .. n -> 0 .. top] :
        /\ pos[0] = d /\ pos[n] = top
        /\ \A k \in 1 .. n :
             /\ xs[k].state \in {"pending", "over"}
             /\ After(xs[k], pos[k - 1]) /\ pos[k] = pos[k - 1] + Brought(xs[k])
             /\ xs[k].state # "over" => pos[k - 1] = top
  BY DEF Chains
<1> HIDE DEF n, ys
<1> DEFINE more == [k \in 0 .. n + 1 |-> IF k = n + 1 THEN top ELSE pos[k]]
<1>3. more \in [0 .. n + 1 -> 0 .. top]
  BY <1>1, <1>2
<1>4. more[n + 1] = top /\ (\A k \in 0 .. n : more[k] = pos[k])
  BY <1>1
<1> HIDE DEF more
<1>5. ASSUME NEW k \in 1 .. n + 1
      PROVE  /\ ys[k].state \in {"pending", "over"}
             /\ After(ys[k], more[k - 1]) /\ more[k] = more[k - 1] + Brought(ys[k])
             /\ ys[k].state # "over" => more[k - 1] = top
  <2>1. CASE k = n + 1
    <3>1. ys[k] = y /\ k - 1 = n /\ n \in 0 .. n
      BY <1>1, <2>1
    <3>2. more[k - 1] = top /\ more[k] = top
      BY <1>2, <1>4, <2>1, <3>1
    <3>3. Brought(y) = 0 /\ After(y, top)
      BY InertBrings
    <3> QED BY <3>1, <3>2, <3>3
  <2>2. CASE k \in 1 .. n
    <3>1. ys[k] = xs[k] /\ more[k - 1] = pos[k - 1] /\ more[k] = pos[k]
      BY <1>1, <1>4, <2>2
    <3> QED BY <1>2, <2>2, <3>1
  <2> QED BY <1>1, <2>1, <2>2
<1>6. 0 \in 0 .. n /\ more[0] = d
  BY <1>1, <1>2, <1>4
<1> QED BY <1>1, <1>3, <1>4, <1>5, <1>6, ZenonT(30) DEF Chains, ys

\* The stream begins, at what was sent.
LEMMA ChainsNew ==
  ASSUME NEW xs \in Seq(Transfer), NEW top \in Nat,
         \A k \in 1 .. Len(xs) : xs[k].state \in {"pending", "over"} /\ Inert(xs[k])
  PROVE  Chains(xs, top, top)
<1> DEFINE pos == [k \in 0 .. Len(xs) |-> top]
<1>1. pos \in [0 .. Len(xs) -> 0 .. top] /\ pos[0] = top /\ pos[Len(xs)] = top
  OBVIOUS
<1>2. ASSUME NEW k \in 1 .. Len(xs)
      PROVE  /\ xs[k].state \in {"pending", "over"}
             /\ After(xs[k], pos[k - 1]) /\ pos[k] = pos[k - 1] + Brought(xs[k])
             /\ xs[k].state # "over" => pos[k - 1] = top
  <2>1. pos[k - 1] = top /\ pos[k] = top
    OBVIOUS
  <2>2. Brought(xs[k]) = 0 /\ After(xs[k], top)
    BY InertBrings
  <2> HIDE DEF pos
  <2> QED BY <2>1, <2>2
<1> HIDE DEF pos
<1> QED BY <1>1, <1>2 DEF Chains

\* The device fills the first transfer that is pending.
LEMMA ChainsFilled ==
  ASSUME NEW xs \in Seq(Transfer), NEW d, NEW top \in Nat, Chains(xs, d, top),
         NEW i \in 1 .. Len(xs), xs[i].state = "pending",
         NEW y \in Transfer, y.state = "over", y.first = top + 1, Whole(y.length),
         \A j \in 1 .. i - 1 : xs[j].state # "pending"
  PROVE  Chains([xs EXCEPT ![i] = y], d, top + Data(y.length))
<1> DEFINE n == Len(xs)
           ys == [xs EXCEPT ![i] = y]
           u == top + Data(y.length)
<1>1. /\ n \in Nat /\ ys \in Seq(Transfer) /\ Len(ys) = n
      /\ (\A k \in 1 .. n : k # i => ys[k] = xs[k]) /\ ys[i] = y
  OBVIOUS
<1>2. PICK pos \in [0 .. n -> 0 .. top] :
        /\ pos[0] = d /\ pos[n] = top
        /\ \A k \in 1 .. n :
             /\ xs[k].state \in {"pending", "over"}
             /\ After(xs[k], pos[k - 1]) /\ pos[k] = pos[k - 1] + Brought(xs[k])
             /\ xs[k].state # "over" => pos[k - 1] = top
  BY DEF Chains
<1>3. u \in Nat /\ top <= u /\ Brought(y) = Data(y.length)
  <2>1. y.length \in Nat
    BY DEF Transfer
  <2>2. Data(y.length) \in Nat
    BY <2>1, DataPositive
  <2> QED BY <2>2 DEF Brought
<1>4. u = top + Brought(y)
  BY <1>3
<1> HIDE DEF n, ys, u
<1>5. pos[i - 1] = top /\ i \in 1 .. n
  BY <1>2 DEF n
<1>6. \A k \in i .. n : pos[k] = top
  <2> DEFINE S == {k \in i .. n : pos[k] # top}
  <2>1. SUFFICES ASSUME S # {} PROVE FALSE
    OBVIOUS
  <2>2. PICK k \in S : \A j \in S : k <= j
    <3>1. S \subseteq Nat
      BY <1>1, <1>5
    <3> HIDE DEF S
    <3> QED BY <2>1, <3>1, LeastNumber
  <2>3. k \in 1 .. n /\ k \in i .. n
    BY <1>1, <1>5
  <2>4. pos[k - 1] = top
    <3>1. CASE k = i
      BY <1>5, <3>1
    <3>2. CASE k # i
      <4>1. k - 1 \in i .. n /\ k - 1 \notin S
        BY <1>1, <2>2, <2>3, <3>2
      <4> QED BY <4>1
    <3> QED BY <3>1, <3>2
  <2>5. pos[k] = top + Brought(xs[k]) /\ pos[k] \in 0 .. top
    BY <1>2, <2>3, <2>4
  <2>6. xs[k] \in Transfer /\ After(xs[k], top)
    BY <1>2, <2>3, <2>4 DEF n
  <2>7. Brought(xs[k]) \in Nat
    BY <2>6, BroughtIs
  <2> QED BY <2>2, <2>5, <2>7
<1>7. ASSUME NEW k \in 1 .. n, k > i
      PROVE  xs[k].state \in {"pending", "over"} /\ Brought(xs[k]) = 0 /\ After(xs[k], u)
  <2>1. pos[k - 1] = top /\ pos[k] = top
    <3>1. k - 1 \in i .. n /\ k \in i .. n
      BY <1>1, <1>5, <1>7
    <3> QED BY <1>6, <3>1
  <2>2. After(xs[k], top) /\ top = top + Brought(xs[k]) /\ xs[k] \in Transfer /\ xs[k].state \in {"pending", "over"}
    BY <1>2, <2>1 DEF n
  <2>3. Brought(xs[k]) \in Nat
    BY <2>2, BroughtIs
  <2>4. Brought(xs[k]) = 0
    BY <2>2, <2>3
  <2> QED BY <2>2, <2>4 DEF After
<1> DEFINE more == [k \in 0 .. n |-> IF k < i THEN pos[k] ELSE u]
<1>8. more \in [0 .. n -> 0 .. u]
  BY <1>1, <1>2, <1>3
<1>9. /\ \A k \in 0 .. n : k < i => more[k] = pos[k]
      /\ \A k \in 0 .. n : k >= i => more[k] = u
  BY <1>5
<1> HIDE DEF more
<1>10. more[0] = d /\ more[n] = u
  BY <1>1, <1>2, <1>5, <1>9
<1>11. ASSUME NEW k \in 1 .. n
       PROVE  /\ ys[k].state \in {"pending", "over"}
              /\ After(ys[k], more[k - 1]) /\ more[k] = more[k - 1] + Brought(ys[k])
              /\ ys[k].state # "over" => more[k - 1] = u
  <2>1. k - 1 \in 0 .. n /\ k \in 0 .. n
    BY <1>1
  <2>2. CASE k < i
    <3>1. more[k - 1] = pos[k - 1] /\ more[k] = pos[k] /\ ys[k] = xs[k]
      BY <1>1, <1>5, <1>9, <2>1, <2>2
    <3>2. xs[k].state = "over"
      <4>1. k \in 1 .. i - 1
        BY <1>5, <2>2
      <4> QED BY <1>2, <4>1
    <3> QED BY <1>2, <3>1, <3>2
  <2>3. CASE k = i
    <3>1. more[k - 1] = top /\ more[k] = u /\ ys[k] = y
      BY <1>1, <1>5, <1>9, <2>1, <2>3
    <3>2. After(y, top)
      BY DEF After
    <3> QED BY <1>4, <3>1, <3>2
  <2>4. CASE k > i
    <3>1. more[k - 1] = u /\ more[k] = u /\ ys[k] = xs[k]
      BY <1>1, <1>5, <1>9, <2>1, <2>4
    <3>2. xs[k].state \in {"pending", "over"} /\ Brought(xs[k]) = 0 /\ After(xs[k], u)
      BY <1>7, <2>4
    <3> QED BY <1>3, <3>1, <3>2
  <2> QED BY <1>5, <2>2, <2>3, <2>4
<1> QED BY <1>1, <1>8, <1>10, <1>11 DEF Chains, ys, u

\* The device is gone: nothing changes but that nothing is pending.
LEMMA ChainsUnplugged ==
  ASSUME NEW xs \in Seq(Transfer), NEW ys \in Seq(Transfer), Len(ys) = Len(xs),
         NEW d, NEW top \in Nat, Chains(xs, d, top),
         \A k \in 1 .. Len(xs) :
           IF xs[k].state = "over" THEN ys[k] = xs[k] ELSE ys[k].state = "over" /\ ys[k].length = 0
  PROVE  Chains(ys, d, top)
<1>1. PICK pos \in [0 .. Len(xs) -> 0 .. top] :
        /\ pos[0] = d /\ pos[Len(xs)] = top
        /\ \A k \in 1 .. Len(xs) :
             /\ xs[k].state \in {"pending", "over"}
             /\ After(xs[k], pos[k - 1]) /\ pos[k] = pos[k - 1] + Brought(xs[k])
             /\ xs[k].state # "over" => pos[k - 1] = top
  BY DEF Chains
<1>2. ASSUME NEW k \in 1 .. Len(ys)
      PROVE  /\ ys[k].state \in {"pending", "over"}
             /\ After(ys[k], pos[k - 1]) /\ pos[k] = pos[k - 1] + Brought(ys[k])
             /\ ys[k].state # "over" => pos[k - 1] = top
  <2>1. CASE xs[k].state = "over"
    BY <1>1, <2>1
  <2>2. CASE xs[k].state # "over"
    <3>1. Inert(ys[k]) /\ ys[k].state = "over" /\ Brought(xs[k]) = 0
      BY <2>2 DEF Inert, Brought
    <3>2. Brought(ys[k]) = 0 /\ After(ys[k], pos[k - 1])
      BY <3>1, InertBrings
    <3> QED BY <1>1, <3>1, <3>2
  <2> QED BY <2>1, <2>2
<1> QED BY <1>1, <1>2 DEF Chains

-----------------------------------------------------------------------------
(***************************************************************************)
(* The flow of bytes, and what the steps do with it.                       *)
(***************************************************************************)
\* What a flow from a means: the places b, c and d where its parts end.
Ends(a, b, c, d, has, lost, gathered, kept, x, xs, top) ==
  /\ a \in Nat /\ b \in Nat /\ c \in Nat /\ d \in Nat
  /\ a <= b /\ b <= c /\ c <= d /\ d <= top
  /\ b = a + Len(gathered) /\ c = b + Len(kept) /\ d = c + Brought(x)
  /\ Rising(has, a) /\ (~lost => has = Interval(0, a))
  /\ gathered = Interval(a, b) /\ kept = Interval(b, c)
  /\ After(x, c) /\ Chains(xs, d, top)

LEMMA FlowEnds ==
  ASSUME NEW has, NEW lost, NEW gathered \in Seq(Nat), NEW kept \in Seq(Nat),
         NEW x \in Transfer, NEW xs \in Seq(Transfer), NEW top \in Nat,
         Flow(has, lost, gathered, kept, x, xs, top)
  PROVE  \E a, b, c, d \in Nat : Ends(a, b, c, d, has, lost, gathered, kept, x, xs, top)
<1>1. PICK a \in 0 .. top :
        /\ Rising(has, a) /\ (~lost => has = Interval(0, a))
        /\ gathered = Interval(a, a + Len(gathered))
        /\ kept = Interval(a + Len(gathered), a + Len(gathered) + Len(kept))
        /\ After(x, a + Len(gathered) + Len(kept))
        /\ Chains(xs, a + Len(gathered) + Len(kept) + Brought(x), top)
  BY DEF Flow
<1>2. PICK b \in Nat : b = a + Len(gathered)
  OBVIOUS
<1>3. PICK c \in Nat : c = b + Len(kept)
  OBVIOUS
<1>4. Brought(x) \in Nat
  BY <1>1, <1>2, <1>3, BroughtIs
<1>5. PICK d \in Nat : d = c + Brought(x)
  BY <1>4
<1>6. Chains(xs, d, top)
  BY <1>1, <1>2, <1>3, <1>5
<1>7. d \in 0 .. top
  BY <1>6, ChainsBound
<1>8. a \in Nat /\ a <= b /\ b <= c /\ c <= d /\ d <= top
  BY <1>2, <1>3, <1>4, <1>5, <1>7
<1>9. gathered = Interval(a, b) /\ kept = Interval(b, c) /\ After(x, c)
  BY <1>1, <1>2, <1>3
<1> QED BY <1>1, <1>2, <1>3, <1>5, <1>6, <1>8, <1>9 DEF Ends

LEMMA FlowIs ==
  ASSUME NEW has, NEW lost, NEW gathered, NEW kept, NEW x, NEW xs, NEW top \in Nat,
         NEW a \in Nat, NEW b \in Nat, NEW c \in Nat, NEW d \in Nat,
         a <= b, b <= c, c <= d, d <= top, d = c + Brought(x),
         Rising(has, a), ~lost => has = Interval(0, a),
         gathered = Interval(a, b), kept = Interval(b, c), After(x, c), Chains(xs, d, top)
  PROVE  Flow(has, lost, gathered, kept, x, xs, top)
<1>1. a \in 0 .. top
  OBVIOUS
<1>2. Len(gathered) = b - a /\ Len(kept) = c - b
  BY IntervalIs
<1>3. b = a + Len(gathered) /\ c = a + Len(gathered) + Len(kept)
  BY <1>2
<1>4. gathered = Interval(a, a + Len(gathered)) /\ kept = Interval(a + Len(gathered), a + Len(gathered) + Len(kept))
  BY <1>3
<1>5. After(x, a + Len(gathered) + Len(kept)) /\ Chains(xs, a + Len(gathered) + Len(kept) + Brought(x), top)
  BY <1>3
<1> QED BY <1>1, <1>4, <1>5 DEF Flow

\* The call returns what it has gathered.
LEMMA FlowReturned ==
  ASSUME NEW has \in Seq(Nat), NEW lost, NEW gathered \in Seq(Nat), NEW kept \in Seq(Nat),
         NEW x \in Transfer, NEW xs \in Seq(Transfer), NEW top \in Nat,
         Flow(has, lost, gathered, kept, x, xs, top)
  PROVE  Flow(has \o gathered, lost, <<>>, kept, x, xs, top)
<1>1. PICK a, b, c, d \in Nat : Ends(a, b, c, d, has, lost, gathered, kept, x, xs, top)
  BY FlowEnds
<1>2. Rising(has \o gathered, b)
  BY <1>1, RisingJoin DEF Ends
<1>3. ~lost => has \o gathered = Interval(0, b)
  <2> HAVE ~lost
  <2>1. has = Interval(0, a) /\ gathered = Interval(a, b) /\ 0 <= a /\ a <= b
    BY <1>1 DEF Ends
  <2> QED BY <2>1, IntervalJoin
<1>4. <<>> = Interval(b, b)
  BY IntervalEmpty
<1>5. b <= b /\ b <= c /\ c <= d /\ d <= top /\ d = c + Brought(x) /\ kept = Interval(b, c)
      /\ After(x, c) /\ Chains(xs, d, top)
  BY <1>1 DEF Ends
<1> QED BY <1>2, <1>3, <1>4, <1>5, FlowIs

\* The call loses what it has gathered.
LEMMA FlowDropped ==
  ASSUME NEW has \in Seq(Nat), NEW lost, NEW gathered \in Seq(Nat), NEW kept \in Seq(Nat),
         NEW x \in Transfer, NEW xs \in Seq(Transfer), NEW top \in Nat,
         Flow(has, lost, gathered, kept, x, xs, top), NEW lose, lose = TRUE
  PROVE  Flow(has, lose, <<>>, kept, x, xs, top)
<1>1. PICK a, b, c, d \in Nat : Ends(a, b, c, d, has, lost, gathered, kept, x, xs, top)
  BY FlowEnds
<1>2. Rising(has, b)
  BY <1>1, RisingMore DEF Ends
<1>3. <<>> = Interval(b, b)
  BY IntervalEmpty
<1>4. b <= b /\ b <= c /\ c <= d /\ d <= top /\ d = c + Brought(x) /\ kept = Interval(b, c)
      /\ After(x, c) /\ Chains(xs, d, top)
  BY <1>1 DEF Ends
<1> QED BY <1>2, <1>3, <1>4, FlowIs

\* All that was under way in the call and in the read buffer is lost.
LEMMA FlowLost ==
  ASSUME NEW has \in Seq(Nat), NEW lost, NEW gathered \in Seq(Nat), NEW kept \in Seq(Nat),
         NEW x \in Transfer, NEW xs \in Seq(Transfer), NEW top \in Nat,
         Flow(has, lost, gathered, kept, x, xs, top), NEW lose, lose = TRUE, NEW y, Inert(y)
  PROVE  Flow(has, lose, <<>>, <<>>, y, xs, top)
<1>1. PICK a, b, c, d \in Nat : Ends(a, b, c, d, has, lost, gathered, kept, x, xs, top)
  BY FlowEnds
<1>2. Rising(has, d)
  BY <1>1, RisingMore DEF Ends
<1>3. <<>> = Interval(d, d)
  BY IntervalEmpty
<1>4. Brought(y) = 0 /\ After(y, d)
  BY InertBrings
<1>5. d <= d /\ d <= top /\ d = d + Brought(y) /\ Chains(xs, d, top)
  BY <1>1, <1>4 DEF Ends
<1> QED BY <1>2, <1>3, <1>4, <1>5, FlowIs

\* The call takes the first bytes of the read buffer.
LEMMA FlowFromBuffer ==
  ASSUME NEW has \in Seq(Nat), NEW lost, NEW kept \in Seq(Nat),
         NEW x \in Transfer, NEW xs \in Seq(Transfer), NEW top \in Nat,
         Flow(has, lost, <<>>, kept, x, xs, top), NEW n \in 0 .. Len(kept)
  PROVE  Flow(has, lost, SubSeq(kept, 1, n), SubSeq(kept, n + 1, Len(kept)), x, xs, top)
<1>1. <<>> \in Seq(Nat) /\ Len(<<>>) = 0
  OBVIOUS
<1>2. PICK a, b, c, d \in Nat : Ends(a, b, c, d, has, lost, <<>>, kept, x, xs, top)
  BY <1>1, FlowEnds
<1>3. a = b /\ Len(kept) = c - b
  BY <1>1, <1>2 DEF Ends
<1>4. b <= c /\ kept = Interval(b, c)
  BY <1>2 DEF Ends
<1>5. SubSeq(kept, 1, n) = Interval(b, b + n) /\ SubSeq(kept, n + 1, Len(kept)) = Interval(b + n, c)
  BY <1>4, IntervalParts
<1>6. b + n \in Nat /\ b <= b + n /\ b + n <= c
  BY <1>2, <1>3
<1>7. /\ b <= b /\ c <= d /\ d <= top /\ d = c + Brought(x) /\ Rising(has, b)
      /\ (~lost => has = Interval(0, b)) /\ After(x, c) /\ Chains(xs, d, top)
  BY <1>2, <1>3 DEF Ends
<1> QED BY <1>4, <1>5, <1>6, <1>7, FlowIs

\* A transfer is submitted, or forgotten, when there was nothing in the last one.
LEMMA FlowSubmitted ==
  ASSUME NEW has \in Seq(Nat), NEW lost, NEW gathered \in Seq(Nat), NEW kept \in Seq(Nat),
         NEW x \in Transfer, NEW xs \in Seq(Transfer), NEW top \in Nat,
         Flow(has, lost, gathered, kept, x, xs, top), Brought(x) = 0, NEW y, Inert(y)
  PROVE  Flow(has, lost, gathered, kept, y, xs, top)
<1>1. PICK a, b, c, d \in Nat : Ends(a, b, c, d, has, lost, gathered, kept, x, xs, top)
  BY FlowEnds
<1>2. Brought(y) = 0 /\ After(y, c)
  BY InertBrings
<1>3. d = c + Brought(y)
  BY <1>1, <1>2 DEF Ends
<1> QED BY <1>1, <1>2, <1>3, FlowIs DEF Ends

\* What a transfer brought is divided between the call and the read buffer.
LEMMA FlowTaken ==
  ASSUME NEW has \in Seq(Nat), NEW lost, NEW gathered \in Seq(Nat),
         NEW x \in Transfer, NEW xs \in Seq(Transfer), NEW top \in Nat,
         Flow(has, lost, gathered, <<>>, x, xs, top), x.state = "over"
  PROVE  \E c \in Nat :
           /\ After(x, c)
           /\ \A part \in 0 .. Data(x.length) : \A y : Inert(y) =>
                Flow(has, lost, gathered \o Interval(c, c + part),
                     Interval(c + part, c + Data(x.length)), y, xs, top)
<1>1. <<>> \in Seq(Nat) /\ Len(<<>>) = 0
  OBVIOUS
<1>2. PICK a, b, c, d \in Nat : Ends(a, b, c, d, has, lost, gathered, <<>>, x, xs, top)
  BY <1>1, FlowEnds
<1>3. b = c /\ d = c + Data(x.length)
  BY <1>1, <1>2 DEF Ends, Brought
<1>4. ASSUME NEW part \in 0 .. Data(x.length), NEW y, Inert(y)
      PROVE  Flow(has, lost, gathered \o Interval(c, c + part),
                  Interval(c + part, c + Data(x.length)), y, xs, top)
  <2>1. Data(x.length) \in Nat
    <3>1. Brought(x) \in Nat
      BY <1>2, BroughtIs DEF Ends
    <3> QED BY <3>1 DEF Brought
  <2>2. c + part \in Nat /\ c <= c + part /\ c + part <= d
    BY <1>3, <1>4, <2>1
  <2>3. gathered \o Interval(c, c + part) = Interval(a, c + part)
    <3>1. gathered = Interval(a, c) /\ a <= c
      BY <1>2, <1>3 DEF Ends
    <3> QED BY <2>2, <3>1, IntervalJoin
  <2>4. Interval(c + part, c + Data(x.length)) = Interval(c + part, d)
    BY <1>3
  <2>5. Brought(y) = 0 /\ After(y, d) /\ d = d + Brought(y)
    BY <1>4, InertBrings
  <2>6. a <= c + part /\ d <= d /\ d <= top /\ Rising(has, a) /\ (~lost => has = Interval(0, a)) /\ Chains(xs, d, top)
    BY <1>2, <1>3, <2>2 DEF Ends
  <2> QED BY <2>2, <2>3, <2>4, <2>5, <2>6, FlowIs
<1> QED BY <1>2, <1>4 DEF Ends

\* The device ends the transfer of the call.
LEMMA FlowEnded ==
  ASSUME NEW has \in Seq(Nat), NEW lost, NEW gathered \in Seq(Nat), NEW kept \in Seq(Nat),
         NEW x \in Transfer, NEW top \in Nat, Flow(has, lost, gathered, kept, x, <<>>, top), x.state # "over",
         NEW y \in Transfer, y.state = "over", y.first = top + 1, Whole(y.length)
  PROVE  Flow(has, lost, gathered, kept, y, <<>>, top + Data(y.length))
<1>1. <<>> \in Seq(Transfer)
  OBVIOUS
<1>2. PICK a, b, c, d \in Nat : Ends(a, b, c, d, has, lost, gathered, kept, x, <<>>, top)
  BY <1>1, FlowEnds
<1>3. c = d /\ d = top
  BY <1>2, ChainsEmpty DEF Ends, Brought
<1>4. Data(y.length) \in Nat
  BY DataPositive DEF Transfer
<1>5. PICK e \in Nat : e = top + Data(y.length)
  BY <1>4
<1>6. c <= e /\ e <= e /\ e = c + Brought(y) /\ After(y, c) /\ Chains(<<>>, e, e)
  BY <1>3, <1>4, <1>5, ChainsEmpty DEF Brought, After
<1>7. Flow(has, lost, gathered, kept, y, <<>>, e)
  BY <1>2, <1>6, FlowIs DEF Ends
<1> QED BY <1>5, <1>7

\* The stream hands over what its first transfer brought.
LEMMA FlowStreamed ==
  ASSUME NEW has \in Seq(Nat), NEW lost, NEW x \in Transfer, Inert(x),
         NEW xs \in Seq(Transfer), xs # <<>>, NEW top \in Nat, Flow(has, lost, <<>>, <<>>, x, xs, top),
         NEW lose
  PROVE  /\ Head(xs).state = "over" =>
              Flow(has \o Payloads(Head(xs)), lost, <<>>, <<>>, x, Tail(xs), top)
         /\ lose = TRUE => Flow(has, lose, <<>>, <<>>, x, Tail(xs), top)
<1>1. <<>> \in Seq(Nat) /\ Len(<<>>) = 0
  OBVIOUS
<1>2. PICK a, b, c, d \in Nat : Ends(a, b, c, d, has, lost, <<>>, <<>>, x, xs, top)
  BY <1>1, FlowEnds
<1> DEFINE h == Head(xs)
<1>3. /\ After(h, d) /\ h \in Transfer /\ Tail(xs) \in Seq(Transfer) /\ Chains(Tail(xs), d + Brought(h), top)
  BY <1>2, ChainsHead DEF Ends
<1> HIDE DEF h
<1>4. Brought(h) \in Nat
  BY <1>3, BroughtIs
<1>5. PICK e \in Nat : e = d + Brought(h)
  BY <1>4
<1>6. e <= top /\ d <= e /\ Chains(Tail(xs), e, top)
  <2>1. Chains(Tail(xs), e, top)
    BY <1>3, <1>5
  <2>2. e \in 0 .. top
    BY <1>3, <2>1, ChainsBound
  <2> QED BY <1>4, <1>5, <2>1, <2>2
<1>7. a = d /\ Rising(has, d) /\ (~lost => has = Interval(0, d))
  <2>1. Brought(x) = 0
    BY InertBrings
  <2>2. a = d
    BY <1>1, <1>2, <2>1 DEF Ends
  <2> QED BY <1>2, <2>2 DEF Ends
<1>8. <<>> = Interval(e, e) /\ e <= e /\ e = e + Brought(x) /\ After(x, e)
  BY IntervalEmpty, InertBrings
<1>9. ASSUME h.state = "over" PROVE Flow(has \o Payloads(h), lost, <<>>, <<>>, x, Tail(xs), top)
  <2>1. Payloads(h) = Interval(d, e)
    <3>1. Whole(h.length) /\ Brought(h) = Data(h.length) /\ (Data(h.length) > 0 => h.first = d + 1)
      BY <1>3, <1>9 DEF After, Brought
    <3> QED BY <1>3, <1>5, <3>1, PayloadsAre
  <2>2. Rising(has \o Payloads(h), e)
    BY <1>6, <1>7, <2>1, RisingJoin
  <2>3. ~lost => has \o Payloads(h) = Interval(0, e)
    <3> HAVE ~lost
    <3>1. has = Interval(0, d) /\ 0 <= d /\ d <= e
      BY <1>6, <1>7
    <3>2. Interval(0, d) \o Interval(d, e) = Interval(0, e)
      BY <3>1, IntervalJoin
    <3> QED BY <2>1, <3>1, <3>2
  <2> QED BY <1>6, <1>8, <2>2, <2>3, FlowIs
<1>10. ASSUME lose = TRUE PROVE Flow(has, lose, <<>>, <<>>, x, Tail(xs), top)
  <2>1. Rising(has, e)
    BY <1>6, <1>7, RisingMore
  <2> QED BY <1>6, <1>8, <1>10, <2>1, FlowIs
<1> QED BY <1>9, <1>10 DEF h

\* The transfers of the stream change without bringing anything more.
LEMMA FlowChained ==
  ASSUME NEW has \in Seq(Nat), NEW lost, NEW gathered \in Seq(Nat), NEW kept \in Seq(Nat),
         NEW x \in Transfer, NEW xs \in Seq(Transfer), NEW top \in Nat,
         Flow(has, lost, gathered, kept, x, xs, top),
         NEW ys, \A d \in Nat : Chains(xs, d, top) => Chains(ys, d, top)
  PROVE  Flow(has, lost, gathered, kept, x, ys, top)
<1>1. PICK a, b, c, d \in Nat : Ends(a, b, c, d, has, lost, gathered, kept, x, xs, top)
  BY FlowEnds
<1>2. Chains(ys, d, top)
  BY <1>1 DEF Ends
<1> QED BY <1>1, <1>2, FlowIs DEF Ends

\* The device fills one of them.
LEMMA FlowFilled ==
  ASSUME NEW has \in Seq(Nat), NEW lost, NEW gathered \in Seq(Nat), NEW kept \in Seq(Nat),
         NEW x \in Transfer, NEW xs \in Seq(Transfer), NEW top \in Nat,
         Flow(has, lost, gathered, kept, x, xs, top),
         NEW i \in 1 .. Len(xs), xs[i].state = "pending", \A j \in 1 .. i - 1 : xs[j].state # "pending",
         NEW y \in Transfer, y.state = "over", y.first = top + 1, Whole(y.length)
  PROVE  Flow(has, lost, gathered, kept, x, [xs EXCEPT ![i] = y], top + Data(y.length))
<1>1. PICK a, b, c, d \in Nat : Ends(a, b, c, d, has, lost, gathered, kept, x, xs, top)
  BY FlowEnds
<1>2. PICK ys : ys = [xs EXCEPT ![i] = y]
  OBVIOUS
<1>3. Data(y.length) \in Nat
  BY DataPositive DEF Transfer
<1>4. PICK e \in Nat : e = top + Data(y.length)
  BY <1>3
<1>5. Chains(ys, d, e)
  BY <1>1, <1>2, <1>4, ChainsFilled DEF Ends
<1>6. d <= e
  BY <1>1, <1>3, <1>4 DEF Ends
<1>7. Flow(has, lost, gathered, kept, x, ys, e)
  BY <1>1, <1>5, <1>6, FlowIs DEF Ends
<1> QED BY <1>2, <1>4, <1>7

-----------------------------------------------------------------------------
(***************************************************************************)
(* Parts of the state, and what a step leaves alone.                       *)
(***************************************************************************)
LEMMA Updated ==
  ASSUME NEW S, NEW f \in [Dirs -> S], NEW d \in Dirs, NEW t \in S, NEW g, g = [f EXCEPT ![d] = t]
  PROVE  /\ g \in [Dirs -> S] /\ g[d] = t
         /\ \A e \in Dirs : e # d => g[e] = f[e]
  OBVIOUS

LEMMA BufferIs ==
  ASSUME NEW f \in [1 .. ReadChunk -> Nat], NEW o \in Nat, NEW n \in Nat, o + n <= ReadChunk
  PROVE  /\ SubSeq(f, o + 1, o + n) \in Seq(Nat) /\ Len(SubSeq(f, o + 1, o + n)) = n
         /\ \A k \in 1 .. n : SubSeq(f, o + 1, o + n)[k] = f[o + k]
<1>1. ReadChunk \in Nat
  BY Constants
<1>2. f \in Seq(Nat) /\ Len(f) = ReadChunk
  BY ONLY <1>1, f \in [1 .. ReadChunk -> Nat]
<1>3. PICK e \in Nat : e = o + n
  OBVIOUS
<1>4. o <= e /\ e <= Len(f) /\ e - o = n
  BY <1>2, <1>3
<1>5. /\ SubSeq(f, o + 1, e) \in Seq(Nat) /\ Len(SubSeq(f, o + 1, e)) = e - o
      /\ \A k \in 1 .. e - o : SubSeq(f, o + 1, e)[k] = f[o + k]
  BY <1>2, <1>4, PartIs
<1> QED BY <1>3, <1>4, <1>5

LEMMA BufferParts ==
  ASSUME NEW f \in [1 .. ReadChunk -> Nat], NEW o \in Nat, NEW n \in Nat, o + n <= ReadChunk,
         NEW m \in 0 .. n, NEW s, s = SubSeq(f, o + 1, o + n)
  PROVE  SubSeq(s, 1, m) = SubSeq(f, o + 1, o + m) /\ SubSeq(s, m + 1, n) = SubSeq(f, o + m + 1, o + n)
<1>1. s \in Seq(Nat) /\ Len(s) = n /\ \A k \in 1 .. n : s[k] = f[o + k]
  BY BufferIs
<1> DEFINE p == SubSeq(s, 1, m)
           q == SubSeq(s, m + 1, n)
           u == SubSeq(f, o + 1, o + m)
           v == SubSeq(f, o + m + 1, o + n)
<1>2. p \in Seq(Nat) /\ Len(p) = m /\ \A k \in 1 .. m : p[k] = f[o + k]
  BY <1>1
<1>3. q \in Seq(Nat) /\ Len(q) = n - m /\ \A k \in 1 .. n - m : q[k] = f[o + m + k]
  <2>1. q \in Seq(Nat) /\ Len(q) = n - m /\ \A k \in 1 .. n - m : q[k] = s[m + k]
    <3>1. m \in Nat /\ m <= n /\ n <= Len(s)
      BY <1>1
    <3> QED BY <1>1, <3>1, PartIs
  <2>2. \A k \in 1 .. n - m : m + k \in 1 .. n /\ o + (m + k) = o + m + k
    OBVIOUS
  <2> HIDE DEF q
  <2> QED BY <1>1, <2>1, <2>2
<1>4. u \in Seq(Nat) /\ Len(u) = m /\ \A k \in 1 .. m : u[k] = f[o + k]
  <2>1. m \in Nat /\ o + m <= ReadChunk
    BY Constants
  <2> QED BY <2>1, BufferIs
<1>5. v \in Seq(Nat) /\ Len(v) = n - m /\ \A k \in 1 .. n - m : v[k] = f[o + m + k]
  <2>1. PICK i \in Nat : i = o + m
    OBVIOUS
  <2>2. PICK l \in Nat : l = n - m
    OBVIOUS
  <2>3. i + l = o + n /\ i + l <= ReadChunk
    BY <2>1, <2>2
  <2>4. /\ SubSeq(f, i + 1, i + l) \in Seq(Nat) /\ Len(SubSeq(f, i + 1, i + l)) = l
        /\ \A k \in 1 .. l : SubSeq(f, i + 1, i + l)[k] = f[i + k]
    BY <2>3, BufferIs
  <2> QED BY <2>1, <2>2, <2>3, <2>4
<1> HIDE DEF p, q, u, v
<1>6. p = u
  <2>1. \A k \in 1 .. m : p[k] = u[k]
    BY <1>2, <1>4
  <2> QED BY <1>2, <1>4, <2>1, SameSequence
<1>7. q = v
  <2>1. \A k \in 1 .. n - m : q[k] = v[k]
    BY <1>3, <1>5
  <2> QED BY <1>3, <1>5, <2>1, SameSequence
<1> QED BY <1>6, <1>7 DEF p, q, u, v

LEMMA Parts ==
  ASSUME Types
  PROVE  /\ tc["in"] \in Control /\ tc["out"] \in Control
         /\ transfer["in"] \in Transfer /\ transfer["out"] \in Transfer
         /\ tc["in"].buf \in Seq(Nat) /\ stream.transfers \in Seq(Transfer)
         /\ Buffered(readbuffer_remaining) \in Seq(Nat)
         /\ Len(Buffered(readbuffer_remaining)) = readbuffer_remaining
<1>1. /\ tc["in"] \in Control /\ tc["out"] \in Control
      /\ transfer["in"] \in Transfer /\ transfer["out"] \in Transfer
  BY DEF Types, Dirs
<1>2. tc["in"].buf \in Seq(Nat) /\ stream.transfers \in Seq(Transfer)
  BY <1>1 DEF Types, Control
<1>3. /\ Buffered(readbuffer_remaining) \in Seq(Nat)
      /\ Len(Buffered(readbuffer_remaining)) = readbuffer_remaining
  BY BufferIs DEF Types, Buffered
<1> QED BY <1>1, <1>2, <1>3

LEMMA BufferedNone ==
  ASSUME readbuffer \in [1 .. ReadChunk -> Nat], readbuffer_offset \in Nat, readbuffer_offset <= ReadChunk
  PROVE  Buffered(0) = <<>>
<1>1. PICK n \in Nat : n = 0
  OBVIOUS
<1>2. Len(SubSeq(readbuffer, readbuffer_offset + 1, readbuffer_offset + n)) = n
      /\ SubSeq(readbuffer, readbuffer_offset + 1, readbuffer_offset + n) \in Seq(Nat)
  BY <1>1, BufferIs
<1>3. Buffered(n) = <<>>
  BY <1>1, <1>2 DEF Buffered
<1> QED BY <1>1, <1>3

LEMMA SequenceTypes ==
  ASSUME NEW s \in Seq(Nat), NEW t \in Seq(Nat)
  PROVE  s \o t \in Seq(Nat)
  BY ConcatProperties

LEMMA WrittenKept ==
  ASSUME Written, tc'["out"] = tc["out"], transfer'["out"] = transfer["out"], given' = given,
         device_got' = device_got, dropped'["out"] = dropped["out"]
  PROVE  Written'
<1>1. Arrived' = Arrived
  BY DEF Arrived, Over
<1>2. \A a : Rising(device_got, a)' <=> Rising(device_got, a)
  BY DEF Rising, Increasing
<1> QED BY <1>1, <1>2 DEF Written, Rising, Increasing, Interval


LEMMA ReadKept ==
  ASSUME Types, Read, tc'["in"] = tc["in"], transfer'["in"] = transfer["in"], received' = received,
         readbuffer' = readbuffer, readbuffer_offset' = readbuffer_offset,
         readbuffer_remaining' = readbuffer_remaining, stream'.transfers = stream.transfers,
         sent' = sent, dropped'["in"] = dropped["in"],
         call'.name \in {"stream", "over"} => call.name \in {"stream", "over"}
  PROVE  Read'
<1>1. ReadsFresh'
  BY DEF Read, ReadsFresh
<1>2. Buffered(readbuffer_remaining)' = Buffered(readbuffer_remaining)
  BY DEF Buffered
<1>3. Flow(received, dropped["in"], tc["in"].buf, Buffered(readbuffer_remaining), transfer["in"],
           stream.transfers, sent)'
  BY <1>2 DEF Read
<1> QED BY <1>1, <1>3 DEF Read

LEMMA CallingKept ==
  ASSUME NEW d \in Dirs, Calling(d), tc'[d] = tc[d], transfer'[d] = transfer[d],
         (call' = [name |-> "bulk", dir |-> d]) <=> (call = [name |-> "bulk", dir |-> d])
  PROVE  Calling(d)'
  BY DEF Calling, Waits

LEMMA Directions ==
  /\ "in" \in Dirs /\ "out" \in Dirs /\ "in" # "out"
  /\ \A d \in Dirs : d = "in" \/ d = "out"
  BY DEF Dirs

-----------------------------------------------------------------------------
(***************************************************************************)
(* The invariant holds at first.                                           *)
(***************************************************************************)
LEMMA Initially == Init => IInv
<1> SUFFICES ASSUME Init PROVE IInv
  OBVIOUS
<1>1. /\ readbuffer = [p \in 1 .. ReadChunk |-> 0] /\ readbuffer_offset = 0 /\ readbuffer_remaining = 0
      /\ call = Idle /\ tc = [d \in Dirs |-> NoControl] /\ transfer = [d \in Dirs |-> NoTransfer]
      /\ sent = 0 /\ device_got = <<>> /\ gone = FALSE
      /\ received = <<>> /\ given = 0 /\ dropped = [d \in Dirs |-> FALSE]
      /\ calls = Calls /\ mishaps = Mishaps
  BY DEF Init, FtdiInit
<1>2. stream = [transfers |-> <<>>, result |-> "none", activity |-> TRUE, stop |-> FALSE, timeout |-> 0]
  BY DEF Init
<1>3. Types
  <2>1. readbuffer \in [1 .. ReadChunk -> Nat]
    BY <1>1
  <2>2. call \in Call /\ tc \in [Dirs -> Control] /\ transfer \in [Dirs -> Transfer]
    BY <1>1, Nothing
  <2>3. /\ sent \in Nat /\ given \in Nat /\ calls \in Nat /\ mishaps \in Nat
        /\ gone \in BOOLEAN /\ dropped \in [Dirs -> BOOLEAN]
        /\ received \in Seq(Nat) /\ device_got \in Seq(Nat)
    <3>1. <<>> \in Seq(Nat) /\ FALSE \in BOOLEAN /\ [d \in Dirs |-> FALSE] \in [Dirs -> BOOLEAN]
      OBVIOUS
    <3> QED BY <1>1, <3>1, Constants
  <2>4. /\ readbuffer_offset \in Nat /\ readbuffer_remaining \in Nat
        /\ readbuffer_offset + readbuffer_remaining <= ReadChunk
    BY <1>1, Constants
  <2>5. stream \in [transfers : Seq(Transfer), result : {"none", "error", "quiet"},
                    activity : BOOLEAN, stop : BOOLEAN, timeout : Nat]
    <3>1. <<>> \in Seq(Transfer) /\ 0 \in Nat
      OBVIOUS
    <3> HIDE DEF Transfer
    <3> QED BY <1>2, <3>1
  <2> QED BY <2>1, <2>2, <2>3, <2>4, <2>5 DEF Types
<1>4. \A d \in Dirs : tc[d] = NoControl /\ transfer[d] = NoTransfer
  BY <1>1
<1>5. \A d \in Dirs : Calling(d)
  <2> TAKE d \in Dirs
  <2>1. ~Waits("bulk", d)
    BY <1>1 DEF Waits, Idle
  <2>2. tc[d].how = "none" /\ ~tc[d].completed /\ transfer[d].state = "none" /\ tc[d].offset <= tc[d].size
    BY <1>4, Nothing
  <2> QED BY <1>4, <2>1, <2>2 DEF Calling
<1>6. Streaming
  BY <1>1, <1>2 DEF Streaming, Idle
<1>7. /\ tc["in"] = NoControl /\ transfer["in"] = NoTransfer
      /\ tc["out"] = NoControl /\ transfer["out"] = NoTransfer
      /\ dropped["in"] = FALSE /\ dropped["out"] = FALSE
  BY <1>1 DEF Dirs
<1>8. Interval(0, 0) = <<>> /\ Rising(<<>>, 0)
  <2>1. Interval(0, 0) = <<>>
    BY IntervalEmpty
  <2> QED BY <2>1 DEF Rising, Increasing
<1>9. Written
  <2>1. Arrived = 0 /\ transfer["out"].state = "none"
    BY <1>1, <1>7, Nothing DEF Arrived, Over
  <2> QED BY <1>1, <1>8, <2>1 DEF Written
<1>10. Read
  <2>1. ReadsFresh
    BY <1>1, <1>7, Nothing DEF ReadsFresh
  <2>2. Buffered(readbuffer_remaining) = <<>>
    BY <1>1, <1>3, Constants, BufferedNone DEF Types
  <2>3. Flow(received, dropped["in"], <<>>, <<>>, NoTransfer, <<>>, sent)
    <3>1. Brought(NoTransfer) = 0 /\ After(NoTransfer, 0)
      <4>1. Inert(NoTransfer)
        BY Nothing DEF Inert
      <4> QED BY <4>1, InertBrings
    <3>2. Chains(<<>>, 0, 0)
      BY ChainsEmpty
    <3>3. PICK n \in Nat : n = 0
      OBVIOUS
    <3>4. n <= n /\ n = n + Brought(NoTransfer) /\ Rising(<<>>, n) /\ <<>> = Interval(n, n)
          /\ After(NoTransfer, n) /\ Chains(<<>>, n, n)
      BY <1>8, <3>1, <3>2, <3>3
    <3>5. received = <<>> /\ sent = n /\ received = Interval(0, n)
      BY <1>1, <1>8, <3>3
    <3> QED BY <3>4, <3>5, FlowIs
  <2> QED BY <1>2, <1>7, <2>1, <2>2, <2>3, Nothing DEF Read
<1> QED BY <1>3, <1>5, <1>6, <1>9, <1>10 DEF IInv

-----------------------------------------------------------------------------
(***************************************************************************)
(* Reading.                                                                *)
(***************************************************************************)
\* A call starts: nothing is under way, and no stream.
LEMMA Starting ==
  ASSUME IInv, NEW d \in Dirs, Starts(d)
  PROVE  /\ call = Idle /\ tc[d] = NoControl /\ transfer[d] = NoTransfer
         /\ stream.transfers = <<>> /\ calls' \in Nat
<1>1. call = Idle /\ tc[d].how = "none" /\ calls' = calls - 1 /\ calls > 0
  BY DEF Starts
<1>2. tc[d] = NoControl /\ transfer[d] = NoTransfer
  BY <1>1 DEF IInv, Calling
<1>3. stream.transfers = <<>>
  BY <1>1 DEF IInv, Streaming, Idle
<1> QED BY <1>1, <1>2, <1>3 DEF IInv, Types

LEMMA ReadFromBufferKeeps ==
  ASSUME IInv, NEW how \in {"sync", "async"}, NEW size \in ReadSizes, ReadFromBuffer(how, size),
         UNCHANGED stream
  PROVE  IInv'
<1>1. /\ call = Idle /\ tc["in"] = NoControl /\ transfer["in"] = NoTransfer
      /\ calls' \in Nat
  <2>1. Starts("in")
    BY DEF ReadFromBuffer
  <2> QED BY <2>1, Starting, Directions
<1>2. size \in Nat \ {0} /\ size \in 0 .. readbuffer_remaining
  BY Constants DEF ReadFromBuffer, IInv, Types
<1>3. /\ readbuffer_offset' = readbuffer_offset + size /\ readbuffer_remaining' = readbuffer_remaining - size
      /\ readbuffer' = readbuffer /\ call' = call /\ transfer' = transfer /\ sent' = sent /\ device_got' = device_got
      /\ gone' = gone /\ given' = given /\ dropped' = dropped /\ mishaps' = mishaps /\ stream' = stream
  BY DEF ReadFromBuffer, deviceVars
<1> DEFINE kept == Buffered(readbuffer_remaining)
<1>4. kept \in Seq(Nat) /\ Len(kept) = readbuffer_remaining /\ stream.transfers \in Seq(Transfer)
  BY Parts DEF IInv
<1>5. /\ SubSeq(kept, 1, size) = Buffered(size)
      /\ SubSeq(kept, size + 1, readbuffer_remaining) = Buffered(readbuffer_remaining)'
  <2>1. readbuffer_offset + size + (readbuffer_remaining - size) = readbuffer_offset + readbuffer_remaining
    BY <1>2 DEF IInv, Types
  <2>2. Buffered(readbuffer_remaining)'
          = SubSeq(readbuffer, readbuffer_offset + size + 1, readbuffer_offset + readbuffer_remaining)
    BY <1>3, <2>1 DEF Buffered
  <2>3. /\ readbuffer \in [1 .. ReadChunk -> Nat] /\ readbuffer_offset \in Nat /\ readbuffer_remaining \in Nat
        /\ readbuffer_offset + readbuffer_remaining <= ReadChunk
    BY DEF IInv, Types
  <2>4. kept = SubSeq(readbuffer, readbuffer_offset + 1, readbuffer_offset + readbuffer_remaining)
    BY DEF Buffered
  <2> HIDE DEF kept
  <2>5. /\ SubSeq(kept, 1, size) = SubSeq(readbuffer, readbuffer_offset + 1, readbuffer_offset + size)
        /\ SubSeq(kept, size + 1, readbuffer_remaining)
             = SubSeq(readbuffer, readbuffer_offset + size + 1, readbuffer_offset + readbuffer_remaining)
    BY <1>2, <2>3, <2>4, BufferParts
  <2> QED BY <2>2, <2>5 DEF Buffered
<1>6. Buffered(size) \in Seq(Nat) /\ Len(Buffered(size)) = size
  BY <1>2, <1>4, <1>5
<1>7. Flow(received, dropped["in"], <<>>, kept, NoTransfer, stream.transfers, sent)
  BY <1>1, Nothing DEF IInv, Read
<1>8. Flow(received, dropped["in"], Buffered(size), Buffered(readbuffer_remaining)', NoTransfer,
           stream.transfers, sent)
  <2>1. Flow(received, dropped["in"], SubSeq(kept, 1, size), SubSeq(kept, size + 1, Len(kept)), NoTransfer,
             stream.transfers, sent)
    <3> HIDE DEF kept
    <3> QED BY <1>2, <1>4, <1>7, FlowFromBuffer, Nothing DEF IInv, Types
  <2> QED BY <1>4, <1>5, <2>1
<1>9. CASE how = "sync"
  <2>1. received' = received \o Buffered(size) /\ tc' = tc
    BY <1>9 DEF ReadFromBuffer
  <2>2. Types'
    BY <1>1, <1>2, <1>3, <1>6, <2>1, SequenceTypes DEF IInv, Types
  <2>3. \A d \in Dirs : Calling(d)'
    BY <1>3, <2>1, CallingKept DEF IInv
  <2>4. Streaming'
    BY <1>3, <2>1 DEF IInv, Streaming
  <2>5. Written'
    BY <1>3, <2>1, WrittenKept DEF IInv
  <2>6. Flow(received', dropped["in"], <<>>, Buffered(readbuffer_remaining)', NoTransfer,
             stream.transfers, sent)
    <3>1. Buffered(readbuffer_remaining)' \in Seq(Nat)
      <4> HIDE DEF kept
      <4>1. SubSeq(kept, size + 1, readbuffer_remaining) \in Seq(Nat)
        BY <1>2, <1>4, PartIs
      <4> QED BY <1>5, <4>1
    <3> QED BY <1>4, <1>6, <1>8, <2>1, <3>1, FlowReturned, Nothing DEF IInv, Types
  <2>7. Read'
    BY <1>1, <1>3, <2>1, <2>6, Nothing DEF Read, ReadsFresh, IInv, Idle
  <2> QED BY <2>2, <2>3, <2>4, <2>5, <2>7 DEF IInv
<1>10. CASE how = "async"
  <2> DEFINE t == [NoControl EXCEPT
               !.how = how, !.size = size, !.offset = size, !.buf = Buffered(size), !.completed = TRUE]
  <2>1. received' = received /\ tc' = [tc EXCEPT !["in"] = t]
    BY <1>10 DEF ReadFromBuffer
  <2>2. t \in Control /\ t.how = "async" /\ t.size = size /\ t.offset = size /\ t.buf = Buffered(size)
    BY <1>2, <1>6, <1>10 DEF NoControl, Control, Hows, Statuses
  <2> HIDE DEF t
  <2>3. tc' \in [Dirs -> Control] /\ tc'["in"] = t /\ tc'["out"] = tc["out"]
    BY <2>1, <2>2, Updated, Directions DEF IInv, Types
  <2>4. Types'
    BY <1>1, <1>2, <1>3, <2>1, <2>3 DEF IInv, Types
  <2>5. Calling("in")'
    BY <1>1, <1>2, <1>3, <2>2, <2>3, Nothing DEF Calling, Waits, Idle
  <2>6. Calling("out")'
    BY <1>3, <2>3, CallingKept, Directions DEF IInv
  <2>7. Streaming'
    BY <1>1, <1>3 DEF IInv, Streaming, Idle
  <2>8. Written'
    BY <1>3, <2>3, WrittenKept DEF IInv
  <2>9. Read'
    BY <1>1, <1>3, <1>6, <1>8, <2>1, <2>2, <2>3, Nothing DEF Read, ReadsFresh, IInv, Idle
  <2> QED BY <2>4, <2>5, <2>6, <2>7, <2>8, <2>9, Directions DEF IInv
<1> QED BY <1>9, <1>10

\* A synchronous call returns.
LEMMA SyncOver ==
  ASSUME IInv, NEW d \in Dirs, Waits("bulk", d), call' = Idle, tc' = [tc EXCEPT ![d] = NoControl],
         transfer' = [transfer EXCEPT ![d] = NoTransfer], stream' = stream
  PROVE  /\ call' \in Call /\ tc' \in [Dirs -> Control] /\ transfer' \in [Dirs -> Transfer]
         /\ tc'[d] = NoControl /\ transfer'[d] = NoTransfer
         /\ \A e \in Dirs : e # d => tc'[e] = tc[e] /\ transfer'[e] = transfer[e]
         /\ \A e \in Dirs : Calling(e)'
         /\ Streaming'
<1>1. /\ call' \in Call /\ tc' \in [Dirs -> Control] /\ transfer' \in [Dirs -> Transfer]
      /\ tc'[d] = NoControl /\ transfer'[d] = NoTransfer
      /\ \A e \in Dirs : e # d => tc'[e] = tc[e] /\ transfer'[e] = transfer[e]
  BY Nothing, Updated DEF IInv, Types
<1>2. Calling(d)'
  <2>1. call' # [name |-> "bulk", dir |-> d]
    BY DEF Idle
  <2> QED BY <1>1, <2>1, Nothing DEF Calling, Waits
<1>3. ASSUME NEW e \in Dirs, e # d PROVE Calling(e)'
  <2>1. call' # [name |-> "bulk", dir |-> e] /\ call # [name |-> "bulk", dir |-> e]
    BY <1>3 DEF Idle, Waits
  <2> QED BY <1>1, <1>3, <2>1, CallingKept DEF IInv
<1>4. Streaming'
  BY DEF IInv, Streaming, Waits, Idle
<1> QED BY <1>1, <1>2, <1>3, <1>4

LEMMA ReadOver ==
  ASSUME tc'["in"] = NoControl, transfer'["in"] = NoTransfer, call' = Idle,
         Flow(received', dropped'["in"], <<>>, Buffered(readbuffer_remaining)', NoTransfer, stream'.transfers, sent')
  PROVE  Read'
<1>1. tc'["in"].buf = <<>> /\ tc'["in"].offset = 0 /\ transfer'["in"].state = "none" /\ Len(<<>>) = 0
  BY Nothing
<1>2. ReadsFresh'
  BY <1>1 DEF ReadsFresh, Idle
<1> QED BY <1>1, <1>2 DEF Read

\* Over a transfer in flight nothing is kept.
LEMMA NothingKept ==
  ASSUME IInv, transfer["in"].state # "none"
  PROVE  /\ readbuffer_offset = 0 /\ readbuffer_remaining = 0 /\ Buffered(readbuffer_remaining) = <<>>
         /\ Flow(received, dropped["in"], tc["in"].buf, <<>>, transfer["in"], stream.transfers, sent)
<1>1. readbuffer_offset = 0 /\ readbuffer_remaining = 0
  BY DEF IInv, Read, ReadsFresh
<1>2. Buffered(readbuffer_remaining) = <<>>
  BY <1>1, BufferedNone, Constants DEF IInv, Types
<1> QED BY <1>1, <1>2 DEF IInv, Read

LEMMA StartReadKeeps ==
  ASSUME IInv, NEW how \in {"sync", "async"}, NEW size \in ReadSizes, StartRead(how, size),
         UNCHANGED stream
  PROVE  IInv'
<1>1. /\ call = Idle /\ tc["in"] = NoControl /\ transfer["in"] = NoTransfer
      /\ calls' \in Nat /\ stream.transfers = <<>>
  <2>1. Starts("in")
    BY DEF StartRead
  <2> QED BY <2>1, Starting, Directions
<1>2. size \in Nat \ {0} /\ size > readbuffer_remaining
  BY Constants DEF StartRead
<1>3. /\ readbuffer_offset' = 0 /\ readbuffer_remaining' = 0
      /\ readbuffer' = readbuffer /\ sent' = sent /\ device_got' = device_got
      /\ gone' = gone /\ given' = given /\ received' = received /\ mishaps' = mishaps /\ stream' = stream
  BY DEF StartRead, deviceVars
<1> DEFINE kept == Buffered(readbuffer_remaining)
<1>4. kept \in Seq(Nat) /\ Len(kept) = readbuffer_remaining /\ stream.transfers \in Seq(Transfer)
  BY Parts DEF IInv
<1>5. Buffered(readbuffer_remaining)' = <<>>
  <2>1. Buffered(readbuffer_remaining)' = SubSeq(readbuffer, 0 + 1, 0)
    BY <1>3 DEF Buffered
  <2>2. readbuffer \in [1 .. ReadChunk -> Nat] /\ ReadChunk \in Nat
    BY Constants DEF IInv, Types
  <2>3. SubSeq(readbuffer, 0 + 1, 0) = <<>>
    BY <2>2
  <2> QED BY <2>1, <2>3
<1>6. Flow(received, dropped["in"], <<>>, kept, NoTransfer, stream.transfers, sent)
  BY <1>1, Nothing DEF IInv, Read
<1>7. CASE how = "async" /\ gone
  <2>1. dropped' = [dropped EXCEPT !["in"] = TRUE] /\ call' = call /\ tc' = tc /\ transfer' = transfer
    BY <1>7 DEF StartRead
  <2>2. dropped' \in [Dirs -> BOOLEAN] /\ dropped'["in"] = TRUE /\ dropped'["out"] = dropped["out"]
    BY <2>1, Directions DEF IInv, Types
  <2>3. Types'
    <3>1. readbuffer_offset' \in Nat /\ readbuffer_remaining' \in Nat
          /\ readbuffer_offset' + readbuffer_remaining' <= ReadChunk
      BY <1>3, Constants
    <3> HIDE DEF kept
    <3> QED BY <1>1, <1>3, <2>1, <2>2, <3>1 DEF IInv, Types
  <2>4. \A d \in Dirs : Calling(d)'
    BY <1>3, <2>1, CallingKept DEF IInv
  <2>5. Streaming'
    BY <1>3, <2>1 DEF IInv, Streaming
  <2>6. Written'
    BY <1>3, <2>1, <2>2, WrittenKept DEF IInv
  <2>7. Flow(received, dropped'["in"], <<>>, <<>>, NoTransfer, stream.transfers, sent)
    <3>1. Inert(NoTransfer) /\ <<>> \in Seq(Nat)
      BY Nothing DEF Inert
    <3> HIDE DEF kept
    <3> QED BY <1>4, <1>6, <2>2, <3>1, FlowLost, Nothing, ZenonT(30) DEF IInv, Types
  <2>8. Read'
    BY <1>1, <1>3, <1>5, <2>1, <2>7, ReadOver
  <2> QED BY <2>3, <2>4, <2>5, <2>6, <2>8 DEF IInv
<1>8. CASE ~(how = "async" /\ gone)
  <2> DEFINE t == [NoControl EXCEPT
               !.how = how, !.size = size, !.offset = readbuffer_remaining, !.buf = kept, !.transfer = TRUE]
             x == Submitted(0, ReadChunk)
  <2>1. /\ tc' = [tc EXCEPT !["in"] = t] /\ transfer' = [transfer EXCEPT !["in"] = x] /\ dropped' = dropped
        /\ call' = IF how = "sync" THEN [name |-> "bulk", dir |-> "in"] ELSE call
    BY <1>8 DEF StartRead
  <2>2. /\ t \in Control /\ t.how = how /\ t.size = size /\ t.offset = readbuffer_remaining /\ t.buf = kept
        /\ ~t.completed
    <3> HIDE DEF kept
    <3> QED BY <1>2, <1>4 DEF NoControl, Control, Hows, Statuses, IInv, Types
  <2>3. x \in Transfer /\ x.state \in {"pending", "over"} /\ Inert(x)
    BY SubmittedIs, Constants DEF Inert, IInv
  <2> HIDE DEF t, x
  <2>4. /\ tc' \in [Dirs -> Control] /\ tc'["in"] = t /\ tc'["out"] = tc["out"]
        /\ transfer' \in [Dirs -> Transfer] /\ transfer'["in"] = x /\ transfer'["out"] = transfer["out"]
    BY <2>1, <2>2, <2>3, Updated, Directions DEF IInv, Types
  <2>5. call' \in Call
    BY <1>1, <2>1, Nothing DEF Call, Dirs
  <2>6. Types'
    BY <1>1, <1>3, <2>1, <2>4, <2>5, Constants DEF IInv, Types
  <2>7. Calling("in")'
    <3>1. how = "sync" <=> call' = [name |-> "bulk", dir |-> "in"]
      BY <1>1, <2>1 DEF Idle
    <3>2. readbuffer_remaining <= size
      BY <1>2 DEF IInv, Types
    <3> QED BY <2>2, <2>3, <2>4, <3>1, <3>2 DEF Calling, Waits
  <2>8. Calling("out")'
    <3>1. call # [name |-> "bulk", dir |-> "out"] /\ call' # [name |-> "bulk", dir |-> "out"]
      BY <1>1, <2>1 DEF Idle
    <3> QED BY <2>4, <3>1, CallingKept, Directions DEF IInv
  <2>9. Streaming'
    BY <1>1, <1>3, <2>1 DEF Streaming, Idle
  <2>10. Written'
    BY <1>3, <2>1, <2>4, WrittenKept DEF IInv
  <2>11. Flow(received, dropped["in"], kept, <<>>, x, stream.transfers, sent)
    <3> HIDE DEF kept
    <3>1. Flow(received, dropped["in"], SubSeq(kept, 1, Len(kept)), SubSeq(kept, Len(kept) + 1, Len(kept)), NoTransfer,
               stream.transfers, sent)
      <4>1. Len(kept) \in 0 .. Len(kept)
        BY <1>4
      <4> QED BY <1>4, <1>6, <4>1, FlowFromBuffer, Nothing DEF IInv, Types
    <3>2. SubSeq(kept, 1, Len(kept)) = kept /\ SubSeq(kept, Len(kept) + 1, Len(kept)) = <<>>
      BY <1>4
    <3>3. Flow(received, dropped["in"], kept, <<>>, NoTransfer, stream.transfers, sent)
      BY <3>1, <3>2
    <3>4. Brought(NoTransfer) = 0 /\ <<>> \in Seq(Nat)
      BY Nothing DEF Brought
    <3> QED BY <1>4, <2>3, <3>3, <3>4, FlowSubmitted, Nothing DEF IInv, Types
  <2>12. Read'
    <3>1. ReadsFresh'
      BY <1>3, <1>4, <2>2, <2>4 DEF ReadsFresh
    <3> QED BY <1>3, <1>5, <2>1, <2>2, <2>4, <2>11, <3>1 DEF Read
  <2> QED BY <2>6, <2>7, <2>8, <2>9, <2>10, <2>12, Directions DEF IInv
<1> QED BY <1>7, <1>8

LEMMA ReadFailsKeeps ==
  ASSUME IInv, ReadFails, UNCHANGED stream
  PROVE  IInv'
<1>1. /\ Waits("bulk", "in") /\ transfer["in"].state = "over"
      /\ call' = Idle /\ tc' = [tc EXCEPT !["in"] = NoControl]
      /\ transfer' = [transfer EXCEPT !["in"] = NoTransfer]
      /\ dropped' = [dropped EXCEPT !["in"] = TRUE]
  BY DEF ReadFails, Over
<1>2. /\ readbuffer_offset' = readbuffer_offset /\ readbuffer_remaining' = readbuffer_remaining
      /\ readbuffer' = readbuffer /\ sent' = sent /\ device_got' = device_got /\ gone' = gone /\ given' = given
      /\ received' = received /\ mishaps' = mishaps /\ calls' = calls /\ stream' = stream
  BY DEF ReadFails, contextVars, deviceVars, boundVars
<1>3. /\ call' \in Call /\ tc' \in [Dirs -> Control] /\ transfer' \in [Dirs -> Transfer]
      /\ tc'["in"] = NoControl /\ transfer'["in"] = NoTransfer
      /\ tc'["out"] = tc["out"] /\ transfer'["out"] = transfer["out"]
      /\ (\A e \in Dirs : Calling(e)') /\ Streaming'
  BY <1>1, <1>2, SyncOver, Directions
<1>4. dropped' \in [Dirs -> BOOLEAN] /\ dropped'["in"] = TRUE /\ dropped'["out"] = dropped["out"]
  BY <1>1, Directions DEF IInv, Types
<1>5. Types'
  BY <1>2, <1>3, <1>4 DEF IInv, Types
<1>6. Written'
  BY <1>2, <1>3, <1>4, WrittenKept DEF IInv
<1>7. Buffered(readbuffer_remaining)' = <<>>
  <2>1. Buffered(readbuffer_remaining) = <<>>
    BY <1>1, NothingKept
  <2> QED BY <1>2, <2>1 DEF Buffered
<1>8. Flow(received, dropped'["in"], <<>>, <<>>, NoTransfer, stream.transfers, sent)
  <2>1. Inert(NoTransfer) /\ <<>> \in Seq(Nat)
    BY Nothing DEF Inert
  <2>2. Flow(received, dropped["in"], tc["in"].buf, <<>>, transfer["in"], stream.transfers, sent)
    BY <1>1, NothingKept
  <2>3. tc["in"].buf \in Seq(Nat) /\ transfer["in"] \in Transfer /\ stream.transfers \in Seq(Transfer)
    BY Parts DEF IInv
  <2> QED BY <1>4, <2>1, <2>2, <2>3, FlowLost DEF IInv, Types
<1>9. Read'
  BY <1>1, <1>2, <1>3, <1>7, <1>8, ReadOver
<1> QED BY <1>3, <1>5, <1>6, <1>9 DEF IInv

\* A transfer of no more than status bytes brings nothing.
LEMMA EmptyBrings ==
  ASSUME NEW has, NEW lost, NEW gathered \in Seq(Nat), NEW x \in Transfer, NEW xs \in Seq(Transfer),
         NEW top \in Nat, Flow(has, lost, gathered, <<>>, x, xs, top), ~(x.length > 2)
  PROVE  Brought(x) = 0
<1>1. <<>> \in Seq(Nat)
  OBVIOUS
<1>2. PICK a, b, c, d \in Nat : Ends(a, b, c, d, has, lost, gathered, <<>>, x, xs, top)
  BY <1>1, FlowEnds
<1>3. CASE x.state = "over"
  <2>1. Whole(x.length) /\ x.length \in Nat
    BY <1>2, <1>3 DEF Ends, After, Transfer
  <2>2. Data(x.length) \in Nat /\ ~(Data(x.length) > 0)
    BY <2>1, DataPositive
  <2> QED BY <1>3, <2>2 DEF Brought
<1>4. CASE x.state # "over"
  BY <1>4 DEF Brought
<1> QED BY <1>3, <1>4

LEMMA ReadNothingKeeps ==
  ASSUME IInv, ReadNothing, UNCHANGED stream
  PROVE  IInv'
<1>1. /\ Waits("bulk", "in") /\ transfer["in"].state = "over" /\ transfer["in"].length <= 2
      /\ call' = Idle /\ tc' = [tc EXCEPT !["in"] = NoControl]
      /\ transfer' = [transfer EXCEPT !["in"] = NoTransfer]
      /\ received' = received \o tc["in"].buf
  BY DEF ReadNothing, ReadReturns, Over
<1>2. /\ readbuffer_offset' = readbuffer_offset /\ readbuffer_remaining' = readbuffer_remaining
      /\ readbuffer' = readbuffer /\ sent' = sent /\ device_got' = device_got /\ gone' = gone /\ given' = given
      /\ dropped' = dropped /\ mishaps' = mishaps /\ calls' = calls /\ stream' = stream
  BY DEF ReadNothing, contextVars, deviceVars, boundVars
<1>3. /\ call' \in Call /\ tc' \in [Dirs -> Control] /\ transfer' \in [Dirs -> Transfer]
      /\ tc'["in"] = NoControl /\ transfer'["in"] = NoTransfer
      /\ tc'["out"] = tc["out"] /\ transfer'["out"] = transfer["out"]
      /\ (\A e \in Dirs : Calling(e)') /\ Streaming'
  BY <1>1, <1>2, SyncOver, Directions
<1>4. tc["in"].buf \in Seq(Nat) /\ transfer["in"] \in Transfer /\ stream.transfers \in Seq(Transfer)
  BY Parts DEF IInv
<1>5. Types'
  <2>1. received' \in Seq(Nat)
    BY <1>1, <1>4, SequenceTypes DEF IInv, Types
  <2> QED BY <1>2, <1>3, <2>1 DEF IInv, Types
<1>6. Written'
  BY <1>2, <1>3, WrittenKept DEF IInv
<1>7. Buffered(readbuffer_remaining)' = <<>>
  <2>1. Buffered(readbuffer_remaining) = <<>>
    BY <1>1, NothingKept
  <2> QED BY <1>2, <2>1 DEF Buffered
<1>8. Flow(received', dropped["in"], <<>>, <<>>, NoTransfer, stream.transfers, sent)
  <2>1. Inert(NoTransfer) /\ <<>> \in Seq(Nat)
    BY Nothing DEF Inert
  <2>2. Flow(received, dropped["in"], tc["in"].buf, <<>>, transfer["in"], stream.transfers, sent)
    BY <1>1, NothingKept
  <2>3. Brought(transfer["in"]) = 0
    <3>1. ~(transfer["in"].length > 2)
      BY <1>1, <1>4 DEF Transfer
    <3> QED BY <1>4, <2>2, <3>1, EmptyBrings DEF IInv, Types
  <2>4. Flow(received, dropped["in"], tc["in"].buf, <<>>, NoTransfer, stream.transfers, sent)
    BY <1>4, <2>1, <2>2, <2>3, FlowSubmitted DEF IInv, Types
  <2> QED BY <1>1, <1>4, <2>1, <2>4, FlowReturned, Nothing DEF IInv, Types
<1>9. Read'
  BY <1>1, <1>2, <1>3, <1>7, <1>8, ReadOver
<1> QED BY <1>3, <1>5, <1>6, <1>9 DEF IInv

\* What a transfer with data means for the call, the read buffer and the flow.
LEMMA TakenFlow ==
  ASSUME IInv, transfer["in"].state = "over", transfer["in"].length > 2,
         NEW r, r = Taken(tc["in"], transfer["in"])
  PROVE  /\ r.control \in Control /\ r.control.how = tc["in"].how /\ r.control.completed = tc["in"].completed
         /\ r.control.offset = Len(r.control.buf) /\ r.control.offset <= r.control.size
         /\ r.control.buf \in Seq(Nat)
         /\ r.buffer \in [1 .. ReadChunk -> Nat] /\ r.offset \in Nat /\ r.remaining \in Nat
         /\ r.offset + r.remaining <= ReadChunk
         /\ ~Full(r.control) => r.remaining = 0 /\ (tc["in"].how = "async" => r.offset = 0)
         /\ SubSeq(r.buffer, r.offset + 1, r.offset + r.remaining) \in Seq(Nat)
         /\ \A y : Inert(y) =>
              Flow(received, dropped["in"], r.control.buf,
                   SubSeq(r.buffer, r.offset + 1, r.offset + r.remaining), y, stream.transfers, sent)
<1>1. PICK t \in Control : t = tc["in"]
  BY Parts DEF IInv
<1>2. PICK x \in Transfer : x = transfer["in"]
  BY Parts DEF IInv
<1>3. /\ readbuffer_offset = 0 /\ readbuffer \in [1 .. ReadChunk -> Nat]
      /\ Flow(received, dropped["in"], t.buf, <<>>, x, stream.transfers, sent)
  BY <1>1, <1>2, NothingKept DEF IInv, Types
<1>4. t.buf \in Seq(Nat) /\ t.offset = Len(t.buf) /\ t.offset <= t.size /\ t.size \in Nat
  BY <1>1, Directions DEF Control, IInv, Read, ReadsFresh, Calling
<1>5. x.state = "over" /\ x.length > 2 /\ x.length \in Nat /\ stream.transfers \in Seq(Transfer)
  BY <1>2, Parts DEF Transfer, IInv
<1>6. PICK c \in Nat :
        /\ After(x, c)
        /\ \A part \in 0 .. Data(x.length) : \A y : Inert(y) =>
             Flow(received, dropped["in"], t.buf \o Interval(c, c + part),
                  Interval(c + part, c + Data(x.length)), y, stream.transfers, sent)
  BY <1>3, <1>4, <1>5, FlowTaken DEF IInv, Types
<1>7. Whole(x.length) /\ x.first = c + 1 /\ Data(x.length) \in Nat
  <2>1. Whole(x.length)
    BY <1>5, <1>6 DEF After
  <2>2. Data(x.length) > 0 /\ Data(x.length) \in Nat
    BY <1>5, <2>1, DataPositive
  <2> QED BY <1>5, <1>6, <2>1, <2>2 DEF After, Brought
<1>8. PICK n \in Nat : n = Data(x.length)
  BY <1>7
<1> DEFINE p == IF t.offset + n <= t.size THEN n ELSE t.size - t.offset
<1>9. /\ p \in 0 .. n /\ t.offset + p <= t.size
      /\ r.control = [t EXCEPT !.buf = @ \o Interval(c, c + p), !.offset = @ + p]
      /\ r.buffer \in [1 .. ReadChunk -> Nat]
      /\ r.remaining = n - p /\ r.offset \in Nat
      /\ r.offset + r.remaining <= ReadChunk
      /\ SubSeq(r.buffer, r.offset + 1, r.offset + r.remaining) = Interval(c + p, c + n)
      /\ t.offset + p < t.size => r.remaining = 0 /\ (t.how = "async" => r.offset = 0)
  <2>1. r = Taken(t, x)
    BY <1>1, <1>2
  <2>2. /\ readbuffer \in [1 .. ReadChunk -> Nat] /\ readbuffer_offset = 0
        /\ Whole(x.length) /\ x.length > 2 /\ x.first = c + 1 /\ t.offset <= t.size
    BY <1>3, <1>4, <1>5, <1>7
  <2>3. LET u == Taken(t, x)
            m == Data(x.length)
            q == IF t.offset + m <= t.size THEN m ELSE t.size - t.offset
        IN /\ q \in 0 .. m
           /\ t.offset + q <= t.size
           /\ u.control = [t EXCEPT !.buf = @ \o Interval(c, c + q), !.offset = @ + q]
           /\ u.buffer \in [1 .. ReadChunk -> Nat]
           /\ u.remaining = m - q /\ u.offset \in Nat
           /\ u.offset + u.remaining <= ReadChunk
           /\ SubSeq(u.buffer, u.offset + 1, u.offset + u.remaining) = Interval(c + q, c + m)
           /\ t.offset + q < t.size => u.remaining = 0 /\ (t.how = "async" => u.offset = 0)
    BY ONLY <2>2, t \in Control, x \in Transfer, c \in Nat, TakenIs, Zenon
  <2> QED BY ONLY <1>8, <2>1, <2>3, Zenon DEF p
<1>10. PICK part \in 0 .. n : part = p
  BY <1>9
<1> HIDE DEF p
<1>11. Interval(c, c + part) \in Seq(Nat) /\ Len(Interval(c, c + part)) = part
  <2>1. PICK e \in Nat : e = c + part
    OBVIOUS
  <2>2. c <= e /\ e - c = part
    BY <2>1
  <2> QED BY <2>1, <2>2, IntervalIs
<1>12. PICK s \in Seq(Nat) : s = t.buf \o Interval(c, c + part) /\ Len(s) = t.offset + part
  <2>1. t.buf \o Interval(c, c + part) \in Seq(Nat)
        /\ Len(t.buf \o Interval(c, c + part)) = Len(t.buf) + Len(Interval(c, c + part))
    BY <1>4, <1>11, ConcatProperties
  <2> QED BY <1>4, <1>11, <2>1
<1>13. r.control = [t EXCEPT !.buf = s, !.offset = @ + part]
  BY <1>9, <1>10, <1>12
<1>14. /\ r.control \in Control /\ r.control.how = t.how /\ r.control.completed = t.completed
       /\ r.control.offset = t.offset + part /\ r.control.buf = s /\ r.control.size = t.size
  <2>1. t.offset + part \in Nat
    BY <1>4
  <2> QED BY <1>13, <2>1 DEF Control
<1>15. r.offset + r.remaining <= ReadChunk /\ r.remaining \in Nat /\ r.offset \in Nat
       /\ r.buffer \in [1 .. ReadChunk -> Nat]
  BY <1>9, <1>10
<1>16. SubSeq(r.buffer, r.offset + 1, r.offset + r.remaining) \in Seq(Nat)
  BY <1>15, BufferIs
<1>17. ~Full(r.control) => r.remaining = 0 /\ (t.how = "async" => r.offset = 0)
  <2> HAVE ~Full(r.control)
  <2>1. t.offset + part # t.size /\ t.offset + part <= t.size
    BY <1>9, <1>10, <1>14 DEF Full
  <2>2. t.offset + part < t.size
    <3>1. PICK m \in Nat : m = t.offset + part
      BY <1>4
    <3>2. m # t.size /\ m <= t.size
      BY <2>1, <3>1
    <3>3. m < t.size
      BY <1>4, <3>2
    <3> QED BY <3>1, <3>3
  <2> QED BY <1>9, <1>10, <2>2
<1>18. ASSUME NEW y, Inert(y)
       PROVE  Flow(received, dropped["in"], s,
                   SubSeq(r.buffer, r.offset + 1, r.offset + r.remaining), y, stream.transfers, sent)
  BY <1>6, <1>8, <1>9, <1>10, <1>12, <1>18
<1>19. s = r.control.buf /\ t.offset + part = Len(s) /\ t.offset + part <= t.size
  BY <1>9, <1>10, <1>12, <1>14
<1>20. \A y : Inert(y) =>
         Flow(received, dropped["in"], r.control.buf,
              SubSeq(r.buffer, r.offset + 1, r.offset + r.remaining), y, stream.transfers, sent)
  BY <1>18, <1>19
<1>21. /\ r.control.offset = Len(r.control.buf) /\ r.control.offset <= r.control.size
       /\ r.control.buf \in Seq(Nat)
  BY <1>14, <1>19
<1> QED BY ONLY <1>1, <1>14, <1>15, <1>16, <1>17, <1>20, <1>21

LEMMA ReadChunkDoneKeeps ==
  ASSUME IInv, ReadChunkDone, UNCHANGED stream
  PROVE  IInv'
<1>1. PICK r : r = Taken(tc["in"], transfer["in"])
  OBVIOUS
<1>2. /\ Waits("bulk", "in") /\ transfer["in"].state = "over" /\ transfer["in"].length > 2
      /\ readbuffer' = r.buffer
  BY <1>1 DEF ReadChunkDone, Over
<1>3. /\ sent' = sent /\ device_got' = device_got /\ gone' = gone /\ given' = given
      /\ dropped' = dropped /\ mishaps' = mishaps /\ calls' = calls /\ stream' = stream
  BY DEF ReadChunkDone, deviceVars, boundVars
<1> DEFINE kept == SubSeq(r.buffer, r.offset + 1, r.offset + r.remaining)
<1>4. /\ r.control \in Control /\ r.control.how = tc["in"].how /\ r.control.completed = tc["in"].completed
      /\ r.control.offset = Len(r.control.buf) /\ r.control.offset <= r.control.size
      /\ r.control.buf \in Seq(Nat)
      /\ r.buffer \in [1 .. ReadChunk -> Nat] /\ r.offset \in Nat /\ r.remaining \in Nat
      /\ r.offset + r.remaining <= ReadChunk
      /\ ~Full(r.control) => r.remaining = 0
      /\ kept \in Seq(Nat)
      /\ \A y : Inert(y) => Flow(received, dropped["in"], r.control.buf, kept, y, stream.transfers, sent)
  BY <1>1, <1>2, TakenFlow
<1>5. stream.transfers \in Seq(Transfer) /\ transfer["in"] \in Transfer
  BY Parts DEF IInv
<1>6. CASE Full(r.control)
  <2>1. /\ readbuffer_offset' = r.offset /\ readbuffer_remaining' = r.remaining
        /\ call' = Idle /\ tc' = [tc EXCEPT !["in"] = NoControl]
        /\ transfer' = [transfer EXCEPT !["in"] = NoTransfer]
        /\ received' = received \o r.control.buf
    BY <1>1, <1>6 DEF ReadChunkDone, ReadReturns
  <2>2. /\ call' \in Call /\ tc' \in [Dirs -> Control] /\ transfer' \in [Dirs -> Transfer]
        /\ tc'["in"] = NoControl /\ transfer'["in"] = NoTransfer
        /\ tc'["out"] = tc["out"] /\ transfer'["out"] = transfer["out"]
        /\ (\A e \in Dirs : Calling(e)') /\ Streaming'
    BY <1>2, <1>3, <2>1, SyncOver, Directions
  <2>3. Types'
    <3>1. received' \in Seq(Nat)
      BY <1>4, <2>1, SequenceTypes DEF IInv, Types
    <3> HIDE DEF kept
    <3> QED BY <1>2, <1>3, <1>4, <2>1, <2>2, <3>1 DEF IInv, Types
  <2>4. Written'
    BY <1>3, <2>2, WrittenKept DEF IInv
  <2>5. Buffered(readbuffer_remaining)' = kept
    BY <1>2, <2>1 DEF Buffered
  <2>6. Flow(received', dropped["in"], <<>>, kept, NoTransfer, stream.transfers, sent)
    <3>1. Inert(NoTransfer)
      BY Nothing DEF Inert
    <3> HIDE DEF kept
    <3>2. Flow(received, dropped["in"], r.control.buf, kept, NoTransfer, stream.transfers, sent)
      BY <1>4, <3>1
    <3> QED BY <1>4, <1>5, <2>1, <3>2, FlowReturned, Nothing DEF IInv, Types
  <2> HIDE DEF kept
  <2>7. Read'
    BY <1>3, <2>1, <2>2, <2>5, <2>6, ReadOver
  <2> QED BY <2>2, <2>3, <2>4, <2>7 DEF IInv
<1>7. CASE ~Full(r.control)
  <2> DEFINE x == Submitted(0, ReadChunk)
  <2>1. /\ readbuffer_offset' = 0 /\ readbuffer_remaining' = 0
        /\ tc' = [tc EXCEPT !["in"] = r.control] /\ transfer' = [transfer EXCEPT !["in"] = x]
        /\ call' = call /\ received' = received
    BY <1>1, <1>7 DEF ReadChunkDone
  <2>2. x \in Transfer /\ x.state \in {"pending", "over"} /\ Inert(x)
    BY SubmittedIs, Constants DEF Inert, IInv
  <2> HIDE DEF x
  <2>3. /\ tc' \in [Dirs -> Control] /\ tc'["in"] = r.control /\ tc'["out"] = tc["out"]
        /\ transfer' \in [Dirs -> Transfer] /\ transfer'["in"] = x /\ transfer'["out"] = transfer["out"]
    BY <1>4, <2>1, <2>2, Updated, Directions DEF IInv, Types
  <2>4. Types'
    <3>1. readbuffer_offset' \in Nat /\ readbuffer_remaining' \in Nat
          /\ readbuffer_offset' + readbuffer_remaining' <= ReadChunk
      BY <2>1, Constants
    <3> HIDE DEF kept
    <3> QED BY <1>2, <1>3, <1>4, <2>1, <2>3, <3>1 DEF IInv, Types
  <2>5. Calling("in")'
    <3>1. tc["in"].how = "sync" /\ call' = [name |-> "bulk", dir |-> "in"] /\ ~tc["in"].completed
      BY <1>2, <2>1, Directions DEF IInv, Calling, Waits
    <3> QED BY <1>4, <2>2, <2>3, <3>1 DEF Calling, Waits
  <2>6. Calling("out")'
    BY <2>1, <2>3, CallingKept, Directions DEF IInv
  <2>7. Streaming'
    BY <1>2, <1>3, <2>1 DEF IInv, Streaming, Waits
  <2>8. Written'
    BY <1>3, <2>3, WrittenKept DEF IInv
  <2>9. kept = <<>> /\ Buffered(readbuffer_remaining)' = <<>>
    <3>1. Len(kept) = r.remaining
      BY <1>4, BufferIs
    <3>2. kept = <<>>
      <4> HIDE DEF kept
      <4> QED BY <1>4, <1>7, <3>1
    <3>3. Buffered(readbuffer_remaining)' = SubSeq(r.buffer, 0 + 1, 0)
      BY <1>2, <2>1 DEF Buffered
    <3>4. SubSeq(r.buffer, 0 + 1, 0) = <<>>
      BY <1>4, Constants
    <3> QED BY <3>2, <3>3, <3>4
  <2> HIDE DEF kept
  <2>10. Flow(received, dropped["in"], r.control.buf, <<>>, x, stream.transfers, sent)
    BY <1>4, <2>2, <2>9
  <2>11. Read'
    <3>1. ReadsFresh'
      BY <1>4, <2>1, <2>3 DEF ReadsFresh
    <3> QED BY <1>3, <2>1, <2>3, <2>9, <2>10, <3>1 DEF Read
  <2> QED BY <2>4, <2>5, <2>6, <2>7, <2>8, <2>11, Directions DEF IInv
<1> QED BY <1>6, <1>7

\* An asynchronous call goes on, or is completed.
LEMMA GoesOnKeeps ==
  ASSUME IInv, NEW d \in Dirs, call # Idle, tc[d].how = "async", transfer[d].state = "over",
         NEW t \in Control, t.how = "async", ~t.completed, t.offset <= t.size,
         NEW next \in Transfer, next.state \in {"pending", "over"},
         NEW over \in BOOLEAN, over <=> (Full(t) \/ transfer[d].status = "CANCELLED" \/ gone),
         tc' = [tc EXCEPT ![d] = [t EXCEPT !.completed = over, !.status = transfer[d].status]],
         transfer' = [transfer EXCEPT ![d] = IF over THEN NoTransfer ELSE next],
         call' = call, stream' = stream
  PROVE  /\ tc' \in [Dirs -> Control] /\ transfer' \in [Dirs -> Transfer]
         /\ tc'[d] = [t EXCEPT !.completed = over, !.status = transfer[d].status]
         /\ transfer'[d] = (IF over THEN NoTransfer ELSE next)
         /\ \A e \in Dirs : e # d => tc'[e] = tc[e] /\ transfer'[e] = transfer[e]
         /\ (\A e \in Dirs : Calling(e)') /\ Streaming'
<1> DEFINE u == [t EXCEPT !.completed = over, !.status = transfer[d].status]
           y == IF over THEN NoTransfer ELSE next
<1>1. tc' = [tc EXCEPT ![d] = u] /\ transfer' = [transfer EXCEPT ![d] = y]
  OBVIOUS
<1>2. transfer[d].status \in Statuses
  BY DEF IInv, Types, Transfer
<1>3. /\ u \in Control /\ u.offset = t.offset /\ u.buf = t.buf /\ u.size = t.size /\ u.how = "async"
      /\ u.completed = over
  BY <1>2 DEF Control
<1>4. y \in Transfer /\ (over => y = NoTransfer) /\ (~over => y = next)
  BY Nothing
<1> HIDE DEF u
<1>5. /\ tc' \in [Dirs -> Control] /\ tc'[d] = u
      /\ transfer' \in [Dirs -> Transfer] /\ transfer'[d] = y
      /\ \A e \in Dirs : e # d => tc'[e] = tc[e] /\ transfer'[e] = transfer[e]
  <2> HIDE DEF y
  <2> QED BY <1>1, <1>3, <1>4, Updated DEF IInv, Types
<1>6. Calling(d)'
  <2>1. call' # [name |-> "bulk", dir |-> d]
    BY DEF IInv, Calling, Waits
  <2> HIDE DEF y
  <2> QED BY <1>3, <1>4, <1>5, <2>1, Nothing DEF Calling, Waits
<1>7. ASSUME NEW e \in Dirs, e # d PROVE Calling(e)'
  BY <1>5, <1>7, CallingKept DEF IInv
<1>8. Streaming'
  BY DEF IInv, Streaming
<1> QED BY <1>3, <1>5, <1>6, <1>7, <1>8

LEMMA ReadCallbackKeeps ==
  ASSUME IInv, ftdi_read_data_cb, UNCHANGED stream
  PROVE  IInv'
<1>1. /\ call # Idle /\ tc["in"].how = "async" /\ transfer["in"].state = "over" /\ call' = call
      /\ sent' = sent /\ device_got' = device_got /\ gone' = gone /\ given' = given /\ received' = received
      /\ dropped' = dropped /\ mishaps' = mishaps /\ calls' = calls /\ stream' = stream
  BY DEF ftdi_read_data_cb, Over, deviceVars, boundVars
<1>2. /\ tc["in"] \in Control /\ transfer["in"] \in Transfer /\ stream.transfers \in Seq(Transfer)
      /\ tc["in"].buf \in Seq(Nat)
      /\ ~tc["in"].completed /\ tc["in"].offset <= tc["in"].size /\ tc["in"].offset = Len(tc["in"].buf)
  BY <1>1, Parts, Directions DEF IInv, Calling, Read, ReadsFresh
<1> DEFINE next == Submitted(0, ReadChunk)
<1>3. next \in Transfer /\ next.state \in {"pending", "over"} /\ Inert(next)
  BY SubmittedIs, Constants DEF Inert, IInv
<1>4. Inert(NoTransfer)
  BY Nothing DEF Inert
<1>5. CASE transfer["in"].length > 2
  <2>1. PICK r : r = Taken(tc["in"], transfer["in"])
    OBVIOUS
  <2> DEFINE kept == SubSeq(r.buffer, r.offset + 1, r.offset + r.remaining)
  <2>2. /\ r.control \in Control /\ r.control.how = "async" /\ ~r.control.completed
        /\ r.control.offset = Len(r.control.buf) /\ r.control.offset <= r.control.size
        /\ r.control.buf \in Seq(Nat)
        /\ r.buffer \in [1 .. ReadChunk -> Nat] /\ r.offset \in Nat /\ r.remaining \in Nat
        /\ r.offset + r.remaining <= ReadChunk
        /\ ~Full(r.control) => r.remaining = 0 /\ r.offset = 0
        /\ \A y : Inert(y) => Flow(received, dropped["in"], r.control.buf, kept, y, stream.transfers, sent)
    BY <1>1, <1>2, <1>5, <2>1, TakenFlow
  <2>3. /\ readbuffer' = r.buffer /\ readbuffer_offset' = r.offset /\ readbuffer_remaining' = r.remaining
        /\ GoesOn("in", r.control, next)
    BY <1>5, <2>1 DEF ftdi_read_data_cb
  <2>4. PICK nx \in Transfer : nx = next
    BY <1>3
  <2>5. PICK t \in Control : t = r.control
    BY <2>2
  <2> HIDE DEF next
  <2>6. PICK over \in BOOLEAN : over <=> (Full(r.control) \/ transfer["in"].status = "CANCELLED" \/ gone)
    OBVIOUS
  <2>7. /\ tc' \in [Dirs -> Control] /\ transfer' \in [Dirs -> Transfer]
        /\ tc'["in"].offset = r.control.offset /\ tc'["in"].buf = r.control.buf
        /\ transfer'["in"] = (IF over THEN NoTransfer ELSE next)
        /\ tc'["out"] = tc["out"] /\ transfer'["out"] = transfer["out"]
        /\ (\A e \in Dirs : Calling(e)') /\ Streaming'
    <3>1. /\ tc' = [tc EXCEPT !["in"] = [t EXCEPT !.completed = over, !.status = transfer["in"].status]]
          /\ transfer' = [transfer EXCEPT !["in"] = IF over THEN NoTransfer ELSE nx]
          /\ over <=> (Full(t) \/ transfer["in"].status = "CANCELLED" \/ gone)
      BY <2>4, <2>5, <2>3, <2>6 DEF GoesOn, Full
    <3>2. t.how = "async" /\ ~t.completed /\ t.offset <= t.size /\ nx.state \in {"pending", "over"}
      BY <1>3, <2>4, <2>5, <2>2
    <3>3. /\ tc' \in [Dirs -> Control] /\ transfer' \in [Dirs -> Transfer]
          /\ tc'["in"] = [t EXCEPT !.completed = over, !.status = transfer["in"].status]
          /\ transfer'["in"] = (IF over THEN NoTransfer ELSE nx)
          /\ tc'["out"] = tc["out"] /\ transfer'["out"] = transfer["out"]
          /\ (\A e \in Dirs : Calling(e)') /\ Streaming'
      BY <1>1, <3>1, <3>2, GoesOnKeeps, Directions
    <3>4. tc'["in"].offset = t.offset /\ tc'["in"].buf = t.buf
      BY ONLY <3>3, t \in Control DEF Control
    <3> QED BY ONLY <2>4, <2>5, <3>3, <3>4
  <2>8. Types'
    <3> HIDE DEF kept
    <3> QED BY <1>1, <2>2, <2>3, <2>7 DEF IInv, Types
  <2>9. Written'
    BY <1>1, <2>7, WrittenKept DEF IInv
  <2>10. Buffered(readbuffer_remaining)' = kept
    BY <2>3 DEF Buffered
  <2> HIDE DEF kept
  <2>11. Flow(received, dropped["in"], tc'["in"].buf, kept, transfer'["in"], stream.transfers, sent)
    BY <1>3, <1>4, <2>2, <2>7
  <2>12. ReadsFresh'
    <3>1. transfer'["in"].state # "none" => readbuffer_offset' = 0 /\ readbuffer_remaining' = 0
      BY <2>2, <2>3, <2>6, <2>7, Nothing
    <3>2. call.name \notin {"stream", "over"}
      BY <1>1, Directions DEF IInv, Streaming
    <3> QED BY <1>1, <2>2, <2>7, <3>1, <3>2 DEF ReadsFresh
  <2>13. Read'
    BY <1>1, <2>10, <2>11, <2>12 DEF Read
  <2> QED BY <2>7, <2>8, <2>9, <2>13 DEF IInv
<1>6. CASE ~(transfer["in"].length > 2)
  <2>1. /\ readbuffer' = readbuffer /\ readbuffer_offset' = readbuffer_offset
        /\ readbuffer_remaining' = readbuffer_remaining /\ GoesOn("in", tc["in"], next)
    BY <1>6 DEF ftdi_read_data_cb, contextVars
  <2>2. PICK nx \in Transfer : nx = next
    BY <1>3
  <2>3. PICK t \in Control : t = tc["in"]
    BY <1>2
  <2> HIDE DEF next
  <2>4. PICK over \in BOOLEAN : over <=> (Full(tc["in"]) \/ transfer["in"].status = "CANCELLED" \/ gone)
    OBVIOUS
  <2>5. /\ tc' \in [Dirs -> Control] /\ transfer' \in [Dirs -> Transfer]
        /\ tc'["in"].offset = tc["in"].offset /\ tc'["in"].buf = tc["in"].buf
        /\ transfer'["in"] = (IF over THEN NoTransfer ELSE next)
        /\ tc'["out"] = tc["out"] /\ transfer'["out"] = transfer["out"]
        /\ (\A e \in Dirs : Calling(e)') /\ Streaming'
    <3>1. /\ tc' = [tc EXCEPT !["in"] = [t EXCEPT !.completed = over, !.status = transfer["in"].status]]
          /\ transfer' = [transfer EXCEPT !["in"] = IF over THEN NoTransfer ELSE nx]
          /\ over <=> (Full(t) \/ transfer["in"].status = "CANCELLED" \/ gone)
      BY <2>2, <2>3, <2>1, <2>4 DEF GoesOn, Full
    <3>2. t.how = "async" /\ ~t.completed /\ t.offset <= t.size /\ nx.state \in {"pending", "over"}
      BY <1>1, <1>2, <1>3, <2>2, <2>3
    <3>3. /\ tc' \in [Dirs -> Control] /\ transfer' \in [Dirs -> Transfer]
          /\ tc'["in"] = [t EXCEPT !.completed = over, !.status = transfer["in"].status]
          /\ transfer'["in"] = (IF over THEN NoTransfer ELSE nx)
          /\ tc'["out"] = tc["out"] /\ transfer'["out"] = transfer["out"]
          /\ (\A e \in Dirs : Calling(e)') /\ Streaming'
      BY <1>1, <3>1, <3>2, GoesOnKeeps, Directions
    <3>4. tc'["in"].offset = t.offset /\ tc'["in"].buf = t.buf
      BY ONLY <3>3, t \in Control DEF Control
    <3> QED BY ONLY <2>2, <2>3, <3>3, <3>4
  <2>6. Types'
    BY <1>1, <2>1, <2>5 DEF IInv, Types
  <2>7. Written'
    BY <1>1, <2>5, WrittenKept DEF IInv
  <2>8. /\ readbuffer_offset = 0 /\ readbuffer_remaining = 0
        /\ Buffered(readbuffer_remaining) = <<>>
        /\ Flow(received, dropped["in"], tc["in"].buf, <<>>, transfer["in"], stream.transfers, sent)
    BY <1>1, NothingKept
  <2>9. Buffered(readbuffer_remaining)' = <<>>
    BY <2>1, <2>8 DEF Buffered
  <2>10. Inert(transfer'["in"])
    BY <1>3, <1>4, <2>5
  <2>11. Brought(transfer["in"]) = 0
    BY <1>1, <1>2, <1>6, <2>8, EmptyBrings DEF IInv, Types
  <2>12. Flow(received, dropped["in"], tc["in"].buf, <<>>, transfer'["in"], stream.transfers, sent)
    <3>1. <<>> \in Seq(Nat)
      OBVIOUS
    <3> QED BY <1>2, <2>8, <2>10, <2>11, <3>1, FlowSubmitted DEF IInv, Types
  <2>13. Read'
    <3>1. ReadsFresh'
      BY <1>2, <2>1, <2>5, <2>8 DEF ReadsFresh
    <3> QED BY <1>1, <2>5, <2>9, <2>12, <3>1 DEF Read
  <2> QED BY <2>5, <2>6, <2>7, <2>13 DEF IInv
<1> QED BY <1>5, <1>6

-----------------------------------------------------------------------------
(***************************************************************************)
(* Writing.                                                                *)
(***************************************************************************)
\* The next chunk of the buffer.
LEMMA ChunkIs ==
  ASSUME Types, NEW t \in Control, t.offset <= t.size, NEW g \in Nat, g = given
  PROVE  /\ Chunk(t) \in Transfer /\ Chunk(t).state \in {"pending", "over"}
         /\ Chunk(t).first = g + t.offset + 1
         /\ t.offset + Chunk(t).length <= t.size
         /\ Inert(Chunk(t))
<1>1. PICK n \in Nat : n = IF t.offset + WriteChunk > t.size THEN t.size - t.offset ELSE WriteChunk
  BY Constants DEF Control
<1>2. t.offset + n <= t.size /\ t.offset \in Nat /\ t.size \in Nat
  BY <1>1, Constants DEF Control
<1>3. g + t.offset + 1 \in Nat
  BY <1>2
<1>4. Chunk(t) = Submitted(g + t.offset + 1, n)
  BY <1>1 DEF Chunk
<1>5. PICK x : x = Chunk(t)
  OBVIOUS
<1>6. /\ x \in Transfer /\ x.state \in {"pending", "over"} /\ x.first = g + t.offset + 1 /\ x.length <= n
      /\ (x.state = "over" => x.length = 0)
  BY <1>3, <1>4, <1>5, SubmittedIs
<1>7. x.length \in Nat
  BY <1>6 DEF Transfer
<1> QED BY <1>2, <1>5, <1>6, <1>7 DEF Inert

LEMMA StartWriteKeeps ==
  ASSUME IInv, NEW how \in {"sync", "async"}, NEW size \in WriteSizes, StartWrite(how, size),
         UNCHANGED stream
  PROVE  IInv'
<1>1. /\ call = Idle /\ tc["out"] = NoControl /\ transfer["out"] = NoTransfer
      /\ calls' \in Nat /\ stream.transfers = <<>>
  <2>1. Starts("out")
    BY DEF StartWrite
  <2> QED BY <2>1, Starting, Directions
<1>2. size \in Nat \ {0}
  BY Constants
<1>3. /\ readbuffer_offset' = readbuffer_offset /\ readbuffer_remaining' = readbuffer_remaining
      /\ readbuffer' = readbuffer /\ sent' = sent /\ device_got' = device_got
      /\ gone' = gone /\ given' = given /\ received' = received /\ dropped' = dropped
      /\ mishaps' = mishaps /\ stream' = stream
  BY DEF StartWrite, deviceVars, contextVars
<1>4. CASE how = "async" /\ gone
  <2>1. call' = call /\ tc' = tc /\ transfer' = transfer
    BY <1>4 DEF StartWrite
  <2>2. Types'
    BY <1>1, <1>3, <2>1 DEF IInv, Types
  <2>3. \A d \in Dirs : Calling(d)'
    BY <1>3, <2>1, CallingKept DEF IInv
  <2>4. Streaming'
    BY <1>3, <2>1 DEF IInv, Streaming
  <2>5. Written'
    BY <1>3, <2>1, WrittenKept DEF IInv
  <2>6. Read'
    BY <1>3, <2>1, ReadKept DEF IInv
  <2> QED BY <2>2, <2>3, <2>4, <2>5, <2>6 DEF IInv
<1>5. CASE ~(how = "async" /\ gone)
  <2>1. PICK t : t = [NoControl EXCEPT !.how = how, !.size = size, !.transfer = TRUE]
    OBVIOUS
  <2>2. t \in Control /\ t.how = how /\ t.size = size /\ t.offset = 0 /\ ~t.completed
    <3>1. <<>> \in Seq(Nat)
      OBVIOUS
    <3> QED BY <1>2, <2>1, <3>1 DEF NoControl, Control, Hows, Statuses
  <2>3. PICK x : x = Chunk(t)
    OBVIOUS
  <2>4. /\ tc' = [tc EXCEPT !["out"] = t] /\ transfer' = [transfer EXCEPT !["out"] = x]
        /\ call' = IF how = "sync" THEN [name |-> "bulk", dir |-> "out"] ELSE call
    BY <1>5, <2>1, <2>3 DEF StartWrite
  <2>5. PICK g \in Nat : g = given
    BY DEF IInv, Types
  <2>6. /\ x \in Transfer /\ x.state \in {"pending", "over"} /\ x.first = g + 0 + 1
        /\ 0 + x.length <= size /\ Inert(x)
    <3>1. t.offset <= t.size
      BY <1>2, <2>2
    <3> QED BY <2>2, <2>3, <2>5, <3>1, ChunkIs DEF IInv
  <2>7. /\ tc' \in [Dirs -> Control] /\ tc'["out"] = t /\ tc'["in"] = tc["in"]
        /\ transfer' \in [Dirs -> Transfer] /\ transfer'["out"] = x /\ transfer'["in"] = transfer["in"]
    BY <2>2, <2>4, <2>6, Updated, Directions DEF IInv, Types
  <2>8. call' \in Call
    BY <1>1, <2>4, Nothing DEF Call, Dirs
  <2>9. Types'
    BY <1>1, <1>3, <2>7, <2>8 DEF IInv, Types
  <2>10. Calling("out")'
    <3>1. how = "sync" <=> call' = [name |-> "bulk", dir |-> "out"]
      BY <1>1, <2>4 DEF Idle
    <3>2. 0 <= size
      BY <1>2
    <3> QED BY <2>2, <2>6, <2>7, <3>1, <3>2 DEF Calling, Waits
  <2>11. Calling("in")'
    <3>1. call # [name |-> "bulk", dir |-> "in"] /\ call' # [name |-> "bulk", dir |-> "in"]
      BY <1>1, <2>4 DEF Idle
    <3> QED BY <2>7, <3>1, CallingKept, Directions DEF IInv
  <2>12. Streaming'
    BY <1>1, <1>3, <2>4 DEF Streaming, Idle
  <2>13. Read'
    <3>1. call'.name \notin {"stream", "over"}
      BY <1>1, <2>4 DEF Idle
    <3> QED BY <1>3, <2>7, <3>1, ReadKept DEF IInv
  <2>14. Arrived' = g /\ Arrived = g
    <3>1. transfer'["out"].state = "over" => transfer'["out"].length = 0
      BY <2>6, <2>7 DEF Inert
    <3> QED BY <1>1, <1>3, <2>2, <2>5, <2>7, <3>1, Nothing DEF Arrived, Over
  <2>15. Written'
    <3>1. Rising(device_got, g) /\ (~dropped["out"] => device_got = Interval(0, g))
      BY <2>14 DEF IInv, Written
    <3>2. Rising(device_got', g) /\ (~dropped'["out"] => device_got' = Interval(0, g))
      BY <1>3, <3>1
    <3>3. tc'["out"].offset = 0 /\ tc'["out"].size = size /\ given' = g
      BY <1>3, <2>2, <2>5, <2>7
    <3> QED BY <2>6, <2>7, <2>14, <3>2, <3>3 DEF Written
  <2> QED BY <2>9, <2>10, <2>11, <2>12, <2>13, <2>15, Directions DEF IInv
<1> QED BY <1>4, <1>5

\* The numbers of a call that writes, and of what has arrived.
LEMMA WriteNumbers ==
  ASSUME IInv
  PROVE  /\ given \in Nat /\ Arrived \in Nat /\ device_got \in Seq(Nat)
         /\ tc["out"].size \in Nat /\ tc["out"].offset \in Nat /\ transfer["out"].length \in Nat
         /\ tc["out"].offset <= tc["out"].size
         /\ transfer["out"].state # "none" =>
              /\ transfer["out"].first = given + tc["out"].offset + 1
              /\ tc["out"].offset + transfer["out"].length <= tc["out"].size
         /\ transfer["out"].state = "over" =>
              Arrived = given + tc["out"].offset + transfer["out"].length
         /\ transfer["out"].state # "over" => Arrived = given + tc["out"].offset
         /\ Rising(device_got, Arrived)
         /\ ~dropped["out"] => device_got = Interval(0, Arrived)
<1>1. /\ given \in Nat /\ device_got \in Seq(Nat)
      /\ tc["out"].size \in Nat /\ tc["out"].offset \in Nat /\ transfer["out"].length \in Nat
  BY Parts DEF IInv, Types, Control, Transfer
<1>2. /\ transfer["out"].state = "over" =>
           Arrived = given + tc["out"].offset + transfer["out"].length
      /\ transfer["out"].state # "over" => Arrived = given + tc["out"].offset
  BY <1>1 DEF Arrived, Over
<1>3. Arrived \in Nat
  BY <1>1, <1>2
<1> QED BY <1>1, <1>2, <1>3, Directions DEF IInv, Written, Calling

\* What was given and has arrived is the same, though it is divided otherwise.
LEMMA WrittenSame ==
  ASSUME IInv, NEW n \in Nat, n = Arrived, device_got' = device_got, dropped'["out"] = dropped["out"],
         Arrived' = n,
         transfer'["out"].state # "none" =>
           /\ transfer'["out"].first = given' + tc'["out"].offset + 1
           /\ tc'["out"].offset + transfer'["out"].length <= tc'["out"].size
  PROVE  Written'
<1>1. Rising(device_got, n) /\ (~dropped["out"] => device_got = Interval(0, n))
  BY WriteNumbers
<1>2. Rising(device_got', n) /\ (~dropped'["out"] => device_got' = Interval(0, n))
  BY <1>1
<1> QED BY <1>2 DEF Written

\* A call that fails or is cancelled leaves its whole buffer behind.
LEMMA WriteDropped ==
  ASSUME IInv, device_got' = device_got, dropped'["out"] = TRUE, tc'["out"] = NoControl,
         transfer'["out"] = NoTransfer, given' = given + tc["out"].size
  PROVE  Written'
<1>1. PICK n \in Nat : n = given + tc["out"].size
  BY WriteNumbers
<1>2. Arrived' = n
  BY <1>1, Nothing DEF Arrived, Over
<1>3. Arrived <= n
  BY <1>1, WriteNumbers, Nothing, SMTT(30)
<1>4. PICK m \in Nat : m = Arrived
  BY WriteNumbers
<1>5. Rising(device_got, m)
  BY <1>4, WriteNumbers
<1>6. Rising(device_got, n)
  BY <1>3, <1>4, <1>5, RisingMore
<1>7. Rising(device_got', n)
  BY <1>6
<1> QED BY <1>2, <1>7, Nothing DEF Written

LEMMA WriteFailsKeeps ==
  ASSUME IInv, WriteFails, UNCHANGED stream
  PROVE  IInv'
<1>1. /\ Waits("bulk", "out") /\ transfer["out"].state = "over"
      /\ call' = Idle /\ tc' = [tc EXCEPT !["out"] = NoControl]
      /\ transfer' = [transfer EXCEPT !["out"] = NoTransfer]
      /\ dropped' = [dropped EXCEPT !["out"] = TRUE] /\ given' = given + tc["out"].size
  BY DEF WriteFails, Over
<1>2. /\ readbuffer_offset' = readbuffer_offset /\ readbuffer_remaining' = readbuffer_remaining
      /\ readbuffer' = readbuffer /\ sent' = sent /\ device_got' = device_got /\ gone' = gone
      /\ received' = received /\ mishaps' = mishaps /\ calls' = calls /\ stream' = stream
  BY DEF WriteFails, contextVars, deviceVars, boundVars
<1>3. /\ call' \in Call /\ tc' \in [Dirs -> Control] /\ transfer' \in [Dirs -> Transfer]
      /\ tc'["out"] = NoControl /\ transfer'["out"] = NoTransfer
      /\ tc'["in"] = tc["in"] /\ transfer'["in"] = transfer["in"]
      /\ (\A e \in Dirs : Calling(e)') /\ Streaming'
  BY <1>1, <1>2, SyncOver, Directions
<1>4. dropped' \in [Dirs -> BOOLEAN] /\ dropped'["out"] = TRUE /\ dropped'["in"] = dropped["in"]
  BY <1>1, Directions DEF IInv, Types
<1>5. Types'
  <2>1. given' \in Nat
    BY <1>1, WriteNumbers
  <2> QED BY <1>2, <1>3, <1>4, <2>1 DEF IInv, Types
<1>6. Written'
  BY <1>1, <1>2, <1>3, <1>4, WriteDropped
<1>7. Read'
  BY <1>1, <1>2, <1>3, <1>4, ReadKept DEF IInv, Idle
<1> QED BY <1>3, <1>5, <1>6, <1>7 DEF IInv

\* The control of a call after its transfer.
LEMMA SentIs ==
  ASSUME IInv, transfer["out"].state = "over", NEW t, t = Sent(tc["out"])
  PROVE  /\ t \in Control /\ t.how = tc["out"].how /\ t.completed = tc["out"].completed
         /\ t.size = tc["out"].size /\ t.offset = tc["out"].offset + transfer["out"].length
         /\ t.offset \in Nat /\ t.offset <= t.size /\ Arrived = given + t.offset
<1>1. PICK n \in Nat : n = tc["out"].offset + transfer["out"].length
  BY WriteNumbers
<1>2. tc["out"] \in Control
  BY Parts DEF IInv
<1>3. t = [tc["out"] EXCEPT !.offset = n]
  BY <1>1 DEF Sent
<1>4. t \in Control /\ t.how = tc["out"].how /\ t.completed = tc["out"].completed
      /\ t.size = tc["out"].size /\ t.offset = n
  BY <1>2, <1>3 DEF Control
<1>5. n <= tc["out"].size /\ Arrived = given + n
  BY <1>1, WriteNumbers
<1> QED BY <1>1, <1>4, <1>5

LEMMA WriteChunkDoneKeeps ==
  ASSUME IInv, WriteChunkDone, UNCHANGED stream
  PROVE  IInv'
<1>1. PICK t : t = Sent(tc["out"])
  OBVIOUS
<1>2. Waits("bulk", "out") /\ transfer["out"].state = "over"
  BY DEF WriteChunkDone, Over
<1>3. /\ readbuffer_offset' = readbuffer_offset /\ readbuffer_remaining' = readbuffer_remaining
      /\ readbuffer' = readbuffer /\ sent' = sent /\ device_got' = device_got /\ gone' = gone
      /\ received' = received /\ dropped' = dropped /\ mishaps' = mishaps /\ calls' = calls /\ stream' = stream
  BY DEF WriteChunkDone, contextVars, deviceVars, boundVars
<1>4. /\ t \in Control /\ t.how = tc["out"].how /\ t.completed = tc["out"].completed
      /\ t.size = tc["out"].size /\ t.offset \in Nat /\ t.offset <= t.size /\ Arrived = given + t.offset
  BY <1>1, <1>2, SentIs
<1>5. PICK n \in Nat : n = Arrived
  BY WriteNumbers
<1>6. CASE Full(t)
  <2>1. /\ call' = Idle /\ tc' = [tc EXCEPT !["out"] = NoControl]
        /\ transfer' = [transfer EXCEPT !["out"] = NoTransfer] /\ given' = given + t.offset
    BY <1>1, <1>6 DEF WriteChunkDone
  <2>2. /\ call' \in Call /\ tc' \in [Dirs -> Control] /\ transfer' \in [Dirs -> Transfer]
        /\ tc'["out"] = NoControl /\ transfer'["out"] = NoTransfer
        /\ tc'["in"] = tc["in"] /\ transfer'["in"] = transfer["in"]
        /\ (\A e \in Dirs : Calling(e)') /\ Streaming'
    BY <1>2, <1>3, <2>1, SyncOver, Directions
  <2>3. given' = n
    BY <1>4, <1>5, <2>1
  <2>4. Types'
    BY <1>3, <2>2, <2>3 DEF IInv, Types
  <2>5. Written'
    <3>1. Arrived' = n
      BY <2>2, <2>3, Nothing DEF Arrived, Over
    <3> QED BY <1>3, <1>5, <2>2, <3>1, WrittenSame, Nothing
  <2>6. Read'
    BY <1>3, <2>1, <2>2, ReadKept DEF IInv, Idle
  <2> QED BY <2>2, <2>4, <2>5, <2>6 DEF IInv
<1>7. CASE ~Full(t)
  <2>1. PICK x : x = Chunk(t)
    OBVIOUS
  <2>2. /\ tc' = [tc EXCEPT !["out"] = t] /\ transfer' = [transfer EXCEPT !["out"] = x]
        /\ call' = call /\ given' = given
    BY <1>1, <1>7, <2>1 DEF WriteChunkDone
  <2>3. PICK g \in Nat : g = given
    BY WriteNumbers
  <2>4. /\ x \in Transfer /\ x.state \in {"pending", "over"} /\ x.first = g + t.offset + 1
        /\ t.offset + x.length <= t.size /\ Inert(x)
    BY <1>4, <2>1, <2>3, ChunkIs DEF IInv
  <2>5. /\ tc' \in [Dirs -> Control] /\ tc'["out"] = t /\ tc'["in"] = tc["in"]
        /\ transfer' \in [Dirs -> Transfer] /\ transfer'["out"] = x /\ transfer'["in"] = transfer["in"]
    BY <1>4, <2>2, <2>4, Updated, Directions DEF IInv, Types
  <2>6. Types'
    BY <1>3, <2>2, <2>5 DEF IInv, Types
  <2>7. Calling("out")'
    <3>1. tc["out"].how = "sync" /\ call' = [name |-> "bulk", dir |-> "out"] /\ ~tc["out"].completed
      BY <1>2, <2>2, Directions DEF IInv, Calling, Waits
    <3> QED BY <1>4, <2>4, <2>5, <3>1 DEF Calling, Waits
  <2>8. Calling("in")'
    BY <2>2, <2>5, CallingKept, Directions DEF IInv
  <2>9. Streaming'
    BY <1>2, <1>3, <2>2 DEF IInv, Streaming, Waits
  <2>10. Written'
    <3>1. transfer'["out"].state = "over" => transfer'["out"].length = 0
      BY <2>4, <2>5 DEF Inert
    <3>2. Arrived' = given + t.offset
      BY <1>4, <2>2, <2>3, <2>5, <3>1 DEF Arrived, Over
    <3> QED BY <1>3, <1>4, <1>5, <2>2, <2>3, <2>4, <2>5, <3>2, WrittenSame
  <2>11. Read'
    BY <1>3, <2>2, <2>5, ReadKept DEF IInv
  <2> QED BY <2>6, <2>7, <2>8, <2>9, <2>10, <2>11, Directions DEF IInv
<1> QED BY <1>6, <1>7

LEMMA WriteCallbackKeeps ==
  ASSUME IInv, ftdi_write_data_cb, UNCHANGED stream
  PROVE  IInv'
<1>1. PICK t : t = Sent(tc["out"])
  OBVIOUS
<1>2. PICK x : x = Chunk(t)
  OBVIOUS
<1>3. /\ call # Idle /\ tc["out"].how = "async" /\ transfer["out"].state = "over" /\ call' = call
      /\ GoesOn("out", t, x)
  BY <1>1, <1>2 DEF ftdi_write_data_cb, Over
<1>4. /\ readbuffer_offset' = readbuffer_offset /\ readbuffer_remaining' = readbuffer_remaining
      /\ readbuffer' = readbuffer /\ sent' = sent /\ device_got' = device_got /\ gone' = gone /\ given' = given
      /\ received' = received /\ dropped' = dropped /\ mishaps' = mishaps /\ calls' = calls /\ stream' = stream
  BY DEF ftdi_write_data_cb, contextVars, deviceVars, boundVars
<1>5. /\ t \in Control /\ t.how = "async" /\ t.completed = tc["out"].completed
      /\ t.offset \in Nat /\ t.offset <= t.size /\ Arrived = given + t.offset
  BY <1>1, <1>3, SentIs
<1>6. ~t.completed
  BY <1>3, <1>5, Directions DEF IInv, Calling
<1>7. PICK n \in Nat : n = Arrived
  BY WriteNumbers
<1>8. PICK g \in Nat : g = given
  BY WriteNumbers
<1>9. /\ x \in Transfer /\ x.state \in {"pending", "over"} /\ x.first = g + t.offset + 1
      /\ t.offset + x.length <= t.size /\ Inert(x)
  BY <1>2, <1>5, <1>8, ChunkIs DEF IInv
<1>10. PICK over \in BOOLEAN : over <=> (Full(t) \/ transfer["out"].status = "CANCELLED" \/ gone)
  OBVIOUS
<1>11. /\ tc' = [tc EXCEPT !["out"] = [t EXCEPT !.completed = over, !.status = transfer["out"].status]]
       /\ transfer' = [transfer EXCEPT !["out"] = IF over THEN NoTransfer ELSE x]
  BY <1>3, <1>10 DEF GoesOn
<1>12. /\ tc' \in [Dirs -> Control] /\ transfer' \in [Dirs -> Transfer]
       /\ tc'["out"] = [t EXCEPT !.completed = over, !.status = transfer["out"].status]
       /\ transfer'["out"] = (IF over THEN NoTransfer ELSE x)
       /\ tc'["in"] = tc["in"] /\ transfer'["in"] = transfer["in"]
       /\ (\A e \in Dirs : Calling(e)') /\ Streaming'
  BY <1>3, <1>4, <1>5, <1>6, <1>9, <1>10, <1>11, GoesOnKeeps, Directions
<1>13. tc'["out"].offset = t.offset /\ tc'["out"].size = t.size
  BY ONLY <1>5, <1>12 DEF Control
<1>14. Types'
  BY <1>3, <1>4, <1>12 DEF IInv, Types
<1>15. Written'
  <2>1. transfer'["out"].state = "over" => transfer'["out"].length = 0
    BY <1>9, <1>12, Nothing DEF Inert
  <2>2. Arrived' = given + t.offset
    BY <1>4, <1>5, <1>8, <1>13, <2>1 DEF Arrived, Over
  <2>3. transfer'["out"].state # "none" => transfer'["out"] = x
    BY <1>12, Nothing
  <2> QED BY <1>4, <1>5, <1>7, <1>8, <1>9, <1>13, <2>2, <2>3, WrittenSame
<1>16. Read'
  BY <1>3, <1>4, <1>12, ReadKept DEF IInv
<1> QED BY <1>12, <1>14, <1>15, <1>16 DEF IInv

-----------------------------------------------------------------------------
(***************************************************************************)
(* Waiting for an asynchronous call, and cancelling it.                    *)
(***************************************************************************)
\* The call of either direction, when nothing of either is touched.
LEMMA WaitKeeps ==
  ASSUME IInv, UNCHANGED <<contextVars, tc, transfer, deviceVars, received, given, dropped, boundVars, stream>>,
         NEW d \in Dirs, NEW name \in {"done", "cancel"}, tc[d].how = "async", call' = [name |-> name, dir |-> d],
         call = Idle
  PROVE  IInv'
<1>1. /\ readbuffer_offset' = readbuffer_offset /\ readbuffer_remaining' = readbuffer_remaining
      /\ readbuffer' = readbuffer /\ tc' = tc /\ transfer' = transfer /\ sent' = sent /\ device_got' = device_got
      /\ gone' = gone /\ given' = given /\ received' = received /\ dropped' = dropped /\ mishaps' = mishaps
      /\ calls' = calls /\ stream' = stream
  BY DEF contextVars, deviceVars, boundVars
<1>2. call' \in Call
  BY DEF Call
<1>3. Types'
  BY <1>1, <1>2 DEF IInv, Types
<1>4. \A e \in Dirs : Calling(e)'
  <2> TAKE e \in Dirs
  <2>1. call' # [name |-> "bulk", dir |-> e] /\ call # [name |-> "bulk", dir |-> e]
    BY DEF Idle
  <2> QED BY <1>1, <2>1, CallingKept DEF IInv
<1>5. Streaming'
  BY <1>1 DEF IInv, Streaming, Idle
<1>6. Written'
  BY <1>1, WrittenKept DEF IInv
<1>7. Read'
  BY <1>1, ReadKept DEF IInv
<1> QED BY <1>3, <1>4, <1>5, <1>6, <1>7 DEF IInv

\* Cancelling marks a pending transfer, which brings nothing and has sent nothing.
LEMMA CancelMarks ==
  ASSUME IInv, NEW d \in Dirs, libusb_cancel_transfer(d)
  PROVE  /\ transfer' \in [Dirs -> Transfer]
         /\ \A e \in Dirs : e # d => transfer'[e] = transfer[e]
         /\ transfer'[d].first = transfer[d].first /\ transfer'[d].length = transfer[d].length
         /\ transfer'[d].state = "over" <=> transfer[d].state = "over"
         /\ transfer'[d].state = "none" <=> transfer[d].state = "none"
         /\ transfer[d].state # "pending" => transfer'[d] = transfer[d]
<1>1. PICK x \in Transfer : x = transfer[d]
  BY DEF IInv, Types
<1>2. PICK y : y = [x EXCEPT !.state = IF @ = "pending" THEN "cancelled" ELSE @]
  OBVIOUS
<1>3. /\ y \in Transfer /\ y.first = x.first /\ y.length = x.length
      /\ y.state = "over" <=> x.state = "over"
      /\ y.state = "none" <=> x.state = "none"
      /\ x.state # "pending" => y = x
  BY <1>2 DEF Transfer
<1>4. transfer' = [transfer EXCEPT ![d] = y]
  BY <1>1, <1>2 DEF libusb_cancel_transfer
<1>5. /\ transfer' \in [Dirs -> Transfer] /\ transfer'[d] = y
      /\ \A e \in Dirs : e # d => transfer'[e] = transfer[e]
  BY <1>3, <1>4, Updated DEF IInv, Types
<1> QED BY <1>1, <1>3, <1>5

\* A call is cancelled: nothing changes but that mark.
LEMMA CancelKeeps ==
  ASSUME IInv, NEW d \in Dirs, libusb_cancel_transfer(d), call' = [name |-> "cancel", dir |-> d],
         call = Idle \/ Waits("done", d), tc[d].how # "none" \/ call # Idle, mishaps' \in Nat,
         UNCHANGED <<contextVars, tc, deviceVars, received, given, dropped, calls, stream>>
  PROVE  IInv'
<1>1. /\ readbuffer_offset' = readbuffer_offset /\ readbuffer_remaining' = readbuffer_remaining
      /\ readbuffer' = readbuffer /\ tc' = tc /\ sent' = sent /\ device_got' = device_got
      /\ gone' = gone /\ given' = given /\ received' = received /\ dropped' = dropped
      /\ calls' = calls /\ stream' = stream
  BY DEF contextVars, deviceVars
<1>2. call' \in Call
  BY DEF Call
<1>3. /\ transfer' \in [Dirs -> Transfer]
      /\ \A e \in Dirs : e # d => transfer'[e] = transfer[e]
      /\ transfer'[d].first = transfer[d].first /\ transfer'[d].length = transfer[d].length
      /\ transfer'[d].state = "over" <=> transfer[d].state = "over"
      /\ transfer'[d].state = "none" <=> transfer[d].state = "none"
      /\ transfer[d].state # "pending" => transfer'[d] = transfer[d]
  BY CancelMarks
<1>4. Types'
  BY <1>1, <1>2, <1>3 DEF IInv, Types
<1>5. \A e \in Dirs : call' # [name |-> "bulk", dir |-> e] /\ call # [name |-> "bulk", dir |-> e]
  BY DEF Idle, Waits
<1>6. Calling(d)'
  <2>1. Calling(d)
    BY DEF IInv
  <2>2. transfer[d] = NoTransfer => transfer'[d] = NoTransfer
    BY <1>3, Nothing
  <2> QED BY <1>1, <1>3, <1>5, <2>1, <2>2 DEF Calling, Waits
<1>7. ASSUME NEW e \in Dirs, e # d PROVE Calling(e)'
  BY <1>1, <1>3, <1>5, <1>7, CallingKept DEF IInv
<1>8. Streaming'
  BY <1>1 DEF IInv, Streaming, Idle, Waits
<1>9. call'.name \notin {"stream", "over"} /\ call.name \notin {"stream", "over"}
  BY DEF Idle, Waits
<1>10. Written'
  <2>1. CASE d = "in"
    BY <1>1, <1>3, <2>1, WrittenKept, Directions DEF IInv
  <2>2. CASE d = "out"
    <3>1. Arrived' = Arrived
      BY <1>1, <1>3, <2>2 DEF Arrived, Over
    <3>2. PICK n \in Nat : n = Arrived
      BY WriteNumbers
    <3>3. transfer'["out"].state # "none" =>
           /\ transfer'["out"].first = given' + tc'["out"].offset + 1
           /\ tc'["out"].offset + transfer'["out"].length <= tc'["out"].size
      BY <1>1, <1>3, <2>2, WriteNumbers
    <3> QED BY <1>1, <3>1, <3>2, <3>3, WrittenSame
  <2> QED BY <2>1, <2>2, Directions
<1>11. Read'
  <2>1. CASE d = "out"
    BY <1>1, <1>3, <1>9, <2>1, ReadKept, Directions DEF IInv
  <2>2. CASE d = "in"
    <3>1. CASE transfer["in"].state # "pending"
      BY <1>1, <1>3, <1>9, <2>2, <3>1, ReadKept DEF IInv
    <3>2. CASE transfer["in"].state = "pending"
      <4>1. Inert(transfer'["in"]) /\ Brought(transfer["in"]) = 0
        BY <1>3, <2>2, <3>2 DEF Inert, Brought
      <4>2. /\ Flow(received, dropped["in"], tc["in"].buf, <<>>, transfer["in"], stream.transfers, sent)
            /\ readbuffer_offset = 0 /\ readbuffer_remaining = 0 /\ Buffered(readbuffer_remaining) = <<>>
        BY <3>2, NothingKept
      <4>3. Buffered(readbuffer_remaining)' = <<>>
        BY <1>1, <4>2 DEF Buffered
      <4>4. tc["in"].buf \in Seq(Nat) /\ transfer["in"] \in Transfer /\ stream.transfers \in Seq(Transfer)
            /\ <<>> \in Seq(Nat)
        BY Parts DEF IInv
      <4>5. Flow(received, dropped["in"], tc["in"].buf, <<>>, transfer'["in"], stream.transfers, sent)
        BY <4>1, <4>2, <4>4, FlowSubmitted DEF IInv, Types
      <4>6. ReadsFresh'
        BY <1>1, <4>2 DEF IInv, Read, ReadsFresh
      <4> QED BY <1>1, <4>3, <4>5, <4>6 DEF Read
    <3> QED BY <3>1, <3>2
  <2> QED BY <2>1, <2>2, Directions
<1> QED BY <1>4, <1>6, <1>7, <1>8, <1>10, <1>11 DEF IInv

LEMMA DoneKeeps ==
  ASSUME IInv, NEW d \in Dirs, ftdi_transfer_data_done(d), UNCHANGED stream
  PROVE  IInv'
<1>1. /\ call = Idle /\ tc[d].how = "async" /\ call' = [name |-> "done", dir |-> d]
      /\ UNCHANGED <<contextVars, tc, transfer, deviceVars, received, given, dropped, boundVars, stream>>
  BY DEF ftdi_transfer_data_done, Wait
<1> QED BY <1>1, WaitKeeps

LEMMA DoneFailsKeeps ==
  ASSUME IInv, NEW d \in Dirs, DoneFails(d), UNCHANGED stream
  PROVE  IInv'
<1>1. /\ libusb_cancel_transfer(d) /\ call' = [name |-> "cancel", dir |-> d]
      /\ Waits("done", d) /\ call # Idle
      /\ UNCHANGED <<contextVars, tc, deviceVars, received, given, dropped, calls, stream>>
  BY DEF DoneFails, Waits, Idle
<1>2. mishaps' \in Nat
  BY DEF DoneFails, Mishap, IInv, Types
<1> QED BY <1>1, <1>2, CancelKeeps

LEMMA CancellingKeeps ==
  ASSUME IInv, NEW d \in Dirs, ftdi_transfer_data_cancel(d), UNCHANGED stream
  PROVE  IInv'
<1>1. /\ call = Idle /\ tc[d].how = "async" /\ call' = [name |-> "cancel", dir |-> d]
      /\ UNCHANGED <<contextVars, tc, deviceVars, received, given, dropped, boundVars, stream>>
  BY DEF ftdi_transfer_data_cancel, Wait
<1>2. CASE tc[d].completed
  <2>1. transfer' = transfer
    BY <1>2 DEF ftdi_transfer_data_cancel
  <2> QED BY <1>1, <2>1, WaitKeeps
<1>3. CASE ~tc[d].completed
  <2>1. libusb_cancel_transfer(d)
    BY <1>3 DEF ftdi_transfer_data_cancel
  <2>2. mishaps' \in Nat /\ calls' = calls
    BY <1>1 DEF boundVars, IInv, Types
  <2> QED BY <1>1, <2>1, <2>2, CancelKeeps
<1> QED BY <1>2, <1>3

\* A completed call is over.
LEMMA WaitOver ==
  ASSUME IInv, NEW d \in Dirs, tc[d].completed, call.name \in {"done", "cancel"}, call' = Idle,
         tc' = [tc EXCEPT ![d] = NoControl], transfer' = transfer, stream' = stream
  PROVE  /\ call' \in Call /\ tc' \in [Dirs -> Control] /\ transfer[d] = NoTransfer
         /\ tc'[d] = NoControl /\ (\A e \in Dirs : e # d => tc'[e] = tc[e])
         /\ (\A e \in Dirs : Calling(e)') /\ Streaming'
<1>1. /\ call' \in Call /\ tc' \in [Dirs -> Control]
      /\ tc'[d] = NoControl /\ \A e \in Dirs : e # d => tc'[e] = tc[e]
  BY Nothing, Updated DEF IInv, Types
<1>2. transfer[d] = NoTransfer
  BY DEF IInv, Calling
<1>3. \A e \in Dirs : call' # [name |-> "bulk", dir |-> e] /\ call # [name |-> "bulk", dir |-> e]
  BY DEF Idle
<1>4. Calling(d)'
  BY <1>1, <1>2, <1>3, Nothing DEF Calling, Waits
<1>5. ASSUME NEW e \in Dirs, e # d PROVE Calling(e)'
  BY <1>1, <1>3, <1>5, CallingKept DEF IInv
<1>6. Streaming'
  BY DEF IInv, Streaming, Idle
<1> QED BY <1>1, <1>2, <1>4, <1>5, <1>6

LEMMA DoneReturnsKeeps ==
  ASSUME IInv, NEW d \in Dirs, DoneReturns(d), UNCHANGED stream
  PROVE  IInv'
<1>1. PICK good \in BOOLEAN : good <=> (~tc[d].transfer \/ tc[d].status = "COMPLETED")
  OBVIOUS
<1>2. /\ tc[d].completed /\ call.name = "done" /\ call' = Idle /\ tc' = [tc EXCEPT ![d] = NoControl]
      /\ dropped' = [dropped EXCEPT ![d] = @ \/ ~good]
      /\ received' = IF good /\ d = "in" THEN received \o tc[d].buf ELSE received
      /\ given' = IF d = "in" THEN given ELSE given + (IF good THEN tc[d].offset ELSE tc[d].size)
  BY <1>1 DEF DoneReturns, Waits
<1>3. /\ readbuffer_offset' = readbuffer_offset /\ readbuffer_remaining' = readbuffer_remaining
      /\ readbuffer' = readbuffer /\ transfer' = transfer /\ sent' = sent /\ device_got' = device_got /\ gone' = gone
      /\ mishaps' = mishaps /\ calls' = calls /\ stream' = stream
  BY DEF DoneReturns, contextVars, deviceVars, boundVars
<1>4. /\ call' \in Call /\ tc' \in [Dirs -> Control] /\ transfer[d] = NoTransfer
      /\ tc'[d] = NoControl /\ (\A e \in Dirs : e # d => tc'[e] = tc[e])
      /\ (\A e \in Dirs : Calling(e)') /\ Streaming'
  BY <1>2, <1>3, WaitOver
<1>5. /\ dropped' \in [Dirs -> BOOLEAN] /\ (\A e \in Dirs : e # d => dropped'[e] = dropped[e])
      /\ dropped'[d] = (dropped[d] \/ ~good)
  BY <1>2 DEF IInv, Types
<1>6. (good => dropped'[d] = dropped[d]) /\ (~good => dropped'[d] = TRUE)
  <2>1. dropped[d] \in BOOLEAN
    BY DEF IInv, Types
  <2> QED BY <1>5, <2>1
<1>7. /\ tc["in"].buf \in Seq(Nat) /\ stream.transfers \in Seq(Transfer)
      /\ Buffered(readbuffer_remaining) \in Seq(Nat)
  BY Parts DEF IInv
<1>8. Types'
  <2>1. received' \in Seq(Nat)
    BY <1>2, <1>7, SequenceTypes DEF IInv, Types
  <2>2. given' \in Nat
    BY <1>2, WriteNumbers, Directions, SMTT(30)
  <2> QED BY <1>3, <1>4, <1>5, <2>1, <2>2 DEF IInv, Types
<1>9. CASE d = "in"
  <2>1. given' = given /\ tc'["out"] = tc["out"] /\ dropped'["out"] = dropped["out"]
    BY <1>2, <1>4, <1>5, <1>9, Directions
  <2>2. Written'
    BY <1>3, <2>1, WrittenKept DEF IInv
  <2>3. Buffered(readbuffer_remaining)' = Buffered(readbuffer_remaining)
    BY <1>3 DEF Buffered
  <2>4. Flow(received, dropped["in"], tc["in"].buf, Buffered(readbuffer_remaining), NoTransfer,
             stream.transfers, sent)
    BY <1>4, <1>9 DEF IInv, Read
  <2>5. Flow(received', dropped'["in"], <<>>, Buffered(readbuffer_remaining), NoTransfer,
             stream.transfers, sent)
    <3>1. CASE good
      <4>1. received' = received \o tc["in"].buf /\ dropped'["in"] = dropped["in"]
        BY <1>2, <1>6, <1>9, <3>1
      <4>2. Flow(received \o tc["in"].buf, dropped["in"], <<>>, Buffered(readbuffer_remaining), NoTransfer,
                 stream.transfers, sent)
        BY <1>7, <2>4, FlowReturned, Nothing DEF IInv, Types
      <4> QED BY <4>1, <4>2
    <3>2. CASE ~good
      <4>1. received' = received /\ dropped'["in"] = TRUE
        BY <1>2, <1>6, <1>9, <3>2
      <4>2. Flow(received, dropped'["in"], <<>>, Buffered(readbuffer_remaining), NoTransfer,
                 stream.transfers, sent)
        BY <1>7, <2>4, <4>1, FlowDropped, Nothing DEF IInv, Types
      <4> QED BY <4>1, <4>2
    <3> QED BY <3>1, <3>2
  <2>6. Read'
    BY <1>2, <1>3, <1>4, <1>9, <2>3, <2>5, ReadOver
  <2> QED BY <1>4, <1>8, <2>2, <2>6 DEF IInv
<1>10. CASE d = "out"
  <2>1. received' = received /\ tc'["in"] = tc["in"] /\ dropped'["in"] = dropped["in"]
    BY <1>2, <1>4, <1>5, <1>10, Directions
  <2>2. Read'
    BY <1>2, <1>3, <2>1, ReadKept DEF IInv, Idle
  <2>3. Written'
    <3>1. CASE good
      <4>1. PICK n \in Nat : n = Arrived
        BY WriteNumbers
      <4>2. given' = given + tc["out"].offset /\ dropped'["out"] = dropped["out"]
        BY <1>2, <1>6, <1>10, <3>1
      <4>3. Arrived = given + tc["out"].offset
        BY <1>4, <1>10, WriteNumbers, Nothing
      <4>4. Arrived' = n
        BY <1>3, <1>4, <1>10, <4>1, <4>2, <4>3, Nothing DEF Arrived, Over
      <4> QED BY <1>3, <1>4, <1>10, <4>1, <4>2, <4>4, WrittenSame, Nothing
    <3>2. CASE ~good
      <4>1. given' = given + tc["out"].size /\ dropped'["out"] = TRUE
        BY <1>2, <1>6, <1>10, <3>2
      <4> QED BY <1>3, <1>4, <1>10, <4>1, WriteDropped
    <3> QED BY <3>1, <3>2
  <2> QED BY <1>4, <1>8, <2>2, <2>3 DEF IInv
<1> QED BY <1>9, <1>10, Directions

LEMMA CancelReturnsKeeps ==
  ASSUME IInv, NEW d \in Dirs, CancelReturns(d), UNCHANGED stream
  PROVE  IInv'
<1>1. /\ tc[d].completed /\ call.name = "cancel" /\ call' = Idle /\ tc' = [tc EXCEPT ![d] = NoControl]
      /\ dropped' = [dropped EXCEPT ![d] = TRUE]
      /\ given' = IF d = "in" THEN given ELSE given + tc[d].size
  BY DEF CancelReturns, Waits
<1>2. /\ readbuffer_offset' = readbuffer_offset /\ readbuffer_remaining' = readbuffer_remaining
      /\ readbuffer' = readbuffer /\ transfer' = transfer /\ sent' = sent /\ device_got' = device_got /\ gone' = gone
      /\ received' = received /\ mishaps' = mishaps /\ calls' = calls /\ stream' = stream
  BY DEF CancelReturns, contextVars, deviceVars, boundVars
<1>3. /\ call' \in Call /\ tc' \in [Dirs -> Control] /\ transfer[d] = NoTransfer
      /\ tc'[d] = NoControl /\ (\A e \in Dirs : e # d => tc'[e] = tc[e])
      /\ (\A e \in Dirs : Calling(e)') /\ Streaming'
  BY <1>1, <1>2, WaitOver
<1>4. /\ dropped' \in [Dirs -> BOOLEAN] /\ (\A e \in Dirs : e # d => dropped'[e] = dropped[e])
      /\ dropped'[d] = TRUE
  BY <1>1 DEF IInv, Types
<1>5. /\ tc["in"].buf \in Seq(Nat) /\ stream.transfers \in Seq(Transfer)
      /\ Buffered(readbuffer_remaining) \in Seq(Nat)
  BY Parts DEF IInv
<1>6. Types'
  <2>1. given' \in Nat
    BY <1>1, WriteNumbers, Directions
  <2> QED BY <1>2, <1>3, <1>4, <2>1 DEF IInv, Types
<1>7. CASE d = "in"
  <2>1. given' = given /\ tc'["out"] = tc["out"] /\ dropped'["out"] = dropped["out"] /\ dropped'["in"] = TRUE
    BY <1>1, <1>3, <1>4, <1>7, Directions
  <2>2. Written'
    BY <1>2, <2>1, WrittenKept DEF IInv
  <2>3. Buffered(readbuffer_remaining)' = Buffered(readbuffer_remaining)
    BY <1>2 DEF Buffered
  <2>4. Flow(received, dropped["in"], tc["in"].buf, Buffered(readbuffer_remaining), NoTransfer,
             stream.transfers, sent)
    BY <1>3, <1>7 DEF IInv, Read
  <2>5. Flow(received, dropped'["in"], <<>>, Buffered(readbuffer_remaining), NoTransfer,
             stream.transfers, sent)
    BY <1>5, <2>1, <2>4, FlowDropped, Nothing DEF IInv, Types
  <2>6. Read'
    BY <1>1, <1>2, <1>3, <1>7, <2>3, <2>5, ReadOver
  <2> QED BY <1>3, <1>6, <2>2, <2>6 DEF IInv
<1>8. CASE d = "out"
  <2>1. tc'["in"] = tc["in"] /\ dropped'["in"] = dropped["in"]
    BY <1>3, <1>4, <1>8, Directions
  <2>2. Read'
    BY <1>1, <1>2, <2>1, ReadKept DEF IInv, Idle
  <2>3. given' = given + tc["out"].size /\ dropped'["out"] = TRUE
    BY <1>1, <1>4, <1>8
  <2>4. Written'
    BY <1>2, <1>3, <1>8, <2>3, WriteDropped
  <2> QED BY <1>3, <1>6, <2>2, <2>4 DEF IInv
<1> QED BY <1>7, <1>8, Directions

-----------------------------------------------------------------------------
(***************************************************************************)
(* The device.                                                             *)
(***************************************************************************)
\* A transfer that reads ends with whole packets, or in one of at least two bytes.
LEMMA LengthsAre ==
  ASSUME Types, NEW status \in {"COMPLETED", "TIMED_OUT", "ERROR", "CANCELLED"}, NEW n \in Sendable(status),
         NEW y, y = InOver(status, n)
  PROVE  /\ y \in Transfer /\ y.state = "over" /\ y.first = sent + 1 /\ y.length = n /\ y.status = status
         /\ Whole(n) /\ n \in Nat /\ Data(n) \in Nat
<1>1. n \in Lengths(status)
  BY DEF Sendable
<1>2. Whole(n)
  <2>1. CASE status = "COMPLETED"
    <3>1. n \in 2 .. ReadChunk /\ (n = ReadChunk \/ n % PacketSize \in 2 .. (PacketSize - 1))
      BY <1>1, <2>1 DEF Lengths
    <3>2. n % PacketSize # 1
      BY <3>1, Constants
    <3>3. n \in 0 .. ReadChunk
      BY <3>1, Constants
    <3> QED BY <3>2, <3>3 DEF Whole
  <2>2. CASE status # "COMPLETED"
    <3>1. n \in 0 .. (ReadChunk - 1) /\ n % PacketSize = 0
      BY <1>1, <2>2 DEF Lengths
    <3> QED BY <3>1, Constants DEF Whole
  <2> QED BY <2>1, <2>2
<1>3. n \in Nat
  BY <1>2 DEF Whole
<1>4. Data(n) \in Nat
  BY <1>2, <1>3, DataPositive
<1>5. sent + 1 \in Nat
  BY DEF Types
<1> QED BY <1>2, <1>3, <1>4, <1>5 DEF InOver, Transfer, Statuses

LEMMA InEndsKeeps ==
  ASSUME IInv, InEnds, UNCHANGED stream
  PROVE  IInv'
<1>1. PICK status \in {"COMPLETED", "TIMED_OUT", "ERROR", "CANCELLED"} :
        /\ IF status = "COMPLETED" THEN transfer["in"].state = "pending" /\ mishaps' = mishaps
           ELSE CutOff(transfer["in"], status)
        /\ \E n \in Sendable(status) :
             /\ transfer' = [transfer EXCEPT !["in"] = InOver(status, n)]
             /\ sent' = sent + Data(n)
  BY DEF InEnds
<1>2. PICK n \in Sendable(status) :
        transfer' = [transfer EXCEPT !["in"] = InOver(status, n)] /\ sent' = sent + Data(n)
  BY <1>1
<1>3. PICK y : y = InOver(status, n)
  OBVIOUS
<1>4. /\ y \in Transfer /\ y.state = "over" /\ y.first = sent + 1 /\ y.length = n
      /\ Whole(n) /\ n \in Nat /\ Data(n) \in Nat
  BY <1>3, LengthsAre DEF IInv
<1>5. transfer["in"].state \in {"pending", "cancelled"} /\ mishaps' \in Nat
  BY <1>1 DEF CutOff, Mishap, IInv, Types
<1>6. /\ readbuffer_offset' = readbuffer_offset /\ readbuffer_remaining' = readbuffer_remaining
      /\ readbuffer' = readbuffer /\ call' = call /\ tc' = tc /\ device_got' = device_got /\ gone' = gone
      /\ given' = given /\ received' = received /\ dropped' = dropped /\ calls' = calls /\ stream' = stream
  BY DEF InEnds, contextVars
<1>7. /\ transfer' \in [Dirs -> Transfer] /\ transfer'["in"] = y /\ transfer'["out"] = transfer["out"]
  BY <1>2, <1>3, <1>4, Updated, Directions DEF IInv, Types
<1>8. Types'
  <2>1. sent' \in Nat
    BY <1>2, <1>4 DEF IInv, Types
  <2> QED BY <1>5, <1>6, <1>7, <2>1 DEF IInv, Types
<1>9. tc["in"].how # "none" /\ ~tc["in"].completed
  BY <1>5, Directions, Nothing DEF IInv, Calling
<1>10. Calling("in")'
  BY <1>4, <1>6, <1>7, <1>9, Directions DEF IInv, Calling, Waits
<1>11. Calling("out")'
  BY <1>6, <1>7, CallingKept, Directions DEF IInv
<1>12. stream.transfers = <<>> /\ call.name \notin {"stream", "over"}
  BY <1>9, Directions DEF IInv, Streaming
<1>13. Streaming'
  BY <1>6 DEF IInv, Streaming
<1>14. Written'
  BY <1>6, <1>7, WrittenKept DEF IInv
<1>15. Read'
  <2>1. /\ Flow(received, dropped["in"], tc["in"].buf, <<>>, transfer["in"], stream.transfers, sent)
        /\ readbuffer_offset = 0 /\ readbuffer_remaining = 0 /\ Buffered(readbuffer_remaining) = <<>>
    BY <1>5, NothingKept
  <2>2. Buffered(readbuffer_remaining)' = <<>>
    BY <1>6, <2>1 DEF Buffered
  <2>3. tc["in"].buf \in Seq(Nat) /\ transfer["in"] \in Transfer /\ <<>> \in Seq(Nat)
    BY Parts DEF IInv
  <2>4. PICK top \in Nat : top = sent
    BY DEF IInv, Types
  <2>5. Flow(received, dropped["in"], tc["in"].buf, <<>>, y, <<>>, top + Data(n))
    <3>1. Flow(received, dropped["in"], tc["in"].buf, <<>>, transfer["in"], <<>>, top)
      BY <1>12, <2>1, <2>4
    <3>2. y.first = top + 1 /\ Whole(y.length) /\ transfer["in"].state # "over"
      BY <1>4, <1>5, <2>4
    <3> QED BY <1>4, <2>3, <3>1, <3>2, FlowEnded DEF IInv, Types
  <2>6. ReadsFresh'
    BY <1>6, <2>1 DEF IInv, Read, ReadsFresh
  <2> QED BY <1>2, <1>6, <1>7, <1>12, <2>2, <2>4, <2>5, <2>6 DEF Read
<1> QED BY <1>8, <1>10, <1>11, <1>13, <1>14, <1>15, Directions DEF IInv

LEMMA OutEndsKeeps ==
  ASSUME IInv, OutEnds, UNCHANGED stream
  PROVE  IInv'
<1>1. PICK x \in Transfer : x = transfer["out"]
  BY Parts DEF IInv
<1>2. PICK status \in {"COMPLETED", "TIMED_OUT", "ERROR", "CANCELLED"} :
        /\ IF status = "COMPLETED" THEN x.state = "pending" /\ mishaps' = mishaps ELSE CutOff(x, status)
        /\ \E n \in IF status = "COMPLETED" THEN {x.length} ELSE 0 .. (x.length - 1) :
             /\ transfer' = [transfer EXCEPT !["out"] = [x EXCEPT !.state = "over", !.length = n, !.status = status]]
             /\ device_got' = device_got \o Interval(x.first - 1, x.first - 1 + n)
  BY <1>1 DEF OutEnds
<1>3. PICK n \in IF status = "COMPLETED" THEN {x.length} ELSE 0 .. (x.length - 1) :
        /\ transfer' = [transfer EXCEPT !["out"] = [x EXCEPT !.state = "over", !.length = n, !.status = status]]
        /\ device_got' = device_got \o Interval(x.first - 1, x.first - 1 + n)
  BY <1>2
<1>4. x.length \in Nat /\ n \in Nat /\ n <= x.length
  <2>1. x.length \in Nat
    BY DEF Transfer
  <2> QED BY <1>3, <2>1
<1>5. PICK y : y = [x EXCEPT !.state = "over", !.length = n, !.status = status]
  OBVIOUS
<1>6. y \in Transfer /\ y.state = "over" /\ y.first = x.first /\ y.length = n
  BY <1>4, <1>5 DEF Transfer, Statuses
<1>7. x.state \in {"pending", "cancelled"} /\ mishaps' \in Nat
  BY <1>2 DEF CutOff, Mishap, IInv, Types
<1>8. /\ readbuffer_offset' = readbuffer_offset /\ readbuffer_remaining' = readbuffer_remaining
      /\ readbuffer' = readbuffer /\ call' = call /\ tc' = tc /\ sent' = sent /\ gone' = gone
      /\ given' = given /\ received' = received /\ dropped' = dropped /\ calls' = calls /\ stream' = stream
  BY DEF OutEnds, contextVars
<1>9. /\ transfer' \in [Dirs -> Transfer] /\ transfer'["out"] = y /\ transfer'["in"] = transfer["in"]
  BY <1>3, <1>5, <1>6, Updated, Directions DEF IInv, Types
<1>10. PICK a \in Nat : a = Arrived
  BY WriteNumbers
<1>11. /\ a = given + tc["out"].offset /\ x.first - 1 = a /\ tc["out"].offset + n <= tc["out"].size
  <2>1. /\ Arrived = given + tc["out"].offset /\ x.first = given + tc["out"].offset + 1
        /\ tc["out"].offset + x.length <= tc["out"].size
        /\ given \in Nat /\ tc["out"].offset \in Nat /\ tc["out"].size \in Nat
    BY <1>1, <1>7, WriteNumbers
  <2> QED BY <1>4, <1>10, <2>1
<1>12. PICK b \in Nat : b = a + n
  BY <1>4
<1>13. device_got' = device_got \o Interval(a, b) /\ a <= b
  BY <1>3, <1>4, <1>11, <1>12, SMTT(30)
<1>14. Rising(device_got', b)
  <2>1. Rising(device_got, a) /\ device_got \in Seq(Nat)
    BY <1>10, WriteNumbers
  <2> QED BY <1>13, <2>1, RisingJoin
<1>15. ~dropped'["out"] => device_got' = Interval(0, b)
  <2> HAVE ~dropped'["out"]
  <2>1. device_got = Interval(0, a)
    BY <1>8, <1>10, WriteNumbers
  <2>2. 0 <= a
    OBVIOUS
  <2> QED BY <1>13, <2>1, <2>2, IntervalJoin
<1>16. Arrived' = b
  BY <1>6, <1>8, <1>9, <1>11, <1>12 DEF Arrived, Over
<1>17. Written'
  <2>1. transfer'["out"].first = given' + tc'["out"].offset + 1
        /\ tc'["out"].offset + transfer'["out"].length <= tc'["out"].size
    BY <1>1, <1>6, <1>7, <1>8, <1>9, <1>11, WriteNumbers
  <2> QED BY <1>14, <1>15, <1>16, <2>1 DEF Written
<1>18. Types'
  <2>1. device_got' \in Seq(Nat)
    <3>1. Interval(a, b) \in Seq(Nat) /\ device_got \in Seq(Nat)
      BY <1>13, IntervalIs, WriteNumbers
    <3> QED BY <1>13, <3>1, SequenceTypes
  <2> QED BY <1>7, <1>8, <1>9, <2>1 DEF IInv, Types
<1>19. Calling("out")'
  <2>1. tc["out"].how # "none" /\ ~tc["out"].completed
    BY <1>1, <1>7, Directions, Nothing DEF IInv, Calling
  <2> QED BY <1>6, <1>8, <1>9, <2>1, Directions DEF IInv, Calling, Waits
<1>20. Calling("in")'
  BY <1>8, <1>9, CallingKept, Directions DEF IInv
<1>21. Streaming'
  BY <1>8 DEF IInv, Streaming
<1>22. Read'
  BY <1>8, <1>9, ReadKept DEF IInv
<1> QED BY <1>17, <1>18, <1>19, <1>20, <1>21, <1>22, Directions DEF IInv

-----------------------------------------------------------------------------
(***************************************************************************)
(* The stream.                                                             *)
(***************************************************************************)
StreamState ==
  [transfers : Seq(Transfer), result : {"none", "error", "quiet"},
   activity : BOOLEAN, stop : BOOLEAN, timeout : Nat]

\* The stream has the device for itself.
LEMMA StreamCalled ==
  ASSUME IInv, call.name = "stream"
  PROVE  /\ \A d \in Dirs : tc[d] = NoControl /\ transfer[d] = NoTransfer
         /\ readbuffer_offset = 0 /\ readbuffer_remaining = 0
         /\ stream \in StreamState /\ stream.transfers \in Seq(Transfer)
         /\ received \in Seq(Nat) /\ sent \in Nat /\ <<>> \in Seq(Nat)
         /\ NoTransfer \in Transfer /\ Inert(NoTransfer)
         /\ Flow(received, dropped["in"], <<>>, <<>>, NoTransfer, stream.transfers, sent)
<1>1. \A d \in Dirs : tc[d] = NoControl /\ transfer[d] = NoTransfer
  BY DEF IInv, Streaming, Calling
<1>2. readbuffer_offset = 0 /\ readbuffer_remaining = 0
  BY DEF IInv, Read, ReadsFresh
<1>3. Buffered(readbuffer_remaining) = <<>>
  <2>1. 0 \in Nat /\ 0 <= ReadChunk
    BY Constants
  <2> QED BY <1>2, <2>1, BufferedNone DEF IInv, Types
<1>4. Flow(received, dropped["in"], <<>>, <<>>, NoTransfer, stream.transfers, sent)
  BY <1>1, <1>3, Directions, Nothing DEF IInv, Read
<1>5. NoTransfer \in Transfer /\ Inert(NoTransfer)
  BY Nothing DEF Inert
<1> QED BY <1>1, <1>2, <1>4, <1>5, Parts DEF IInv, Types, StreamState

\* What a step of the stream has to show.
LEMMA StreamKeeps ==
  ASSUME IInv, call.name = "stream", call' \in Call, call'.name \in {"stream", "over"},
         UNCHANGED <<contextVars, tc, transfer, device_got, gone, given, calls>>,
         dropped' \in [Dirs -> BOOLEAN], dropped'["out"] = dropped["out"],
         mishaps' \in Nat, received' \in Seq(Nat), sent' \in Nat, stream' \in StreamState,
         Flow(received', dropped'["in"], <<>>, <<>>, NoTransfer, stream'.transfers, sent')
  PROVE  IInv'
<1>1. /\ \A d \in Dirs : tc[d] = NoControl /\ transfer[d] = NoTransfer
      /\ readbuffer_offset = 0 /\ readbuffer_remaining = 0
  BY StreamCalled
<1>2. /\ readbuffer_offset' = readbuffer_offset /\ readbuffer_remaining' = readbuffer_remaining
      /\ readbuffer' = readbuffer /\ tc' = tc /\ transfer' = transfer /\ given' = given
      /\ device_got' = device_got /\ gone' = gone /\ calls' = calls
  BY DEF contextVars
<1>3. Types'
  BY <1>2 DEF IInv, Types, StreamState
<1>4. \A d \in Dirs : Calling(d)'
  <2> TAKE d \in Dirs
  <2>1. ~Waits("bulk", d) /\ ~Waits("bulk", d)'
    BY DEF Waits
  <2> QED BY <1>2, <2>1, CallingKept DEF IInv, Waits
<1>5. Streaming'
  BY <1>1, <1>2, Nothing DEF Streaming
<1>6. Written'
  BY <1>2, WrittenKept DEF IInv
<1>7. Read'
  <2>1. Buffered(readbuffer_remaining)' = <<>>
    <3>1. 0 \in Nat /\ 0 <= ReadChunk
      BY Constants
    <3>2. Buffered(0) = <<>>
      BY <1>1, <3>1, BufferedNone DEF IInv, Types
    <3> QED BY <1>1, <1>2, <3>2 DEF Buffered
  <2>2. tc["in"] = NoControl /\ transfer["in"] = NoTransfer
    BY <1>1, Directions
  <2>3. ReadsFresh'
    BY <1>1, <1>2, <2>2, Nothing DEF ReadsFresh
  <2> QED BY <1>2, <2>1, <2>2, <2>3, Nothing DEF Read
<1> QED BY <1>3, <1>4, <1>5, <1>6, <1>7 DEF IInv

LEMMA StreamCallbackKeeps ==
  ASSUME IInv, NEW stop \in BOOLEAN, ftdi_readstream_cb(stop)
  PROVE  IInv'
<1> DEFINE xs == stream.transfers
           y == Submitted(0, ReadChunk)
<1>1. /\ call.name = "stream" /\ xs # <<>> /\ Head(xs).state = "over"
      /\ received' = received \o Payloads(Head(xs))
      /\ stream' = IF stop THEN [stream EXCEPT !.transfers = Tail(@), !.activity = TRUE, !.stop = TRUE]
                   ELSE Resubmitted
      /\ UNCHANGED <<contextVars, tc, transfer, device_got, gone, given, calls>>
      /\ call' = call /\ dropped' = dropped /\ mishaps' = mishaps /\ sent' = sent
  BY DEF ftdi_readstream_cb, FirstOver, deviceVars, boundVars
<1>2. /\ stream \in StreamState /\ xs \in Seq(Transfer) /\ received \in Seq(Nat) /\ sent \in Nat
      /\ <<>> \in Seq(Nat) /\ NoTransfer \in Transfer /\ Inert(NoTransfer)
      /\ Flow(received, dropped["in"], <<>>, <<>>, NoTransfer, xs, sent)
  BY <1>1, StreamCalled
<1>3. Tail(xs) \in Seq(Transfer) /\ Head(xs) \in Transfer
  BY <1>1, <1>2
<1>4. received' \in Seq(Nat)
  <2>1. PICK a, b, c, d \in Nat : Ends(a, b, c, d, received, dropped["in"], <<>>, <<>>, NoTransfer, xs, sent)
    BY <1>2, FlowEnds
  <2>2. After(Head(xs), d)
    BY <1>1, <1>2, <2>1, ChainsHead DEF Ends
  <2>3. Whole(Head(xs).length) /\ Data(Head(xs).length) > 0 => Head(xs).first = d + 1
    BY <1>1, <2>2 DEF After, Brought
  <2>4. Payloads(Head(xs)) = Interval(d, d + Data(Head(xs).length))
    BY <1>1, <1>3, <2>2, PayloadsAre DEF After, Brought
  <2>5. PICK e \in Nat : e = d + Data(Head(xs).length) /\ d <= e
    <3>1. Head(xs).length \in Nat
      BY <1>3 DEF Transfer
    <3>2. PICK n \in Nat : n = Head(xs).length
      BY <3>1
    <3>3. Data(n) \in Nat
      <4>1. Whole(n)
        BY <2>2, <3>2, <1>1 DEF After
      <4> QED BY <4>1, DataPositive
    <3> QED BY <3>2, <3>3
  <2>6. Interval(d, e) \in Seq(Nat)
    BY <2>5, IntervalIs
  <2> QED BY <1>1, <1>2, <2>4, <2>5, <2>6, SequenceTypes
<1>5. Flow(received', dropped'["in"], <<>>, <<>>, NoTransfer, Tail(xs), sent)
  BY <1>1, <1>2, FlowStreamed
<1>6. PICK top \in Nat : top = sent
  BY <1>2
<1>7. CASE stop \/ gone
  <2>1. stream' \in StreamState /\ stream'.transfers = Tail(xs)
    <3>1. Tail(xs) \o <<>> = Tail(xs)
      BY <1>3
    <3> QED BY <1>1, <1>2, <1>3, <1>7, <3>1 DEF StreamState, Resubmitted
  <2> QED BY <1>1, <1>2, <1>4, <1>5, <2>1, StreamKeeps DEF IInv, Types
<1>8. CASE ~stop /\ ~gone
  <2>1. y \in Transfer /\ y.state \in {"pending", "over"} /\ Inert(y)
    <3>1. 0 \in Nat /\ ReadChunk \in Nat
      BY Constants
    <3> QED BY <3>1, <1>8, SubmittedIs DEF IInv, Inert, Submitted
  <2> DEFINE ys == Tail(xs) \o <<y>>
  <2>2. ys \in Seq(Transfer)
    BY <1>3, <2>1
  <2>3. stream' \in StreamState /\ stream'.transfers = ys
    BY <1>1, <1>2, <2>2, <1>8 DEF StreamState, Resubmitted
  <2>4. \A d \in Nat : Chains(Tail(xs), d, top) => Chains(ys, d, top)
    BY <1>3, <2>1, ChainsAppend
  <2>5. Flow(received', dropped'["in"], <<>>, <<>>, NoTransfer, ys, top)
    <3>1. Flow(received', dropped'["in"], <<>>, <<>>, NoTransfer, Tail(xs), top)
      BY <1>5, <1>6
    <3> HIDE DEF ys, xs
    <3> QED BY <1>2, <1>3, <1>4, <2>4, <3>1, FlowChained
  <2> QED BY <1>1, <1>2, <1>4, <1>6, <2>3, <2>5, StreamKeeps DEF IInv, Types
<1> QED BY <1>7, <1>8

LEMMA StreamErrorKeeps ==
  ASSUME IInv, StreamError
  PROVE  IInv'
<1> DEFINE xs == stream.transfers
<1>1. /\ call.name = "stream" /\ xs # <<>>
      /\ stream' = [stream EXCEPT !.transfers = Tail(@), !.result = "error", !.activity = TRUE]
      /\ dropped' = [dropped EXCEPT !["in"] = TRUE]
      /\ UNCHANGED <<contextVars, tc, transfer, device_got, gone, given, calls>>
      /\ call' = call /\ mishaps' = mishaps /\ sent' = sent /\ received' = received
  BY DEF StreamError, FirstOver, deviceVars, boundVars
<1>2. /\ stream \in StreamState /\ xs \in Seq(Transfer) /\ received \in Seq(Nat) /\ sent \in Nat
      /\ <<>> \in Seq(Nat) /\ NoTransfer \in Transfer /\ Inert(NoTransfer)
      /\ Flow(received, dropped["in"], <<>>, <<>>, NoTransfer, xs, sent)
  BY <1>1, StreamCalled
<1>3. stream' \in StreamState /\ stream'.transfers = Tail(xs)
  <2>1. PICK ys \in Seq(Transfer) : ys = Tail(xs)
    <3>1. PICK s \in Seq(Transfer) : s = xs /\ s # <<>>
      BY <1>1, <1>2
    <3>2. Tail(s) \in Seq(Transfer)
      BY ONLY <3>1, s \in Seq(Transfer)
    <3> QED BY <3>1, <3>2
  <2>2. stream' = [stream EXCEPT !.transfers = ys, !.result = "error", !.activity = TRUE]
    BY <1>1, <2>1
  <2> QED BY <1>2, <2>1, <2>2 DEF StreamState
<1>4. dropped' \in [Dirs -> BOOLEAN] /\ dropped'["in"] = TRUE /\ dropped'["out"] = dropped["out"]
  BY <1>1, Updated, Directions DEF IInv, Types
<1>5. Flow(received', dropped'["in"], <<>>, <<>>, NoTransfer, Tail(xs), sent')
  BY <1>1, <1>2, <1>4, FlowStreamed
<1> QED BY <1>1, <1>2, <1>3, <1>4, <1>5, StreamKeeps DEF IInv, Types

LEMMA StreamRoundKeeps ==
  ASSUME IInv, StreamRound
  PROVE  IInv'
<1>1. /\ call.name = "stream" /\ mishaps' \in Nat
      /\ stream' = [stream EXCEPT !.result = Judged, !.activity = FALSE]
      /\ call' = IF Judged = "none" THEN call ELSE [name |-> "over", dir |-> "in"]
      /\ UNCHANGED <<contextVars, tc, transfer, device_got, gone, given, calls>>
      /\ dropped' = dropped /\ sent' = sent /\ received' = received
  BY DEF StreamRound, deviceVars, Mishap, IInv, Types
<1>2. /\ stream \in StreamState /\ received \in Seq(Nat) /\ sent \in Nat
      /\ Flow(received, dropped["in"], <<>>, <<>>, NoTransfer, stream.transfers, sent)
  BY <1>1, StreamCalled
<1>3. Judged \in {"none", "error", "quiet"}
  BY <1>2 DEF Judged, StreamState
<1>4. stream' \in StreamState /\ stream'.transfers = stream.transfers
  BY <1>1, <1>2, <1>3 DEF StreamState
<1>5. call' \in Call /\ call'.name \in {"stream", "over"}
  BY <1>1, Directions DEF Call, IInv, Types
<1> QED BY <1>1, <1>2, <1>4, <1>5, StreamKeeps DEF IInv, Types

LEMMA StreamWaitFailsKeeps ==
  ASSUME IInv, StreamWaitFails
  PROVE  IInv'
<1> DEFINE r == IF stream.activity /\ stream.result = "none" THEN "error" ELSE Judged
<1>1. /\ call.name = "stream" /\ mishaps' \in Nat
      /\ stream' = [stream EXCEPT !.result = r, !.activity = FALSE]
      /\ call' = [name |-> "over", dir |-> "in"]
      /\ UNCHANGED <<contextVars, tc, transfer, device_got, gone, given, calls>>
      /\ dropped' = dropped /\ sent' = sent /\ received' = received
  BY DEF StreamWaitFails, deviceVars, Mishap, IInv, Types
<1>2. /\ stream \in StreamState /\ received \in Seq(Nat) /\ sent \in Nat
      /\ Flow(received, dropped["in"], <<>>, <<>>, NoTransfer, stream.transfers, sent)
  BY <1>1, StreamCalled
<1>3. r \in {"none", "error", "quiet"}
  BY <1>2 DEF Judged, StreamState
<1>4. stream' \in StreamState /\ stream'.transfers = stream.transfers
  BY <1>1, <1>2, <1>3 DEF StreamState
<1>5. call' \in Call /\ call'.name \in {"stream", "over"}
  BY <1>1, Directions DEF Call, IInv, Types
<1> QED BY <1>1, <1>2, <1>4, <1>5, StreamKeeps DEF IInv, Types

LEMMA StreamEndsKeeps ==
  ASSUME IInv, StreamEnds
  PROVE  IInv'
<1> DEFINE xs == stream.transfers
<1>1. PICK k \in Next_to_fill, status \in {"COMPLETED", "ERROR"} :
        /\ IF status = "ERROR" THEN Mishap ELSE mishaps' = mishaps
        /\ \E n \in Sendable(status) :
             /\ stream' = [stream EXCEPT !.transfers[k] = InOver(status, n)]
             /\ sent' = sent + Data(n)
  BY DEF StreamEnds
<1>2. PICK n \in Sendable(status) :
        stream' = [stream EXCEPT !.transfers[k] = InOver(status, n)] /\ sent' = sent + Data(n)
  BY <1>1
<1>3. PICK y : y = InOver(status, n)
  OBVIOUS
<1>4. /\ y \in Transfer /\ y.state = "over" /\ y.first = sent + 1 /\ y.length = n
      /\ Whole(n) /\ n \in Nat /\ Data(n) \in Nat
  BY <1>3, LengthsAre DEF IInv
<1>5. /\ call.name = "stream" /\ call' = call /\ received' = received /\ dropped' = dropped
      /\ UNCHANGED <<contextVars, tc, transfer, device_got, gone, given, calls>>
  BY DEF StreamEnds
<1>6. /\ stream \in StreamState /\ xs \in Seq(Transfer) /\ received \in Seq(Nat) /\ sent \in Nat
      /\ <<>> \in Seq(Nat) /\ NoTransfer \in Transfer
      /\ Flow(received, dropped["in"], <<>>, <<>>, NoTransfer, xs, sent)
  BY <1>5, StreamCalled
<1>7. mishaps' \in Nat
  BY <1>1 DEF Mishap, IInv, Types
<1>8. k \in 1 .. Len(xs) /\ xs[k].state = "pending" /\ \A j \in 1 .. k - 1 : xs[j].state # "pending"
  <2>1. k \in 1 .. Len(xs) /\ \A j \in 1 .. k : (xs[j].state = "pending") <=> (j = k)
    BY <1>6 DEF Next_to_fill
  <2> QED BY <2>1
<1>9. stream' \in StreamState /\ stream'.transfers = [xs EXCEPT ![k] = y]
  <2>1. [xs EXCEPT ![k] = y] \in Seq(Transfer)
    <3>1. PICK i \in 1 .. Len(xs) : i = k
      BY <1>8
    <3>2. PICK s \in Seq(Transfer) : s = xs
      BY <1>6
    <3>3. y \in Transfer /\ i \in 1 .. Len(s)
      BY <1>4, <3>1, <3>2
    <3>4. [s EXCEPT ![i] = y] \in Seq(Transfer)
      BY ONLY <3>3, s \in Seq(Transfer)
    <3> QED BY <3>1, <3>2, <3>4
  <2> QED BY <1>2, <1>3, <1>6, <2>1 DEF StreamState
<1>10. PICK top \in Nat : top = sent
  BY <1>6
<1>11. Flow(received, dropped["in"], <<>>, <<>>, NoTransfer, [xs EXCEPT ![k] = y], top + Data(n))
  <2>1. y.first = top + 1 /\ Whole(y.length)
    BY <1>4, <1>10
  <2>2. Flow(received, dropped["in"], <<>>, <<>>, NoTransfer, xs, top)
    BY <1>6, <1>10
  <2> HIDE DEF xs
  <2> QED BY <1>4, <1>6, <1>8, <2>1, <2>2, FlowFilled
<1>12. sent' \in Nat /\ sent' = top + Data(n)
  BY <1>2, <1>4, <1>10
<1> QED BY <1>5, <1>6, <1>7, <1>9, <1>11, <1>12, StreamKeeps DEF IInv, Types

LEMMA ReadStreamKeeps ==
  ASSUME IInv, NEW timeout \in ReadTimeouts, ReadStream(timeout)
  PROVE  IInv'
<1> DEFINE xs == [k \in 1 .. NumTransfers |-> Submitted(0, ReadChunk)]
<1>1. /\ call = Idle /\ ~gone /\ readbuffer_offset' = 0 /\ readbuffer_remaining' = 0
      /\ (\A d \in Dirs : tc[d].how = "none") /\ calls > 0 /\ calls' = calls - 1
      /\ dropped' = [dropped EXCEPT !["in"] = @ \/ readbuffer_remaining > 0]
      /\ stream' = [stream EXCEPT !.transfers = xs, !.timeout = timeout]
      /\ call' = [name |-> "stream", dir |-> "in"]
      /\ readbuffer' = readbuffer /\ tc' = tc /\ transfer' = transfer
      /\ sent' = sent /\ device_got' = device_got /\ gone' = gone
      /\ received' = received /\ given' = given /\ mishaps' = mishaps
  BY DEF ReadStream, deviceVars
<1>2. \A d \in Dirs : tc[d] = NoControl /\ transfer[d] = NoTransfer
  BY <1>1 DEF IInv, Calling
<1>3. stream.transfers = <<>> /\ calls' \in Nat
  BY <1>1, Directions, Starting DEF Starts
<1>4. PICK y : y = Submitted(0, ReadChunk)
  OBVIOUS
<1>5. y \in Transfer /\ y.state \in {"pending", "over"} /\ Inert(y)
  <2>1. 0 \in Nat /\ ReadChunk \in Nat
    BY Constants
  <2> QED BY <1>1, <1>4, <2>1, SubmittedIs DEF IInv, Inert, Submitted
<1>6. xs \in Seq(Transfer) /\ Len(xs) = NumTransfers /\ \A k \in 1 .. Len(xs) : xs[k] = y
  <2>1. NumTransfers \in Nat
    BY Constants
  <2>2. xs \in [1 .. NumTransfers -> Transfer]
    BY <1>4, <1>5
  <2> QED BY ONLY <2>1, <2>2, <1>4
<1> HIDE DEF xs
<1>7. stream' \in StreamState /\ stream'.transfers = xs
  <2>1. timeout \in Nat
    BY Constants
  <2> QED BY <1>1, <1>6, <2>1 DEF StreamState, IInv, Types
<1>8. PICK lose \in BOOLEAN : lose <=> (dropped["in"] \/ readbuffer_remaining > 0)
  OBVIOUS
<1>9. /\ dropped' \in [Dirs -> BOOLEAN] /\ dropped'["in"] = lose /\ dropped'["out"] = dropped["out"]
  <2>1. dropped["in"] \in BOOLEAN
    BY Directions DEF IInv, Types
  <2>2. dropped' = [dropped EXCEPT !["in"] = lose]
    BY <1>1, <1>8, <2>1
  <2> QED BY <2>2, Updated, Directions DEF IInv, Types
<1>10. Types'
  <2>1. call' \in Call
    BY <1>1, Directions DEF Call
  <2>2. 0 \in Nat /\ 0 + 0 <= ReadChunk
    BY Constants
  <2> QED BY <1>1, <1>3, <1>7, <1>9, <2>1, <2>2 DEF IInv, Types, StreamState
<1>11. \A d \in Dirs : Calling(d)'
  <2> TAKE d \in Dirs
  <2>1. ~Waits("bulk", d) /\ ~Waits("bulk", d)'
    BY <1>1 DEF Waits, Idle
  <2> QED BY <1>1, <2>1, CallingKept DEF IInv, Waits
<1>12. Streaming'
  BY <1>1, <1>2, Nothing DEF Streaming
<1>13. Written'
  BY <1>1, <1>9, WrittenKept DEF IInv
<1>14. PICK top \in Nat : top = sent
  BY DEF IInv, Types
<1>15. Flow(received, lose, <<>>, <<>>, NoTransfer, <<>>, top)
  <2>1. /\ received \in Seq(Nat) /\ Buffered(readbuffer_remaining) \in Seq(Nat) /\ <<>> \in Seq(Nat)
        /\ NoTransfer \in Transfer /\ Inert(NoTransfer) /\ <<>> \in Seq(Transfer)
    BY Parts, Nothing DEF Inert, IInv, Types
  <2>2. Flow(received, dropped["in"], <<>>, Buffered(readbuffer_remaining), NoTransfer, <<>>, top)
    BY <1>2, <1>3, <1>14, Directions, Nothing DEF IInv, Read
  <2>3. CASE readbuffer_remaining > 0
    <3>1. lose = TRUE
      BY <1>8, <2>3
    <3> QED BY <2>1, <2>2, <3>1, FlowLost
  <2>4. CASE ~(readbuffer_remaining > 0)
    <3>1. readbuffer_remaining = 0
      BY <2>4 DEF IInv, Types
    <3>2. Buffered(readbuffer_remaining) = <<>>
      BY <3>1, BufferedNone DEF IInv, Types
    <3>3. lose = dropped["in"]
      BY <1>8, <2>4, Directions DEF IInv, Types
    <3> QED BY <2>2, <3>2, <3>3
  <2> QED BY <2>3, <2>4
<1>16. Flow(received, lose, <<>>, <<>>, NoTransfer, xs, top)
  <2>1. \A d \in Nat : Chains(<<>>, d, top) => Chains(xs, d, top)
    <3>1. Chains(xs, top, top)
      BY <1>5, <1>6, ChainsNew
    <3> QED BY <3>1, ChainsEmpty
  <2>2. /\ received \in Seq(Nat) /\ <<>> \in Seq(Nat) /\ NoTransfer \in Transfer /\ <<>> \in Seq(Transfer)
    BY Nothing DEF IInv, Types
  <2> QED BY <1>15, <2>1, <2>2, FlowChained
<1>17. Read'
  <2>1. Buffered(readbuffer_remaining)' = <<>>
    <3>1. PICK f \in [1 .. ReadChunk -> Nat] : f = readbuffer
      BY DEF IInv, Types
    <3>2. SubSeq(f, 0 + 1, 0 + 0) = <<>>
      OBVIOUS
    <3> QED BY <1>1, <3>1, <3>2 DEF Buffered
  <2>2. tc["in"] = NoControl /\ transfer["in"] = NoTransfer
    BY <1>2, Directions
  <2>3. ReadsFresh'
    BY <1>1, <2>2, Nothing DEF ReadsFresh
  <2> QED BY <1>1, <1>7, <1>9, <1>14, <1>16, <2>1, <2>2, <2>3, Nothing DEF Read
<1> QED BY <1>10, <1>11, <1>12, <1>13, <1>17 DEF IInv

\* A transfer that is cut short by the loss of the device.
LEMMA CutShort ==
  ASSUME NEW x \in Transfer, NEW y,
         y = IF x.state \in {"pending", "cancelled"}
             THEN [x EXCEPT !.state = "over", !.length = 0, !.status = "NO_DEVICE"] ELSE x
  PROVE  /\ y \in Transfer /\ y.first = x.first /\ y.length <= x.length
         /\ y.state = "none" <=> x.state = "none"
         /\ x.state \notin {"pending", "cancelled"} => y = x
         /\ x.state \in {"pending", "cancelled"} => y.state = "over" /\ y.length = 0 /\ Inert(y)
<1>1. x.length \in Nat
  BY DEF Transfer
<1>2. CASE x.state \in {"pending", "cancelled"}
  <2>1. PICK n \in Nat : n = 0
    OBVIOUS
  <2>2. PICK status \in Statuses : status = "NO_DEVICE"
    BY DEF Statuses
  <2>3. y = [x EXCEPT !.state = "over", !.length = n, !.status = status]
    BY <1>2, <2>1, <2>2
  <2>4. y \in Transfer /\ y.first = x.first /\ y.state = "over" /\ y.length = n
    BY <2>3 DEF Transfer
  <2> QED BY <1>1, <1>2, <2>1, <2>4 DEF Inert
<1>3. CASE x.state \notin {"pending", "cancelled"}
  BY <1>1, <1>3
<1> QED BY <1>2, <1>3

LEMMA UnpluggedKeeps ==
  ASSUME IInv, Unplugged, StreamUnplugged
  PROVE  IInv'
<1> DEFINE xs == stream.transfers
           ys == [k \in DOMAIN xs |-> IF xs[k].state = "over" THEN xs[k]
                    ELSE [xs[k] EXCEPT !.state = "over", !.status = "NO_DEVICE", !.length = 0]]
<1>1. mishaps' \in Nat
  <2>1. mishaps \in Nat
    BY DEF IInv, Types
  <2>2. mishaps > 0 /\ mishaps' = mishaps - 1
    BY DEF Unplugged, Mishap
  <2> QED BY <2>1, <2>2
<1>2. /\ gone' = TRUE
      /\ transfer' = [d \in Dirs |-> IF transfer[d].state \in {"pending", "cancelled"}
                        THEN [transfer[d] EXCEPT !.state = "over", !.length = 0, !.status = "NO_DEVICE"]
                        ELSE transfer[d]]
      /\ readbuffer' = readbuffer /\ readbuffer_offset' = readbuffer_offset
      /\ readbuffer_remaining' = readbuffer_remaining /\ call' = call /\ tc' = tc
      /\ sent' = sent /\ device_got' = device_got /\ received' = received /\ given' = given
      /\ dropped' = dropped /\ calls' = calls
  BY DEF Unplugged, contextVars
<1>3. stream' = [stream EXCEPT !.transfers = ys]
  BY DEF StreamUnplugged
<1>4. xs \in Seq(Transfer)
  BY Parts DEF IInv
<1>5. /\ ys \in Seq(Transfer) /\ Len(ys) = Len(xs)
      /\ \A k \in 1 .. Len(xs) :
           IF xs[k].state = "over" THEN ys[k] = xs[k] ELSE ys[k].state = "over" /\ ys[k].length = 0
  <2>1. DOMAIN xs = 1 .. Len(xs) /\ Len(xs) \in Nat /\ \A k \in 1 .. Len(xs) : xs[k] \in Transfer
    BY <1>4
  <2>2. ys \in [1 .. Len(xs) -> Transfer]
    BY <2>1 DEF Transfer, Statuses
  <2>3. ys \in Seq(Transfer) /\ Len(ys) = Len(xs)
    <3> HIDE DEF ys, xs
    <3> QED BY ONLY <2>1, <2>2
  <2>4. \A k \in 1 .. Len(xs) :
           IF xs[k].state = "over" THEN ys[k] = xs[k] ELSE ys[k].state = "over" /\ ys[k].length = 0
    BY <2>1 DEF Transfer
  <2> QED BY <2>3, <2>4
<1> HIDE DEF ys
<1>6. stream' \in StreamState /\ stream'.transfers = ys
  BY <1>3, <1>5 DEF StreamState, IInv, Types
<1>7. \A d \in Dirs :
        /\ transfer[d] \in Transfer /\ transfer'[d] \in Transfer
        /\ transfer'[d].first = transfer[d].first /\ transfer'[d].length <= transfer[d].length
        /\ transfer'[d].state = "none" <=> transfer[d].state = "none"
        /\ transfer[d].state \notin {"pending", "cancelled"} => transfer'[d] = transfer[d]
        /\ transfer[d].state \in {"pending", "cancelled"} =>
             transfer'[d].state = "over" /\ transfer'[d].length = 0 /\ Inert(transfer'[d])
  <2> TAKE d \in Dirs
  <2>1. transfer[d] \in Transfer
    BY DEF IInv, Types
  <2>2. transfer'[d] = IF transfer[d].state \in {"pending", "cancelled"}
                       THEN [transfer[d] EXCEPT !.state = "over", !.length = 0, !.status = "NO_DEVICE"]
                       ELSE transfer[d]
    BY <1>2
  <2> QED BY <2>1, <2>2, CutShort
<1>8. Types'
  <2>1. transfer' \in [Dirs -> Transfer]
    BY <1>2, <1>7
  <2> QED BY <1>1, <1>2, <1>6, <2>1 DEF IInv, Types, StreamState
<1>9. \A d \in Dirs : Calling(d)'
  <2> TAKE d \in Dirs
  <2>1. Calling(d) /\ transfer[d] \in Transfer
    BY <1>7 DEF IInv
  <2>2. tc[d].how = "none" \/ tc[d].completed => transfer'[d] = NoTransfer
    BY <1>7, <2>1, Nothing DEF Calling
  <2> QED BY <1>2, <1>7, <2>1, <2>2 DEF Calling, Waits
<1>10. Streaming'
  <2>1. ys # <<>> => xs # <<>>
    BY <1>4, <1>5
  <2> QED BY <1>2, <1>6, <2>1 DEF IInv, Streaming
<1>11. Written'
  <2>1. PICK x \in Transfer : x = transfer["out"]
    BY Parts DEF IInv
  <2>2. PICK n \in Nat : n = Arrived
    BY WriteNumbers
  <2>3. Arrived' = n
    <3>1. transfer'["out"].state = "over" /\ transfer["out"].state # "over" => transfer'["out"].length = 0
      BY <1>7, Directions
    <3>2. transfer["out"].state = "over" => transfer'["out"] = transfer["out"]
      BY <1>7, Directions
    <3>3. transfer'["out"].state # "over" => transfer'["out"] = transfer["out"]
      BY <1>7, Directions DEF Transfer
    <3>4. given \in Nat /\ tc["out"].offset \in Nat
      BY WriteNumbers
    <3>5. given' = given /\ tc' = tc
      BY <1>2
    <3> QED BY <2>2, <3>1, <3>2, <3>3, <3>4, <3>5 DEF Arrived, Over
  <2>4. transfer'["out"].state # "none" =>
          /\ transfer'["out"].first = given' + tc'["out"].offset + 1
          /\ tc'["out"].offset + transfer'["out"].length <= tc'["out"].size
    <3> HAVE transfer'["out"].state # "none"
    <3>1. /\ transfer["out"].state # "none" /\ transfer'["out"].first = transfer["out"].first
          /\ transfer'["out"].length <= transfer["out"].length /\ transfer'["out"].length \in Nat
      BY <1>7, Directions DEF Transfer
    <3>2. /\ transfer["out"].first = given + tc["out"].offset + 1
          /\ tc["out"].offset + transfer["out"].length <= tc["out"].size
          /\ tc["out"].offset \in Nat /\ tc["out"].size \in Nat /\ transfer["out"].length \in Nat
      BY <3>1, WriteNumbers
    <3>3. given' = given /\ tc' = tc
      BY <1>2
    <3>4. PICK m \in Nat : m = transfer'["out"].length
      BY <3>1
    <3>5. PICK l \in Nat : l = transfer["out"].length
      BY <3>2
    <3>6. PICK o \in Nat : o = tc["out"].offset
      BY <3>2
    <3>7. PICK z \in Nat : z = tc["out"].size
      BY <3>2
    <3>8. o + m <= z
      <4>1. o + l <= z /\ m <= l
        BY <3>1, <3>2, <3>4, <3>5, <3>6, <3>7
      <4> QED BY <4>1
    <3> QED BY <3>1, <3>2, <3>3, <3>4, <3>6, <3>7, <3>8
  <2> QED BY <1>2, <2>2, <2>3, <2>4, WrittenSame
<1>12. Read'
  <2>1. PICK top \in Nat : top = sent
    BY DEF IInv, Types
  <2>2. PICK kept \in Seq(Nat) : kept = Buffered(readbuffer_remaining)
    BY Parts DEF IInv
  <2>3. PICK x \in Transfer : x = transfer["in"]
    BY Parts DEF IInv
  <2>4. PICK y \in Transfer : y = transfer'["in"]
    BY <1>7, Directions
  <2>5. tc["in"].buf \in Seq(Nat) /\ received \in Seq(Nat)
    BY Parts DEF IInv, Types
  <2>6. Flow(received, dropped["in"], tc["in"].buf, kept, x, xs, top)
    BY <2>1, <2>2, <2>3 DEF IInv, Read
  <2>7. Flow(received, dropped["in"], tc["in"].buf, kept, y, xs, top)
    <3>1. CASE x.state \in {"pending", "cancelled"}
      <4>1. Inert(y) /\ Brought(x) = 0
        BY <1>7, <2>3, <2>4, <3>1, Directions DEF Brought
      <4> QED BY <1>4, <2>5, <2>6, <4>1, FlowSubmitted
    <3>2. CASE x.state \notin {"pending", "cancelled"}
      BY <1>7, <2>3, <2>4, <2>6, <3>2, Directions
    <3> QED BY <3>1, <3>2
  <2>8. Flow(received, dropped["in"], tc["in"].buf, kept, y, ys, top)
    <3>1. \A d \in Nat : Chains(xs, d, top) => Chains(ys, d, top)
      BY <1>4, <1>5, ChainsUnplugged
    <3> HIDE DEF xs
    <3> QED BY <1>4, <2>5, <2>7, <3>1, FlowChained
  <2>9. Buffered(readbuffer_remaining)' = kept
    BY <1>2, <2>2 DEF Buffered
  <2>10. ReadsFresh'
    BY <1>2, <1>7, Directions DEF IInv, Read, ReadsFresh
  <2> QED BY <1>2, <1>6, <2>1, <2>4, <2>8, <2>9, <2>10 DEF Read
<1> QED BY <1>8, <1>9, <1>10, <1>11, <1>12 DEF IInv

LEMMA StutterKeeps ==
  ASSUME IInv, UNCHANGED vars
  PROVE  IInv'
<1>1. /\ readbuffer_offset' = readbuffer_offset /\ readbuffer_remaining' = readbuffer_remaining
      /\ readbuffer' = readbuffer /\ call' = call /\ tc' = tc /\ transfer' = transfer /\ sent' = sent
      /\ device_got' = device_got /\ gone' = gone /\ given' = given /\ received' = received
      /\ dropped' = dropped /\ calls' = calls /\ mishaps' = mishaps /\ stream' = stream
  BY DEF vars, ftdiVars, contextVars, deviceVars, boundVars
<1>2. Types'
  BY <1>1 DEF IInv, Types
<1>3. \A d \in Dirs : Calling(d)'
  BY <1>1, CallingKept DEF IInv
<1>4. Streaming' /\ Written'
  BY <1>1, WrittenKept DEF IInv, Streaming
<1>5. Read'
  BY <1>1, ReadKept DEF IInv
<1> QED BY <1>2, <1>3, <1>4, <1>5 DEF IInv

LEMMA StepsKeep ==
  ASSUME IInv, Steps \/ Finished \/ UNCHANGED vars
  PROVE  IInv'
<1>1. CASE Data_calls /\ UNCHANGED stream
  <2>1. CASE \E how \in {"sync", "async"} :
                \/ \E size \in ReadSizes : ReadFromBuffer(how, size) \/ StartRead(how, size)
                \/ \E size \in WriteSizes : StartWrite(how, size)
    BY <1>1, <2>1, ReadFromBufferKeeps, StartReadKeeps, StartWriteKeeps
  <2>2. CASE Reading
    BY <1>1, <2>2, ReadFailsKeeps, ReadNothingKeeps, ReadChunkDoneKeeps DEF Reading
  <2>3. CASE Writing
    BY <1>1, <2>3, WriteFailsKeeps, WriteChunkDoneKeeps DEF Writing
  <2>4. CASE Callbacks
    BY <1>1, <2>4, ReadCallbackKeeps, WriteCallbackKeeps DEF Callbacks
  <2>5. CASE \E d \in Dirs :
               ftdi_transfer_data_done(d) \/ ftdi_transfer_data_cancel(d) \/ DoneFails(d) \/ Waiting(d)
    BY <1>1, <2>5, DoneKeeps, CancellingKeeps, DoneFailsKeeps, DoneReturnsKeeps, CancelReturnsKeeps DEF Waiting
  <2> QED BY <1>1, <2>1, <2>2, <2>3, <2>4, <2>5 DEF Data_calls
<1>2. CASE (InEnds \/ OutEnds) /\ UNCHANGED stream
  BY <1>2, InEndsKeeps, OutEndsKeeps
<1>3. CASE Unplugged /\ StreamUnplugged
  BY <1>3, UnpluggedKeeps
<1>4. CASE \E timeout \in ReadTimeouts : ReadStream(timeout)
  BY <1>4, ReadStreamKeeps
<1>5. CASE StreamCallbacks
  BY <1>5, StreamCallbackKeeps, StreamErrorKeeps DEF StreamCallbacks
<1>6. CASE StreamRound \/ StreamWaitFails \/ StreamEnds
  BY <1>6, StreamRoundKeeps, StreamWaitFailsKeeps, StreamEndsKeeps
<1>7. CASE Finished \/ UNCHANGED vars
  BY <1>7, StutterKeeps DEF Finished
<1> QED BY <1>1, <1>2, <1>3, <1>4, <1>5, <1>6, <1>7 DEF Steps

\* Once a transfer was freed in flight, that remains so.
LEMMA FreedRemains ==
  ASSUME stray # {}, [Next]_vars
  PROVE  stray' # {}
<1>1. CASE UNCHANGED stray \/ StrayUnplugged
  BY <1>1 DEF StrayUnplugged
<1>2. CASE \E d \in Dirs : CancelBreaks(d)
  BY <1>2 DEF CancelBreaks
<1>3. CASE \E s \in stray : StrayEnds(s) \/ LateCallback(s)
  BY <1>3 DEF StrayEnds, LateCallback
<1>4. CASE Finished \/ UNCHANGED vars
  BY <1>4 DEF Finished, vars
<1> QED BY <1>1, <1>2, <1>3, <1>4 DEF Next, Strays

\* The first breaks the invariant; until then every step keeps it.
LEMMA NextKeeps ==
  ASSUME NoneFreedActive => IInv, [Next]_vars
  PROVE  (NoneFreedActive => IInv)'
<1> SUFFICES ASSUME NoneFreedActive' PROVE IInv'
  OBVIOUS
<1>1. stray = {} /\ stray' = {}
  BY FreedRemains DEF NoneFreedActive
<1>2. ~Strays
  BY <1>1 DEF Strays, CancelBreaks
<1> QED BY <1>1, <1>2, StepsKeep DEF Next, NoneFreedActive

-----------------------------------------------------------------------------
(***************************************************************************)
(* What is in flight.                                                      *)
(***************************************************************************)
LEMMA InFlightIs ==
  ASSUME NEW x \in Transfer, NEW c \in Nat, After(x, c)
  PROVE  InFlight(x) = Interval(c, c + Brought(x)) /\ c + Brought(x) \in Nat
<1>1. CASE x.state = "over"
  <2>1. Whole(x.length) /\ Brought(x) = Data(x.length) /\ (Data(x.length) > 0 => x.first = c + 1)
    BY <1>1 DEF After, Brought
  <2>2. Payloads(x) = Interval(c, c + Data(x.length))
    BY <2>1, PayloadsAre
  <2>3. c + Brought(x) \in Nat
    BY BroughtIs
  <2> QED BY <1>1, <2>1, <2>2, <2>3 DEF InFlight
<1>2. CASE x.state # "over"
  <2>1. Brought(x) = 0 /\ c + 0 = c
    BY <1>2 DEF Brought
  <2>2. Interval(c, c) = <<>>
    BY IntervalEmpty
  <2> QED BY <1>2, <2>1, <2>2 DEF InFlight
<1> QED BY <1>1, <1>2

\* The payloads of the transfers of the stream, one after the other.
Appended(f, xs, m) == f = [k \in 0 .. m |-> IF k = 0 THEN <<>> ELSE f[k - 1] \o InFlight(xs[k])]

LEMMA StreamedIs ==
  ASSUME NEW xs \in Seq(Transfer), NEW d, NEW top \in Nat, Chains(xs, d, top), NEW m \in Nat, m = Len(xs)
  PROVE  (\E f : Appended(f, xs, m)) /\ \A f : Appended(f, xs, m) => f[m] = Interval(d, top)
<1>1. PICK pos \in [0 .. Len(xs) -> 0 .. top] :
        /\ pos[0] = d /\ pos[Len(xs)] = top
        /\ \A k \in 1 .. Len(xs) :
             /\ After(xs[k], pos[k - 1]) /\ pos[k] = pos[k - 1] + Brought(xs[k])
  BY DEF Chains
<1> DEFINE D(f) == [k \in 0 .. m |-> IF k = 0 THEN <<>> ELSE f[k - 1] \o InFlight(xs[k])]
           g == [k \in 0 .. m |-> Interval(d, pos[k])]
<1>2. d \in Nat /\ \A k \in 0 .. m : pos[k] \in Nat
  BY <1>1
<1>3. \A k \in 1 .. m :
        /\ k - 1 \in 0 .. m /\ k \in 0 .. m /\ xs[k] \in Transfer
        /\ After(xs[k], pos[k - 1]) /\ pos[k] = pos[k - 1] + Brought(xs[k])
        /\ Brought(xs[k]) \in Nat
  BY <1>1, BroughtIs
<1>4. \A k \in 0 .. m : d <= pos[k]
  <2> DEFINE S == {k \in 0 .. m : ~(d <= pos[k])}
  <2>1. SUFFICES ASSUME S # {} PROVE FALSE
    OBVIOUS
  <2>2. PICK k \in S : \A j \in S : k <= j
    <3>1. S \subseteq Nat
      OBVIOUS
    <3> HIDE DEF S
    <3> QED BY <2>1, <3>1, LeastNumber
  <2>3. k # 0
    BY <1>1, <1>2, <2>2
  <2>4. k \in 1 .. m /\ k - 1 \in 0 .. m /\ k - 1 \notin S
    BY <2>2, <2>3
  <2>5. d <= pos[k - 1] /\ pos[k] = pos[k - 1] + Brought(xs[k]) /\ Brought(xs[k]) \in Nat
        /\ pos[k - 1] \in Nat /\ pos[k] \in Nat
    BY <1>2, <1>3, <2>4
  <2> QED BY <1>2, <2>2, <2>5
<1>5. \A k \in 1 .. m : Interval(d, pos[k - 1]) \o InFlight(xs[k]) = Interval(d, pos[k])
  <2> TAKE k \in 1 .. m
  <2>1. PICK a \in Nat : a = pos[k - 1]
    BY <1>2, <1>3
  <2>2. PICK b \in Nat : b = pos[k]
    BY <1>2, <1>3
  <2>3. d <= a /\ a <= b /\ b = a + Brought(xs[k])
    BY <1>2, <1>3, <1>4, <2>1, <2>2
  <2>4. InFlight(xs[k]) = Interval(a, b)
    <3>1. xs[k] \in Transfer /\ After(xs[k], a)
      BY <1>3, <2>1
    <3> QED BY <2>3, <3>1, InFlightIs
  <2>5. Interval(d, a) \o Interval(a, b) = Interval(d, b)
    BY <1>2, <2>3, IntervalJoin
  <2> QED BY <2>1, <2>2, <2>4, <2>5
<1>6. pos[0] = d /\ Interval(d, d) = <<>>
  BY <1>1, <1>2, IntervalEmpty
<1>7. g = D(g)
  <2>1. ASSUME NEW k \in 0 .. m PROVE g[k] = D(g)[k]
    <3>1. CASE k = 0
      BY <1>6, <3>1
    <3>2. CASE k # 0
      <4>1. k \in 1 .. m /\ k - 1 \in 0 .. m
        BY <3>2
      <4>2. g[k - 1] = Interval(d, pos[k - 1]) /\ g[k] = Interval(d, pos[k])
        BY <4>1
      <4>3. D(g)[k] = Interval(d, pos[k - 1]) \o InFlight(xs[k])
        BY <3>2, <4>1, <4>2
      <4> QED BY <1>5, <4>1, <4>2, <4>3
    <3> QED BY <3>1, <3>2
  <2> DEFINE h == D(g)
  <2>2. g = [k \in 0 .. m |-> g[k]] /\ h = [k \in 0 .. m |-> h[k]]
    OBVIOUS
  <2>3. \A k \in 0 .. m : g[k] = h[k]
    BY <2>1
  <2> HIDE DEF g, h
  <2>4. g = h
    BY <2>2, <2>3
  <2> QED BY <2>4 DEF h
<1>8. Appended(g, xs, m)
  BY <1>7 DEF Appended
<1>9. ASSUME NEW w, Appended(w, xs, m)
       PROVE  w[m] = Interval(d, top)
  <2>1. \A k \in 0 .. m : w[k] = IF k = 0 THEN <<>> ELSE w[k - 1] \o InFlight(xs[k])
    <3> DEFINE h == [k \in 0 .. m |-> IF k = 0 THEN <<>> ELSE w[k - 1] \o InFlight(xs[k])]
    <3>1. w = h
      BY <1>9 DEF Appended
    <3>2. \A k \in 0 .. m : h[k] = IF k = 0 THEN <<>> ELSE w[k - 1] \o InFlight(xs[k])
      OBVIOUS
    <3> HIDE DEF h
    <3> QED BY <3>1, <3>2
  <2> DEFINE S == {k \in 0 .. m : w[k] # Interval(d, pos[k])}
  <2>2. CASE S = {}
    <3>1. m \in 0 .. m /\ m \notin S
      BY <2>2
    <3> QED BY <1>1, <3>1
  <2>3. CASE S # {}
    <3>1. PICK k \in S : \A j \in S : k <= j
      <4>1. S \subseteq Nat
        OBVIOUS
      <4> HIDE DEF S
      <4> QED BY <2>3, <4>1, LeastNumber
    <3>2. k # 0
      <4>1. 0 \in 0 .. m
        OBVIOUS
      <4>2. w[0] = <<>>
        BY <2>1, <4>1
      <4> QED BY <1>6, <3>1, <4>2
    <3>3. k \in 1 .. m /\ k - 1 \in 0 .. m /\ k - 1 \notin S
      BY <3>1, <3>2
    <3>4. w[k - 1] = Interval(d, pos[k - 1])
      BY <3>3
    <3>5. w[k] = w[k - 1] \o InFlight(xs[k])
      BY <2>1, <3>1, <3>2
    <3> QED BY <1>5, <3>1, <3>3, <3>4, <3>5
  <2> QED BY <2>2, <2>3
<1> HIDE DEF g
<1> QED BY <1>8, <1>9

\* What the invariant says of the bytes that were read.
LEMMA ReadsInOrder == IInv => ReadInOrder
<1> SUFFICES ASSUME IInv PROVE ReadInOrder
  OBVIOUS
<1>1. PICK top \in Nat : top = sent
  BY DEF IInv, Types
<1>2. PICK kept \in Seq(Nat) : kept = Buffered(readbuffer_remaining)
  BY Parts DEF IInv
<1>3. PICK x \in Transfer : x = transfer["in"]
  BY Parts DEF IInv
<1>4. PICK xs \in Seq(Transfer) : xs = stream.transfers
  BY Parts DEF IInv
<1>5. PICK gathered \in Seq(Nat) : gathered = tc["in"].buf
  BY Parts DEF IInv
<1>6. received \in Seq(Nat)
  BY DEF IInv, Types
<1>7. Flow(received, dropped["in"], gathered, kept, x, xs, top)
  BY <1>1, <1>2, <1>3, <1>4, <1>5 DEF IInv, Read
<1>8. PICK a, b, c, d \in Nat : Ends(a, b, c, d, received, dropped["in"], gathered, kept, x, xs, top)
  BY <1>3, <1>6, <1>7, FlowEnds
<1>9. /\ a <= b /\ b <= c /\ c <= d /\ d <= top /\ d = c + Brought(x)
      /\ Rising(received, a) /\ (~dropped["in"] => received = Interval(0, a))
      /\ gathered = Interval(a, b) /\ kept = Interval(b, c) /\ After(x, c) /\ Chains(xs, d, top)
  BY <1>8 DEF Ends
<1>10. Increasing(received) /\ \A k \in DOMAIN received : received[k] \in 1 .. sent
  <2>1. a <= top
    BY <1>9
  <2>2. Rising(received, top)
    BY <1>9, <2>1, RisingMore
  <2> QED BY <1>1, <2>2 DEF Rising
<1>11. ASSUME ~dropped["in"]
       PROVE  received \o gathered \o kept \o InFlight(x) \o Streamed = Interval(0, top)
  <2>1. received = Interval(0, a)
    BY <1>9, <1>11
  <2>2. InFlight(x) = Interval(c, d)
    BY <1>9, InFlightIs
  <2>3. PICK m \in Nat : m = Len(xs)
    OBVIOUS
  <2>4. /\ \E f : Appended(f, xs, m)
        /\ \A f : Appended(f, xs, m) => f[m] = Interval(d, top)
    BY <1>9, <2>3, StreamedIs
  <2>5. Appended(StreamedUpTo, xs, m)
    <3>1. StreamedUpTo = CHOOSE f : Appended(f, xs, m)
      BY <1>4, <2>3 DEF StreamedUpTo, Appended
    <3> QED BY <2>4, <3>1
  <2>6. Streamed = Interval(d, top)
    <3>1. StreamedUpTo[m] = Interval(d, top)
      BY <2>4, <2>5
    <3> QED BY <1>4, <2>3, <3>1 DEF Streamed
  <2>7. 0 \in Nat /\ 0 <= a /\ 0 <= b /\ 0 <= c /\ 0 <= d
    OBVIOUS
  <2>8. PICK z \in Nat : z = 0
    OBVIOUS
  <2>9. z <= a /\ z <= b /\ z <= c /\ z <= d
    BY <2>8
  <2>10. Interval(z, a) \o Interval(a, b) = Interval(z, b)
    BY <1>9, <2>9, IntervalJoin
  <2>11. Interval(z, b) \o Interval(b, c) = Interval(z, c)
    BY <1>9, <2>9, IntervalJoin
  <2>12. Interval(z, c) \o Interval(c, d) = Interval(z, d)
    BY <1>9, <2>9, IntervalJoin
  <2>13. Interval(z, d) \o Interval(d, top) = Interval(z, top)
    BY <1>9, <2>9, IntervalJoin
  <2> QED BY <1>9, <2>1, <2>2, <2>6, <2>8, <2>10, <2>11, <2>12, <2>13
<1> QED BY <1>1, <1>2, <1>3, <1>5, <1>10, <1>11 DEF ReadInOrder

\* And of those that were written.
LEMMA WritesInOrder == IInv => WrittenInOrder
<1> SUFFICES ASSUME IInv PROVE WrittenInOrder
  OBVIOUS
<1>1. Rising(device_got, Arrived) /\ (~dropped["out"] => device_got = Interval(0, Arrived))
  BY WriteNumbers
<1> QED BY <1>1 DEF WrittenInOrder, Rising, Arrived

-----------------------------------------------------------------------------
\* The invariant holds in every state of the data calls and of the stream, with
\* whatever cancellations, errors and losses of the device, until a wait that fails
\* makes the library free a transfer in flight.
THEOREM Invariance == Spec => [](NoneFreedActive => IInv)
<1>1. Init => (NoneFreedActive => IInv)
  BY Initially
<1>2. (NoneFreedActive => IInv) /\ [Next]_vars => (NoneFreedActive => IInv)'
  BY NextKeeps
<1> QED BY <1>1, <1>2, PTL DEF Spec

\* Until a transfer is freed in flight,
\* a program reads the payload in the order in which the device sent it, nothing
\* twice and no status byte, and as long as no call of ftdi_read_data failed or
\* was cancelled and no stream is over, what it has not got yet is still in its
\* call, in the read buffer or in a transfer.
THEOREM ReadingInOrder == Spec => []ReadInOrder
<1>1. (NoneFreedActive => IInv) => ReadInOrder
  BY ReadsInOrder DEF ReadInOrder
<1> QED BY <1>1, Invariance, PTL

\* Until a transfer is freed in flight,
\* the device gets what the program wrote in the order of its buffers, nothing
\* twice, and without a gap as long as no call of ftdi_write_data failed or was
\* cancelled.
THEOREM WritingInOrder == Spec => []WrittenInOrder
<1>1. (NoneFreedActive => IInv) => WrittenInOrder
  BY WritesInOrder DEF WrittenInOrder
<1> QED BY <1>1, Invariance, PTL

=============================================================================
