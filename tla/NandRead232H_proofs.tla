-------------------------- MODULE NandRead232H_proofs --------------------------
(***************************************************************************)
(* What holds of every run of nandread_FTDI232H, for every chip of its     *)
(* table, every command line and file, however often it is interrupted and *)
(* whatever USB calls fail: what each theorem says after one has failed,   *)
(* and after a wait that ended before the chip was ready, it says itself.  *)
(*                                                                         *)
(* The invariants it proves are those of NandRead232H_inv.                 *)
(***************************************************************************)
EXTENDS NandRead232H_inv, SequenceTheorems, TLAPS

(***************************************************************************)
(* The shape of sequences of moves.                                        *)
(***************************************************************************)
LEMMA TailOf ==
  ASSUME NEW s, IsSeq(s), s # <<>>
  PROVE  /\ Len(s) \in Nat /\ 1 <= Len(s) /\ Head(s) = s[1]
         /\ IsSeq(Tail(s)) /\ Len(Tail(s)) = Len(s) - 1
         /\ \A i \in 1 .. Len(s) - 1 : Tail(s)[i] = s[i + 1]
<1>1. PICK S : s \in Seq(S)
  BY DEF IsSeq
<1>2. Tail(s) \in Seq(S)
  BY <1>1
<1> QED BY <1>1, <1>2 DEF IsSeq

LEMMA LengthOf ==
  ASSUME NEW s, IsSeq(s)
  PROVE  Len(s) \in Nat /\ (s = <<>> <=> Len(s) = 0)
<1>1. PICK S : s \in Seq(S)
  BY DEF IsSeq
<1> QED BY <1>1, EmptySeq

LEMMA JoinOf ==
  ASSUME NEW s, NEW t, IsSeq(s), IsSeq(t)
  PROVE  /\ IsSeq(s \o t)
         /\ Len(s) \in Nat /\ Len(t) \in Nat /\ Len(s \o t) = Len(s) + Len(t)
         /\ \A i \in 1 .. Len(s) : (s \o t)[i] = s[i]
         /\ \A i \in 1 .. Len(t) : (s \o t)[Len(s) + i] = t[i]
<1>1. PICK S : s \in Seq(S)
  BY DEF IsSeq
<1>2. PICK T : t \in Seq(T)
  BY DEF IsSeq
<1>3. s \in Seq(S \cup T) /\ t \in Seq(S \cup T)
  BY <1>1, <1>2
<1>4. s \o t \in Seq(S \cup T)
  BY <1>3
<1>5. Len(s \o t) = Len(s) + Len(t)
  BY <1>3
<1> QED BY <1>3, <1>4, <1>5 DEF IsSeq

LEMMA Added ==
  ASSUME NEW s, NEW x, IsSeq(s)
  PROVE  IsSeq(Append(s, x))
<1>1. PICK S : s \in Seq(S)
  BY DEF IsSeq
<1>2. s \in Seq(S \cup {x})
  BY <1>1
<1>3. Append(s, x) \in Seq(S \cup {x})
  BY <1>2
<1> QED BY <1>3 DEF IsSeq

LEMMA AnyFunction ==
  ASSUME NEW f, NEW n \in Nat, f = [i \in 1 .. n |-> f[i]]
  PROVE  IsSeq(f) /\ Len(f) = n
<1> DEFINE S == {f[i] : i \in 1 .. n}
<1>1. f \in [1 .. n -> S]
  OBVIOUS
<1>2. f \in Seq(S) /\ Len(f) = n
  BY <1>1
<1> QED BY <1>2 DEF IsSeq

\* A triple, twice and n times.
LEMMA ConcatOf ==
  ASSUME NEW ss, IsSeq(ss)
  PROVE  /\ IsSeq(Concat(ss)) /\ Len(Concat(ss)) = 3 * Len(ss) /\ Len(ss) \in Nat
         /\ \A i \in 1 .. 3 * Len(ss) :
              \E j \in 1 .. Len(ss), k \in 1 .. 3 :
                i = 3 * (j - 1) + k /\ Concat(ss)[i] = ss[j][k]
<1> DEFINE f == Concat(ss)
<1>1. Len(ss) \in Nat
  BY LengthOf
<1>2. f = [i \in 1 .. 3 * Len(ss) |-> ss[(i + 2) \div 3][1 + ((i + 2) % 3)]]
  BY DEF Concat
<1> HIDE DEF f
<1>3. f = [i \in 1 .. 3 * Len(ss) |-> f[i]]
  BY <1>2
<1>4. IsSeq(f) /\ Len(f) = 3 * Len(ss)
  BY <1>1, <1>3, AnyFunction
<1>5. ASSUME NEW i \in 1 .. 3 * Len(ss)
      PROVE  \E j \in 1 .. Len(ss), k \in 1 .. 3 : i = 3 * (j - 1) + k /\ f[i] = ss[j][k]
  <2>1. /\ (i + 2) \div 3 \in 1 .. Len(ss) /\ 1 + ((i + 2) % 3) \in 1 .. 3
        /\ i = 3 * ((i + 2) \div 3 - 1) + (1 + ((i + 2) % 3))
    BY <1>1
  <2>2. f[i] = ss[(i + 2) \div 3][1 + ((i + 2) % 3)]
    BY <1>2
  <2> QED BY <2>1, <2>2
<1> QED BY <1>1, <1>4, <1>5 DEF f

\* What is between the moves of two sequences, after they are put together.
LEMMA JoinShaped ==
  ASSUME NEW s, NEW t, Shaped(s), Shaped(t), Opens(t)
  PROVE  Shaped(s \o t)
<1> DEFINE u == s \o t
<1>1. IsSeq(s) /\ IsSeq(t)
  BY DEF Shaped
<1>2. /\ IsSeq(u) /\ Len(s) \in Nat /\ Len(t) \in Nat /\ Len(u) = Len(s) + Len(t)
      /\ \A k \in 1 .. Len(s) : u[k] = s[k]
      /\ \A k \in 1 .. Len(t) : u[Len(s) + k] = t[k]
  BY <1>1, JoinOf
<1> HIDE DEF u
<1>3. \A i \in 1 .. Len(u) :
        \/ i \in 1 .. Len(s) /\ u[i] = s[i]
        \/ i > Len(s) /\ i - Len(s) \in 1 .. Len(t) /\ u[i] = t[i - Len(s)]
  <2> TAKE i \in 1 .. Len(u)
  <2>1. CASE i <= Len(s)
    BY <1>2, <2>1
  <2>2. CASE i > Len(s)
    <3>1. i - Len(s) \in 1 .. Len(t) /\ i = Len(s) + (i - Len(s))
      BY <1>2, <2>2
    <3> QED BY <1>2, <2>2, <3>1
  <2> QED BY <1>2, <2>1, <2>2
<1>4. \A i \in 1 .. Len(u) : Tame(u[i])
  BY <1>3 DEF Shaped
<1>5. ASSUME NEW i \in 1 .. Len(u) - 1
      PROVE  Follows(u[i], u[i + 1])
  <2>1. CASE i + 1 <= Len(s)
    <3>1. i \in 1 .. Len(s) - 1 /\ i \in 1 .. Len(s) /\ i + 1 \in 1 .. Len(s)
      BY <1>2, <2>1
    <3> QED BY <1>2, <3>1 DEF Shaped
  <2>2. CASE i = Len(s)
    <3>1. i \in 1 .. Len(s) /\ 1 \in 1 .. Len(t) /\ i + 1 = Len(s) + 1
      BY <1>2, <2>2
    <3>2. u[i] = s[Len(s)] /\ u[i + 1] = t[1]
      BY <1>2, <2>2, <3>1
    <3>3. s # <<>> /\ t # <<>>
      BY <1>1, <3>1, LengthOf
    <3> QED BY <3>2, <3>3 DEF Shaped, Opens, Follows, Reading
  <2>3. CASE i > Len(s)
    <3>1. /\ i - Len(s) \in 1 .. Len(t) - 1 /\ i - Len(s) \in 1 .. Len(t)
          /\ i - Len(s) + 1 \in 1 .. Len(t)
          /\ i = Len(s) + (i - Len(s)) /\ i + 1 = Len(s) + (i - Len(s) + 1)
      BY <1>2, <2>3
    <3>2. u[i] = t[i - Len(s)] /\ u[i + 1] = t[i - Len(s) + 1]
      BY <1>2, <3>1
    <3> QED BY <3>1, <3>2 DEF Shaped
  <2> QED BY <1>2, <2>1, <2>2, <2>3
<1>6. ASSUME u # <<>>
      PROVE  ~ReLow(u[Len(u)]) /\ ~Sampled(u[Len(u)])
  <2>1. CASE t = <<>>
    <3>1. Len(u) = Len(s) /\ Len(s) \in 1 .. Len(s) /\ s # <<>>
      BY <1>1, <1>2, <1>6, <2>1, LengthOf
    <3> QED BY <1>2, <3>1 DEF Shaped
  <2>2. CASE t # <<>>
    <3>1. Len(t) \in 1 .. Len(t)
      BY <1>1, <1>2, <2>2, LengthOf
    <3>2. u[Len(u)] = t[Len(t)]
      BY <1>2, <3>1
    <3> QED BY <2>2, <3>2 DEF Shaped
  <2> QED BY <2>1, <2>2
<1> QED BY <1>2, <1>4, <1>5, <1>6 DEF Shaped, u

\* The rest of a sequence keeps its shape.
LEMMA RestOf ==
  ASSUME NEW s, Shaped(s), s # <<>>
  PROVE  /\ Shaped(Tail(s)) /\ Tame(Head(s))
         /\ Tail(s) # <<>> => Follows(Head(s), Head(Tail(s)))
         /\ ReLow(Head(s)) \/ Sampled(Head(s)) => Tail(s) # <<>>
<1> DEFINE u == Tail(s)
<1>1. IsSeq(s)
  BY DEF Shaped
<1>2. /\ Len(s) \in Nat /\ 1 <= Len(s) /\ Head(s) = s[1] /\ IsSeq(u) /\ Len(u) = Len(s) - 1
      /\ \A i \in 1 .. Len(s) - 1 : u[i] = s[i + 1]
  BY <1>1, TailOf
<1>3. Len(u) \in Nat /\ (u # <<>> => Head(u) = u[1] /\ 1 <= Len(u))
  BY <1>2, LengthOf, TailOf
<1>4. u = <<>> <=> Len(s) = 1
  BY <1>2, LengthOf
<1> HIDE DEF u
<1>5. \A i \in 1 .. Len(u) : i \in 1 .. Len(s) /\ i + 1 \in 1 .. Len(s) /\ u[i] = s[i + 1]
  BY <1>2
<1>6. \A i \in 1 .. Len(u) : Tame(u[i])
  BY <1>5 DEF Shaped
<1>7. \A i \in 1 .. Len(u) - 1 : Follows(u[i], u[i + 1])
  <2> TAKE i \in 1 .. Len(u) - 1
  <2>1. i \in 1 .. Len(u) /\ i + 1 \in 1 .. Len(u) /\ i + 1 \in 1 .. Len(s) - 1
    BY <1>2, <1>3
  <2>2. u[i] = s[i + 1] /\ u[i + 1] = s[i + 1 + 1]
    BY <1>5, <2>1
  <2> QED BY <2>1, <2>2 DEF Shaped
<1>8. u # <<>> => ~ReLow(u[Len(u)]) /\ ~Sampled(u[Len(u)])
  <2>1. u # <<>> => u[Len(u)] = s[Len(s)]
    BY <1>2, <1>3
  <2> QED BY <2>1, LengthOf, <1>1, <1>2 DEF Shaped
<1>13. Shaped(u)
  BY <1>2, <1>6, <1>7, <1>8 DEF Shaped
<1>14. 1 \in 1 .. Len(s)
  BY <1>2
<1>15. Tame(Head(s))
  BY <1>2, <1>14 DEF Shaped
<1>17. u # <<>> => Follows(Head(s), Head(u))
  <2>1. u # <<>> => 1 \in 1 .. Len(s) - 1 /\ 1 \in 1 .. Len(u) /\ 1 + 1 = 2
    BY <1>2, <1>3
  <2>2. u # <<>> => Head(u) = s[1 + 1]
    BY <1>3, <1>5, <2>1
  <2>3. u # <<>> => Follows(s[1], s[1 + 1])
    BY <2>1 DEF Shaped
  <2> QED BY <1>2, <2>2, <2>3
<1>18. ReLow(Head(s)) \/ Sampled(Head(s)) => u # <<>>
  <2>1. u = <<>> => Head(s) = s[Len(s)]
    BY <1>2, <1>4
  <2> QED BY <2>1 DEF Shaped
<1> QED BY <1>13, <1>15, <1>17, <1>18 DEF u

-----------------------------------------------------------------------------
(***************************************************************************)
(* The functions and operations have that shape.                           *)
(***************************************************************************)
LEMMA PlainJoin ==
  ASSUME NEW s, NEW t, AllPlain(s), AllPlain(t)
  PROVE  AllPlain(s \o t)
<1>1. IsSeq(s) /\ IsSeq(t)
  BY DEF AllPlain
<1>2. /\ IsSeq(s \o t) /\ Len(s) \in Nat /\ Len(t) \in Nat /\ Len(s \o t) = Len(s) + Len(t)
      /\ \A k \in 1 .. Len(s) : (s \o t)[k] = s[k]
      /\ \A k \in 1 .. Len(t) : (s \o t)[Len(s) + k] = t[k]
  BY <1>1, JoinOf
<1>3. ASSUME NEW i \in 1 .. Len(s \o t)
      PROVE  Plain((s \o t)[i])
  <2>1. CASE i <= Len(s)
    <3>1. i \in 1 .. Len(s)
      BY <1>2, <2>1
    <3> QED BY <1>2, <3>1 DEF AllPlain
  <2>2. CASE i > Len(s)
    <3>1. i - Len(s) \in 1 .. Len(t) /\ i = Len(s) + (i - Len(s))
      BY <1>2, <2>2
    <3>2. (s \o t)[i] = t[i - Len(s)]
      BY <1>2, <3>1
    <3> QED BY <3>1, <3>2 DEF AllPlain
  <2> QED BY <1>2, <2>1, <2>2
<1> QED BY <1>2, <1>3 DEF AllPlain

\* Plain moves are shaped, whatever their order.
LEMMA PlainShaped ==
  ASSUME NEW s, AllPlain(s)
  PROVE  Shaped(s) /\ Opens(s)
<1>1. IsSeq(s) /\ \A i \in 1 .. Len(s) : Plain(s[i])
  BY DEF AllPlain
<1>2. Len(s) \in Nat /\ (s # <<>> => 1 \in 1 .. Len(s) /\ Len(s) \in 1 .. Len(s))
  BY <1>1, LengthOf
<1>3. \A i \in 1 .. Len(s) - 1 : Follows(s[i], s[i + 1])
  <2> TAKE i \in 1 .. Len(s) - 1
  <2>1. i \in 1 .. Len(s) /\ i + 1 \in 1 .. Len(s)
    BY <1>2
  <2>2. Plain(s[i]) /\ Plain(s[i + 1])
    BY <1>1, <2>1
  <2> QED BY <2>2 DEF Plain, Follows, Reading
<1> QED BY <1>1, <1>2, <1>3 DEF Shaped, Opens, Plain, Reading

\* Bytes clocked into the chip.
LEMMA StrobePlain ==
  ASSUME NEW b
  PROVE  AllPlain(Strobe(b)) /\ Len(Strobe(b)) = 3
         /\ Strobe(b)[1] = Pin("WE", FALSE) /\ Strobe(b)[2] = Out(b)
         /\ Strobe(b)[3] = Pin("WE", TRUE)
<1>1. Strobe(b) \in Seq({Pin("WE", FALSE), Out(b), Pin("WE", TRUE)})
  BY DEF Strobe
<1>2. /\ Len(Strobe(b)) = 3
      /\ Strobe(b)[1] = Pin("WE", FALSE) /\ Strobe(b)[2] = Out(b) /\ Strobe(b)[3] = Pin("WE", TRUE)
  BY DEF Strobe
<1>3. Plain(Pin("WE", FALSE)) /\ Plain(Out(b)) /\ Plain(Pin("WE", TRUE))
  BY DEF Plain, Tame, ReLow, Reading, ReHigh, Sampled, Low, High, Pin, Out
<1>4. \A i \in 1 .. 3 : i = 1 \/ i = 2 \/ i = 3
  OBVIOUS
<1>5. \A i \in 1 .. Len(Strobe(b)) : Plain(Strobe(b)[i])
  BY <1>2, <1>3, <1>4
<1>6. IsSeq(Strobe(b))
  BY <1>1 DEF IsSeq
<1> QED BY <1>2, <1>5, <1>6 DEF AllPlain

LEMMA StrobesPlain ==
  ASSUME NEW bs, IsSeq(bs)
  PROVE  AllPlain(Strobes(bs))
<1> DEFINE ss == [i \in DOMAIN bs |-> Strobe(bs[i])]
<1>1. Len(bs) \in Nat /\ DOMAIN bs = 1 .. Len(bs)
  <2>1. PICK S : bs \in Seq(S)
    BY DEF IsSeq
  <2> QED BY <2>1
<1>2. ss = [i \in 1 .. Len(bs) |-> Strobe(bs[i])]
  BY <1>1
<1> HIDE DEF ss
<1>3. ss = [i \in 1 .. Len(bs) |-> ss[i]]
  BY <1>2
<1>4. IsSeq(ss) /\ Len(ss) = Len(bs)
  BY <1>1, <1>3, AnyFunction
<1>5. /\ IsSeq(Concat(ss)) /\ Len(Concat(ss)) = 3 * Len(ss)
      /\ \A i \in 1 .. 3 * Len(ss) :
           \E j \in 1 .. Len(ss), k \in 1 .. 3 :
             i = 3 * (j - 1) + k /\ Concat(ss)[i] = ss[j][k]
  BY <1>4, ConcatOf
<1>6. ASSUME NEW i \in 1 .. Len(Concat(ss))
      PROVE  Plain(Concat(ss)[i])
  <2>1. PICK j \in 1 .. Len(ss), k \in 1 .. 3 : Concat(ss)[i] = ss[j][k]
    BY <1>5
  <2>2. ss[j] = Strobe(bs[j])
    BY <1>2, <1>4, <2>1
  <2>3. k = 1 \/ k = 2 \/ k = 3
    BY <2>1
  <2>4. \A m \in 1 .. 3 : Plain(Strobe(bs[j])[m])
    BY StrobePlain DEF AllPlain
  <2> QED BY <2>1, <2>2, <2>4
<1> QED BY <1>5, <1>6 DEF AllPlain, Strobes, ss

\* A single move, and short sequences of them.
LEMMA OneMove ==
  ASSUME NEW m
  PROVE  /\ IsSeq(<<m>>) /\ Len(<<m>>) = 1 /\ <<m>>[1] = m
         /\ Plain(m) => AllPlain(<<m>>)
<1>1. <<m>> \in Seq({m}) /\ Len(<<m>>) = 1 /\ <<m>>[1] = m
  OBVIOUS
<1>2. IsSeq(<<m>>)
  BY <1>1 DEF IsSeq
<1>3. \A i \in 1 .. Len(<<m>>) : <<m>>[i] = m
  BY <1>1
<1> QED BY <1>1, <1>2, <1>3 DEF AllPlain

LEMMA NoMove == IsSeq(<<>>) /\ AllPlain(<<>>)
<1>1. <<>> \in Seq({}) /\ Len(<<>>) = 0
  OBVIOUS
<1>2. IsSeq(<<>>)
  BY <1>1 DEF IsSeq
<1> QED BY <1>1, <1>2 DEF AllPlain

LEMMA PinPlain ==
  ASSUME NEW p \in {"CLE", "ALE", "WE"}, NEW v \in BOOLEAN
  PROVE  Plain(Pin(p, v)) /\ AllPlain(<<Pin(p, v)>>)
<1>1. Plain(Pin(p, v))
  BY DEF Plain, Tame, ReLow, Reading, ReHigh, Sampled, Low, High, Pin
<1> QED BY <1>1, OneMove

LEMMA AddressesPlain ==
  ASSUME NEW a
  PROVE  AllPlain(setcolumns(a)) /\ AllPlain(setrows(a))
<1>1. AllPlain(<<Pin("ALE", TRUE)>>) /\ AllPlain(<<Pin("ALE", FALSE)>>)
  BY PinPlain
<1>2. \A x, y : IsSeq(<<x, y>>)
  <2> TAKE x, y
  <2>1. <<x, y>> \in Seq({x, y})
    OBVIOUS
  <2> QED BY <2>1 DEF IsSeq
<1>3. IsSeq(RowBytes(a))
  <2>1. \A x, y, z : IsSeq(<<x, y, z>>) /\ IsSeq(SubSeq(<<x, y, z>>, 1, 2))
    <3> TAKE x, y, z
    <3>1. <<x, y, z>> \in Seq({x, y, z}) /\ Len(<<x, y, z>>) = 3
      OBVIOUS
    <3>2. SubSeq(<<x, y, z>>, 1, 2) \in Seq({x, y, z})
      BY <3>1
    <3> QED BY <3>1, <3>2 DEF IsSeq
  <2> DEFINE r == RowStep * (a \div ColSpan)
             z == (r \div 256^2) % (IF Nand.type = "S34" THEN 4 ELSE 16)
             b == <<r % 256, (r \div 256) % 256, z>>
  <2>2. IsSeq(b) /\ IsSeq(SubSeq(b, 1, 2))
    <3> HIDE DEF r, z
    <3> QED BY <2>1
  <2>3. RowBytes(a) = IF Nand.type = "MT29" THEN SubSeq(b, 1, 2) ELSE b
    BY DEF RowBytes
  <2> HIDE DEF b
  <2> QED BY <2>2, <2>3
<1> DEFINE c == <<(a % ColSpan) % 256, (a % ColSpan) \div 256>>
<1>4. IsSeq(c)
  BY <1>2
<1>5. setcolumns(a) = <<Pin("ALE", TRUE)>> \o Strobes(c)
  BY DEF setcolumns
<1>6. setrows(a) = <<Pin("ALE", TRUE)>> \o Strobes(RowBytes(a)) \o <<Pin("ALE", FALSE)>>
  BY DEF setrows
<1> HIDE DEF c
<1>7. AllPlain(Strobes(c)) /\ AllPlain(Strobes(RowBytes(a)))
  BY <1>3, <1>4, StrobesPlain
<1>8. AllPlain(<<Pin("ALE", TRUE)>> \o Strobes(RowBytes(a)))
  BY <1>1, <1>7, PlainJoin
<1> QED BY <1>1, <1>5, <1>6, <1>7, <1>8, PlainJoin

LEMMA CommandPlain ==
  ASSUME NEW c
  PROVE  AllPlain(latch_command(c))
<1> DEFINE h == <<Pin("CLE", TRUE)>> \o Strobe(c[1])
           k == h \o <<Pin("CLE", FALSE)>>
           address == <<Pin("ALE", TRUE)>> \o Strobe(c[2]) \o <<Pin("ALE", FALSE)>>
           r == IF Len(c) = 1 THEN <<>> ELSE address
<1>1. latch_command(c) = k \o r
  BY DEF latch_command
<1>2. /\ AllPlain(<<Pin("CLE", TRUE)>>) /\ AllPlain(<<Pin("CLE", FALSE)>>)
      /\ AllPlain(<<Pin("ALE", TRUE)>>) /\ AllPlain(<<Pin("ALE", FALSE)>>)
      /\ AllPlain(Strobe(c[1])) /\ AllPlain(Strobe(c[2]))
  BY PinPlain, StrobePlain
<1>3. AllPlain(h) /\ AllPlain(<<Pin("ALE", TRUE)>> \o Strobe(c[2]))
  BY <1>2, PlainJoin
<1>4. AllPlain(k) /\ AllPlain(address)
  BY <1>2, <1>3, PlainJoin
<1> HIDE DEF k, address
<1>5. AllPlain(r)
  BY <1>4, NoMove
<1> QED BY <1>1, <1>4, <1>5, PlainJoin

\* read_data: between turning the bus round and back, a byte at each fall of nRE.
LEMMA ReadShaped ==
  ASSUME NEW n \in Nat
  PROVE  Shaped(read_data(n)) /\ Opens(read_data(n))
<1> DEFINE bytes == [i \in 1 .. n |-> ReadByte]
           t == Concat(bytes)
           h == <<Input>> \o t
           s == read_data(n)
<1>1. IsSeq(bytes) /\ Len(bytes) = n
  <2>1. bytes = [i \in 1 .. n |-> bytes[i]]
    OBVIOUS
  <2> HIDE DEF bytes
  <2> QED BY <2>1, AnyFunction
<1>2. \A j \in 1 .. n : bytes[j] = ReadByte
  OBVIOUS
<1> HIDE DEF bytes
<1>3. /\ IsSeq(t) /\ Len(t) = 3 * n
      /\ \A i \in 1 .. 3 * n : \E j \in 1 .. n, k \in 1 .. 3 :
           i = 3 * (j - 1) + k /\ t[i] = bytes[j][k]
  BY <1>1, ConcatOf
<1> HIDE DEF t
<1> DEFINE fall == Pin("RE", FALSE)
           rise == Pin("RE", TRUE)
<1>4. ReadByte[1] = fall /\ ReadByte[2] = Sample /\ ReadByte[3] = rise
  BY DEF ReadByte
<1>5. /\ Input.do = "in" /\ Output.do = "out" /\ ReLow(fall) /\ Sampled(Sample)
       /\ ReHigh(rise)
       /\ ~ReLow(Input) /\ ~Sampled(Input) /\ ~ReHigh(Input)
       /\ ~ReLow(Output) /\ ~Sampled(Output) /\ ~ReHigh(Output)
       /\ ~Sampled(fall) /\ ~ReHigh(fall)
       /\ ~ReLow(Sample) /\ ~ReHigh(Sample)
       /\ ~ReLow(rise) /\ ~Sampled(rise)
  BY DEF Input, Output, ReLow, ReHigh, Sampled, Low, High, Pin, Sample
<1>6. \A x \in {Input, Output, fall, Sample, rise} : Tame(x)
  BY DEF Tame, Input, Output, Sample, Pin
<1> HIDE DEF fall, rise
<1>7. \A i \in 1 .. 3 * n :
        /\ i % 3 = 1 => t[i] = fall
        /\ i % 3 = 2 => t[i] = Sample
        /\ i % 3 = 0 => t[i] = rise
  <2> TAKE i \in 1 .. 3 * n
  <2>1. PICK j \in 1 .. n, k \in 1 .. 3 : i = 3 * (j - 1) + k /\ t[i] = bytes[j][k]
    BY <1>3
  <2>2. t[i] = ReadByte[k]
    BY <1>2, <2>1
  <2>3. k = 1 \/ k = 2 \/ k = 3
    BY <2>1
  <2>4. j \in Int /\ i = 3 * (j - 1) + k
    BY <2>1
  <2>5. (k = 1 => i % 3 = 1) /\ (k = 2 => i % 3 = 2) /\ (k = 3 => i % 3 = 0)
    BY <2>4
  <2>6. CASE k = 1
    <3>1. t[i] = fall /\ i % 3 = 1
      BY <1>4, <2>2, <2>5, <2>6
    <3> QED BY <3>1
  <2>7. CASE k = 2
    <3>1. t[i] = Sample /\ i % 3 = 2
      BY <1>4, <2>2, <2>5, <2>7
    <3> QED BY <3>1
  <2>8. CASE k = 3
    <3>1. t[i] = rise /\ i % 3 = 0
      BY <1>4, <2>2, <2>5, <2>8
    <3> QED BY <3>1
  <2> QED BY <2>3, <2>6, <2>7, <2>8
<1>8. /\ IsSeq(h) /\ Len(h) = 3 * n + 1 /\ h[1] = Input
      /\ \A i \in 1 .. 3 * n : h[i + 1] = t[i]
  <2> DEFINE m == <<Input>>
  <2>1. IsSeq(m) /\ Len(m) = 1 /\ m[1] = Input
    BY OneMove
  <2>2. h = m \o t
    OBVIOUS
  <2> HIDE DEF m, h
  <2>3. /\ IsSeq(m \o t) /\ Len(m \o t) = Len(m) + Len(t)
        /\ \A i \in 1 .. Len(m) : (m \o t)[i] = m[i]
        /\ \A i \in 1 .. Len(t) : (m \o t)[Len(m) + i] = t[i]
    <3>1. IsSeq(m) /\ IsSeq(t)
      BY <1>3, <2>1
    <3> QED BY <3>1, JoinOf
  <2>4. 1 \in 1 .. 1 /\ \A i \in 1 .. 3 * n : 1 + i = i + 1
    OBVIOUS
  <2> QED BY <1>3, <2>1, <2>2, <2>3, <2>4
<1>9. s = h \o <<Output>>
  BY DEF read_data, t, bytes
<1> HIDE DEF h, s
<1>10. /\ IsSeq(s) /\ Len(s) = 3 * n + 2 /\ s[3 * n + 2] = Output
      /\ \A i \in 1 .. 3 * n + 1 : s[i] = h[i]
  <2> DEFINE m == <<Output>>
  <2>1. IsSeq(m) /\ Len(m) = 1 /\ m[1] = Output
    BY OneMove
  <2>2. s = h \o m
    BY <1>9
  <2> HIDE DEF m
  <2>3. /\ IsSeq(h \o m) /\ Len(h \o m) = Len(h) + Len(m)
        /\ \A i \in 1 .. Len(h) : (h \o m)[i] = h[i]
        /\ \A i \in 1 .. Len(m) : (h \o m)[Len(h) + i] = m[i]
    <3>1. IsSeq(m) /\ IsSeq(h)
      BY <1>8, <2>1
    <3> QED BY <3>1, JoinOf
  <2>4. 1 \in 1 .. 1 /\ 3 * n + 1 + 1 = 3 * n + 2
    OBVIOUS
  <2> QED BY <1>8, <2>1, <2>2, <2>3, <2>4
<1>11. s[1] = Input
  BY <1>8, <1>10
<1>12. \A i \in 1 .. Len(s) :
        \/ i = 1 /\ s[i] = Input
        \/ i = 3 * n + 2 /\ s[i] = Output
        \/ i \in 2 .. 3 * n + 1 /\ i % 3 = 2 /\ s[i] = fall
        \/ i \in 2 .. 3 * n + 1 /\ i % 3 = 0 /\ s[i] = Sample
        \/ i \in 2 .. 3 * n + 1 /\ i % 3 = 1 /\ s[i] = rise
  <2> TAKE i \in 1 .. Len(s)
  <2>1. CASE i \in 2 .. 3 * n + 1
    <3>1. i - 1 \in 1 .. 3 * n /\ i = i - 1 + 1 /\ i \in 1 .. 3 * n + 1
      BY <2>1
    <3>2. s[i] = t[i - 1]
      BY <1>8, <1>10, <3>1
    <3>3. \/ i % 3 = 2 /\ (i - 1) % 3 = 1
          \/ i % 3 = 0 /\ (i - 1) % 3 = 2
          \/ i % 3 = 1 /\ (i - 1) % 3 = 0
      BY <2>1
    <3> QED BY <1>7, <2>1, <3>1, <3>2, <3>3
  <2>2. i = 1 \/ i = 3 * n + 2 \/ i \in 2 .. 3 * n + 1
    BY <1>10
  <2> QED BY <1>10, <1>11, <2>1, <2>2
<1>13. ASSUME NEW i \in 1 .. Len(s) - 1
       PROVE  Follows(s[i], s[i + 1])
  <2>1. PICK k \in 1 .. Len(s) : k = i + 1
    BY <1>10
  <2>2. i \in 1 .. Len(s) /\ k # 1 /\ i # 3 * n + 2
    BY <1>10, <2>1
  <2>3. \/ k = 3 * n + 2 /\ s[k] = Output
        \/ k % 3 = 2 /\ s[k] = fall
        \/ k % 3 = 0 /\ s[k] = Sample
        \/ k % 3 = 1 /\ s[k] = rise
    BY <1>12, <2>2
  <2>4. CASE s[i] = Input /\ i = 1
    <3>1. k % 3 = 2
      BY <2>1, <2>4
    <3>2. s[k] = Output \/ s[k] = fall
      BY <2>3, <3>1
    <3> QED BY <1>5, <2>1, <2>4, <3>2 DEF Follows
  <2>5. CASE s[i] = fall /\ i % 3 = 2
    <3>1. k % 3 = 0 /\ k # 3 * n + 2
      BY <2>1, <2>5
    <3>2. s[k] = Sample
      BY <2>3, <3>1
    <3> QED BY <1>5, <2>1, <2>5, <3>2 DEF Follows
  <2>6. CASE s[i] = Sample /\ i % 3 = 0
    <3>1. k % 3 = 1 /\ k # 3 * n + 2
      BY <2>1, <2>6
    <3>2. s[k] = rise
      BY <2>3, <3>1
    <3> QED BY <1>5, <2>1, <2>6, <3>2 DEF Follows
  <2>7. CASE s[i] = rise /\ i % 3 = 1
    <3>1. k % 3 = 2
      BY <2>1, <2>7
    <3>2. s[k] = fall \/ s[k] = Output
      BY <2>3, <3>1
    <3> QED BY <1>5, <2>1, <2>7, <3>2 DEF Follows
  <2> QED BY <1>12, <2>2, <2>4, <2>5, <2>6, <2>7
<1>14. \A i \in 1 .. Len(s) : Tame(s[i])
  BY <1>12, <1>6
<1>15. ~ReLow(s[Len(s)]) /\ ~Sampled(s[Len(s)])
  BY <1>10, <1>5
<1>16. ~ReLow(s[1]) /\ ~Reading(s[1])
  BY <1>11, <1>5 DEF Reading
<1> QED BY <1>10, <1>13, <1>14, <1>15, <1>16 DEF Shaped, Opens, s

\* What a call becomes: a body that opens and closes its own reads.
LEMMA BodyShaped ==
  ASSUME NEW m, Tame(m), m.do = "call"
  PROVE  Shaped(Body(m.fn, m.arg)) /\ Opens(Body(m.fn, m.arg))
<1>1. CASE m.fn = "latch_command"
  <2>1. Body(m.fn, m.arg) = latch_command(m.arg)
    BY <1>1 DEF Body
  <2> QED BY <2>1, CommandPlain, PlainShaped
<1>2. CASE m.fn = "setcolumns"
  <2>1. Body(m.fn, m.arg) = setcolumns(m.arg)
    BY <1>2 DEF Body
  <2> QED BY <2>1, AddressesPlain, PlainShaped
<1>3. CASE m.fn = "setrows"
  <2>1. Body(m.fn, m.arg) = setrows(m.arg)
    BY <1>3 DEF Body
  <2> QED BY <2>1, AddressesPlain, PlainShaped
<1>4. CASE m.fn = "read_data"
  <2>1. Body(m.fn, m.arg) = read_data(m.arg) /\ m.arg \in Nat
    BY <1>4 DEF Body, Tame
  <2> QED BY <2>1, ReadShaped
<1>5. CASE m.fn = "latch_data_out"
  <2>1. Body(m.fn, m.arg) = Strobes(m.arg) /\ IsSeq(m.arg)
    BY <1>5 DEF Body, Tame, latch_data_out
  <2> QED BY <2>1, StrobesPlain, PlainShaped
<1> QED BY <1>1, <1>2, <1>3, <1>4, <1>5 DEF Tame

LEMMA CallsPlain ==
  ASSUME NEW a
  PROVE  /\ Plain(Call("latch_command", <<a>>)) /\ Plain(Call("setcolumns", a))
         /\ Plain(Call("setrows", a)) /\ Plain(WaitRdy) /\ Plain(Input)
         /\ a \in Nat => Plain(Call("read_data", a))
         /\ IsSeq(a) => Plain(Call("latch_data_out", a))
         /\ \A v \in BOOLEAN :
              Plain(Shadow("WP", v)) /\ Plain(Shadow("CE", v)) /\ Plain(Pin("WP", v))
         /\ Plain(Shadow("RE", TRUE))
         /\ Plain(Call("latch_command", <<a, 0>>))
<1> USE DEF Plain, Tame, ReLow, Reading, ReHigh, Sampled, Low, High
<1>1. /\ Plain(Call("latch_command", <<a>>)) /\ Plain(Call("setcolumns", a))
      /\ Plain(Call("setrows", a)) /\ Plain(Call("latch_command", <<a, 0>>))
      /\ a \in Nat => Plain(Call("read_data", a))
      /\ IsSeq(a) => Plain(Call("latch_data_out", a))
  <2>1. Plain(Call("latch_command", <<a>>)) /\ Plain(Call("latch_command", <<a, 0>>))
    BY DEF Call
  <2>2. Plain(Call("setcolumns", a)) /\ Plain(Call("setrows", a))
    BY DEF Call
  <2>3. a \in Nat => Plain(Call("read_data", a))
    BY DEF Call
  <2>4. IsSeq(a) => Plain(Call("latch_data_out", a))
    BY DEF Call
  <2> QED BY <2>1, <2>2, <2>3, <2>4
<1>2. Plain(WaitRdy) /\ Plain(Input)
  BY DEF WaitRdy, Input
<1>3. \A v \in BOOLEAN : Plain(Shadow("WP", v)) /\ Plain(Shadow("CE", v))
  BY DEF Shadow
<1>4. \A v \in BOOLEAN : Plain(Pin("WP", v))
  BY DEF Pin
<1>5. Plain(Shadow("RE", TRUE))
  BY DEF Shadow
<1> HIDE DEF Plain
<1> QED BY <1>1, <1>2, <1>3, <1>4, <1>5

LEMMA TwoPlain ==
  ASSUME NEW x, NEW y, Plain(x), Plain(y)
  PROVE  AllPlain(<<x, y>>)
<1>1. <<x, y>> \in Seq({x, y}) /\ Len(<<x, y>>) = 2 /\ <<x, y>>[1] = x /\ <<x, y>>[2] = y
  OBVIOUS
<1>2. \A i \in 1 .. 2 : i = 1 \/ i = 2
  OBVIOUS
<1> QED BY <1>1, <1>2 DEF AllPlain, IsSeq

LEMMA ThreePlain ==
  ASSUME NEW x, NEW y, NEW z, Plain(x), Plain(y), Plain(z)
  PROVE  AllPlain(<<x, y, z>>)
<1> DEFINE s == <<x, y, z>>
<1>1. s \in Seq({x, y, z}) /\ Len(s) = 3 /\ s[1] = x /\ s[2] = y /\ s[3] = z
  OBVIOUS
<1>2. \A i \in 1 .. 3 : i = 1 \/ i = 2 \/ i = 3
  OBVIOUS
<1> HIDE DEF s
<1>3. AllPlain(s)
  BY <1>1, <1>2 DEF AllPlain, IsSeq
<1> QED BY <1>3 DEF s

LEMMA StatusPlain == AllPlain(ReadStatus)
<1>1. Plain(WaitRdy) /\ Plain(Call("latch_command", <<CMD_READSTATUS>>)) /\ Plain(Call("read_data", 1))
  BY CallsPlain
<1> QED BY <1>1, ThreePlain DEF ReadStatus

LEMMA ErasePlain ==
  ASSUME NEW a
  PROVE  AllPlain(erase_page(a))
<1> DEFINE p == Shadow("WP", TRUE)
           q == Call("latch_command", <<CMD_BLOCKERASE1>>)
           r == Call("setrows", a)
           x == Call("latch_command", <<CMD_BLOCKERASE2>>)
           z == Shadow("WP", FALSE)
           s == <<p, q, r, x>>
<1>1. Plain(p) /\ Plain(q) /\ Plain(r) /\ Plain(x) /\ Plain(z)
  BY CallsPlain
<1>2. erase_page(a) = s \o ReadStatus \o <<z>>
  BY DEF erase_page
<1> HIDE DEF p, q, r, x, z
<1>3. s = <<p, q>> \o <<r, x>>
  OBVIOUS
<1>4. AllPlain(s) /\ AllPlain(<<z>>)
  BY <1>1, <1>3, TwoPlain, PlainJoin, OneMove
<1> HIDE DEF s
<1>5. AllPlain(s \o ReadStatus)
  BY <1>4, StatusPlain, PlainJoin
<1> QED BY <1>2, <1>4, <1>5, PlainJoin

LEMMA ProgramPlain ==
  ASSUME NEW a, NEW d, IsSeq(d)
  PROVE  AllPlain(program_page(a, d))
<1> DEFINE p == Shadow("WP", TRUE)
           q == Call("latch_command", <<CMD_PAGEPROGRAM1>>)
           c == Call("setcolumns", a)
           r == Call("setrows", a)
           o == Call("latch_data_out", d)
           x == Call("latch_command", <<CMD_PAGEPROGRAM2>>)
           z == Shadow("WP", FALSE)
           s == <<p, q, c, r, o, x>>
<1>1. Plain(p) /\ Plain(q) /\ Plain(c) /\ Plain(r) /\ Plain(o) /\ Plain(x) /\ Plain(z)
  BY CallsPlain
<1>2. program_page(a, d) = IF "RE" \notin shadow THEN <<p>> ELSE s \o ReadStatus \o <<z>>
  BY DEF program_page
<1> HIDE DEF p, q, c, r, o, x, z
<1>3. s = <<p, q, c>> \o <<r, o, x>>
  OBVIOUS
<1>4. AllPlain(s) /\ AllPlain(<<z>>) /\ AllPlain(<<p>>)
  BY <1>1, <1>3, ThreePlain, PlainJoin, OneMove
<1> HIDE DEF s
<1>5. AllPlain(s \o ReadStatus)
  BY <1>4, StatusPlain, PlainJoin
<1> QED BY <1>2, <1>4, <1>5, PlainJoin

LEMMA ReadPlain ==
  ASSUME NEW a, NEW n \in Nat
  PROVE  AllPlain(read_memory(a, n))
<1> DEFINE q == Call("latch_command", <<CMD_READ1>>)
           c == Call("setcolumns", a)
           r == Call("setrows", a)
           x == Call("latch_command", <<CMD_READ2>>)
           d == Call("read_data", n)
<1>1. Plain(q) /\ Plain(c) /\ Plain(r) /\ Plain(x) /\ Plain(WaitRdy) /\ Plain(d)
  BY CallsPlain
<1>2. read_memory(a, n) = <<q, c, r, x, WaitRdy, d>>
  BY DEF read_memory
<1> HIDE DEF q, c, r, x, d
<1>3. read_memory(a, n) = <<q, c, r>> \o <<x, WaitRdy, d>>
  BY <1>2
<1> QED BY <1>1, <1>3, ThreePlain, PlainJoin

LEMMA EccPlain ==
  ASSUME NEW enable \in BOOLEAN
  PROVE  AllPlain(set_ecc(enable))
<1> DEFINE x == Call("latch_command", <<CMD_EN_ECC>>)
           y == Pin("ALE", TRUE)
           b == Strobe(144)
           v == <<IF enable THEN 8 ELSE 0, 0, 0, 0>>
           z == Pin("ALE", FALSE)
           w == Call("latch_data_out", v)
<1>1. IsSeq(v)
  <2>1. v \in Seq(Nat)
    OBVIOUS
  <2> QED BY <2>1 DEF IsSeq
<1>2. Plain(x) /\ Plain(y) /\ Plain(z) /\ AllPlain(b)
  BY CallsPlain, PinPlain, StrobePlain
<1>3. Plain(w)
  <2> HIDE DEF v
  <2> QED BY <1>1, CallsPlain
<1>4. set_ecc(enable) = <<x, y>> \o b \o <<z, w>>
  BY DEF set_ecc
<1> HIDE DEF x, y, b, z, w
<1>5. AllPlain(<<x, y>>) /\ AllPlain(<<z, w>>)
  BY <1>2, <1>3, TwoPlain
<1>6. AllPlain(<<x, y>> \o b)
  BY <1>2, <1>5, PlainJoin
<1> QED BY <1>4, <1>5, <1>6, PlainJoin

LEMMA BootPlain ==
  AllPlain(Boot) /\ Len(Boot) >= 5 /\ \A i \in 1 .. 5 : Boot[i] = ResetMoves[i]
<1> DEFINE p == Input
           q == Shadow("RE", TRUE)
           c == Shadow("CE", FALSE)
           r == Pin("WP", FALSE)
           x == Call("latch_command", <<CMD_RESET>>)
           s == <<p, q, c, r, x>>
           e == set_ecc(FALSE)
           y == Call("latch_command", <<CMD_READID, 0>>)
           z == Call("read_data", 5)
<1>1. Plain(p) /\ Plain(q) /\ Plain(c) /\ Plain(r) /\ Plain(x) /\ Plain(y) /\ Plain(z)
  BY CallsPlain
<1>3. Boot = s \o e \o <<y, z>> /\ ResetMoves = s
  BY DEF Boot, ResetMoves
<1>4. AllPlain(e)
  BY EccPlain
<1> HIDE DEF p, q, c, r, x, e, y, z
<1>5. /\ s \in Seq({p, q, c, r, x}) /\ Len(s) = 5
      /\ s[1] = p /\ s[2] = q /\ s[3] = c /\ s[4] = r /\ s[5] = x
  OBVIOUS
<1>6. \A i \in 1 .. 5 : i = 1 \/ i = 2 \/ i = 3 \/ i = 4 \/ i = 5
  OBVIOUS
<1> HIDE DEF s
<1>7. IsSeq(s)
  BY <1>5 DEF IsSeq
<1>8. \A i \in 1 .. Len(s) : Plain(s[i])
  BY <1>1, <1>5, <1>6
<1>9. AllPlain(s) /\ AllPlain(<<y, z>>)
  BY <1>1, <1>7, <1>8, TwoPlain DEF AllPlain
<1>10. AllPlain(s \o e)
  BY <1>4, <1>9, PlainJoin
<1>11. AllPlain(s \o e \o <<y, z>>)
  BY <1>9, <1>10, PlainJoin
<1>12. AllPlain(Boot)
  BY <1>3, <1>11
<1>13. /\ IsSeq(s \o e) /\ Len(s \o e) = Len(s) + Len(e) /\ Len(e) \in Nat
       /\ \A k \in 1 .. Len(s) : (s \o e)[k] = s[k]
  <2>1. IsSeq(s) /\ IsSeq(e)
    BY <1>4, <1>7 DEF AllPlain
  <2> QED BY <2>1, JoinOf
<1> DEFINE h == s \o e
           n == <<y, z>>
<1>14. Boot = h \o n
  BY <1>3
<1>15. IsSeq(h) /\ Len(h) >= 5 /\ \A k \in 1 .. 5 : h[k] = s[k]
  BY <1>5, <1>13
<1>16. IsSeq(n)
  BY <1>9 DEF AllPlain
<1> HIDE DEF h, n
<1>17. /\ Len(h) \in Nat /\ Len(n) \in Nat /\ Len(h \o n) = Len(h) + Len(n)
       /\ \A k \in 1 .. Len(h) : (h \o n)[k] = h[k]
  BY <1>15, <1>16, JoinOf
<1>18. \A k \in 1 .. 5 : k \in 1 .. Len(h)
  BY <1>15, <1>17
<1>19. \A k \in 1 .. 5 : Boot[k] = s[k]
  BY <1>14, <1>15, <1>17, <1>18
<1> QED BY <1>3, <1>12, <1>14, <1>15, <1>17, <1>19

-----------------------------------------------------------------------------
LEMMA ResetMovesAre ==
  /\ ResetMoves[1] = Input /\ ResetMoves[2] = Shadow("RE", TRUE)
  /\ ResetMoves[3] = Shadow("CE", FALSE)
  /\ ResetMoves[4] = Pin("WP", FALSE) /\ ResetMoves[5] = Call("latch_command", <<CMD_RESET>>)
BY DEF ResetMoves

LEMMA BootStep ==
  ASSUME NEW s, IsSeq(s), NEW k \in 0 .. 4, BootAt(s, k)
  PROVE  s # <<>> /\ Head(s) = ResetMoves[k + 1] /\ (k < 4 => BootAt(Tail(s), k + 1))
<1>1. s # <<>>
  <2>1. Len(s) # 0
    BY LengthOf DEF BootAt
  <2> QED BY <2>1, LengthOf
<1>2. /\ Len(s) \in Nat /\ Head(s) = s[1] /\ Len(Tail(s)) = Len(s) - 1
      /\ \A i \in 1 .. Len(s) - 1 : Tail(s)[i] = s[i + 1]
  BY <1>1, TailOf
<1>3. Head(s) = ResetMoves[k + 1]
  <2>1. 1 \in 1 .. 5 - k /\ 1 + k = k + 1
    OBVIOUS
  <2> QED BY <1>2, <2>1 DEF BootAt
<1>4. ASSUME k < 4
      PROVE  BootAt(Tail(s), k + 1)
  <2>1. 5 - (k + 1) <= Len(Tail(s))
    BY <1>2 DEF BootAt
  <2>2. ASSUME NEW i \in 1 .. 5 - (k + 1)
        PROVE  Tail(s)[i] = ResetMoves[i + (k + 1)]
    <3>1. i \in 1 .. Len(s) - 1 /\ i + 1 \in 1 .. 5 - k /\ i + 1 + k = i + (k + 1)
      BY <1>2, <2>1
    <3>2. Tail(s)[i] = s[i + 1]
      BY <1>2, <3>1
    <3>3. s[i + 1] = ResetMoves[i + 1 + k]
      BY <3>1 DEF BootAt
    <3> QED BY <3>1, <3>2, <3>3
  <2> QED BY <2>1, <2>2 DEF BootAt
<1> QED BY <1>1, <1>3, <1>4

\* The next move tells where main is before the reset.
LEMMA BootHeads ==
  ASSUME IsSeq(todo)
  PROVE  /\ BootAt(todo, 0) => todo # <<>> /\ Head(todo) = Input /\ BootAt(Tail(todo), 1)
         /\ BootAt(todo, 1) =>
              todo # <<>> /\ Head(todo) = Shadow("RE", TRUE) /\ BootAt(Tail(todo), 2)
         /\ BootAt(todo, 2) =>
              todo # <<>> /\ Head(todo) = Shadow("CE", FALSE) /\ BootAt(Tail(todo), 3)
         /\ BootAt(todo, 3) => todo # <<>> /\ Head(todo) = Pin("WP", FALSE) /\ BootAt(Tail(todo), 4)
<1>1. ASSUME NEW k \in 0 .. 3, NEW n, n = k + 1, BootAt(todo, k)
      PROVE  todo # <<>> /\ Head(todo) = ResetMoves[n] /\ BootAt(Tail(todo), n)
  BY <1>1, BootStep
<1>2. /\ BootAt(todo, 0) => todo # <<>> /\ Head(todo) = ResetMoves[1] /\ BootAt(Tail(todo), 1)
      /\ BootAt(todo, 1) => todo # <<>> /\ Head(todo) = ResetMoves[2] /\ BootAt(Tail(todo), 2)
      /\ BootAt(todo, 2) => todo # <<>> /\ Head(todo) = ResetMoves[3] /\ BootAt(Tail(todo), 3)
      /\ BootAt(todo, 3) => todo # <<>> /\ Head(todo) = ResetMoves[4] /\ BootAt(Tail(todo), 4)
  BY <1>1
<1> QED BY <1>2, ResetMovesAre, Zenon

-----------------------------------------------------------------------------
\* What Enter puts in place of a call.
LEMMA EnterShaped ==
  ASSUME NEW m, Tame(m), m.do = "call",
         NEW s, s = <<>> \/ s = Body(m.fn, m.arg)
  PROVE  Shaped(s) /\ Opens(s)
BY BodyShaped, NoMove, PlainShaped

LEMMA HeadOf ==
  ASSUME NEW s, NEW t, IsSeq(s), IsSeq(t), s \o t # <<>>
  PROVE  /\ s # <<>> => Head(s \o t) = s[1]
         /\ s = <<>> => t # <<>> /\ Head(s \o t) = Head(t)
<1>1. /\ IsSeq(s \o t) /\ Len(s) \in Nat /\ Len(t) \in Nat /\ Len(s \o t) = Len(s) + Len(t)
      /\ \A i \in 1 .. Len(s) : (s \o t)[i] = s[i]
      /\ \A i \in 1 .. Len(t) : (s \o t)[Len(s) + i] = t[i]
  BY JoinOf
<1>2. Head(s \o t) = (s \o t)[1]
  BY <1>1, TailOf
<1>3. ASSUME s # <<>>
      PROVE  Head(s \o t) = s[1]
  <2>1. 1 \in 1 .. Len(s)
    BY <1>1, <1>3, LengthOf
  <2> QED BY <1>1, <1>2, <2>1
<1>4. ASSUME s = <<>>
      PROVE  t # <<>> /\ Head(s \o t) = Head(t)
  <2>1. Len(s) = 0
    BY <1>4, LengthOf
  <2>2. t # <<>>
    BY <1>1, <2>1, LengthOf
  <2>3. 1 \in 1 .. Len(t) /\ Head(t) = t[1] /\ 0 + 1 = 1
    BY <2>2, TailOf
  <2> QED BY <1>1, <1>2, <2>1, <2>2, <2>3
<1> QED BY <1>3, <1>4

\* A move leaves a sequence that may follow it.
LEMMA Ahead ==
  ASSUME Shaped(todo), Moves
  PROVE  /\ Shaped(todo') /\ Tame(Head(todo))
         /\ todo' # <<>> => Follows(Head(todo), Head(todo'))
         /\ ReLow(Head(todo)) \/ Sampled(Head(todo)) => todo' # <<>>
         /\ Head(todo).do \notin {"call", "wait"} => todo' = Tail(todo)
<1> DEFINE m == Head(todo)
           t == Tail(todo)
<1>1. todo # <<>>
  BY DEF Moves
<1>2. /\ Shaped(t) /\ Tame(m)
      /\ t # <<>> => Follows(m, Head(t))
      /\ ReLow(m) \/ Sampled(m) => t # <<>>
  BY <1>1, RestOf
<1>3. IsSeq(todo) /\ IsSeq(t)
  BY <1>2 DEF Shaped
<1>5. CASE Enter
  <2> DEFINE s == IF Refused(m.fn) THEN <<>> ELSE Body(m.fn, m.arg)
  <2>1. m.do = "call" /\ todo' = s \o t
    BY <1>5 DEF Enter
  <2>2. s = <<>> \/ s = Body(m.fn, m.arg)
    OBVIOUS
  <2> HIDE DEF s, m, t
  <2>3. Shaped(s) /\ Opens(s)
    BY <1>2, <2>1, <2>2, EnterShaped
  <2>5. ~ReLow(m) /\ ~Sampled(m) /\ ~ReHigh(m) /\ m.do # "in"
    BY <2>1 DEF ReLow, Sampled, ReHigh, Low, High
  <2>6. t # <<>> => ~ReLow(Head(t)) /\ ~Reading(Head(t))
    BY <1>2, <2>5 DEF Follows, Reading
  <2>7. t # <<>> => Head(t) = t[1]
    BY <1>3, TailOf
  <2>8. Opens(t)
    BY <2>6, <2>7 DEF Opens
  <2>9. Shaped(s \o t)
    BY <1>2, <2>3, <2>8, JoinShaped
  <2>10. s \o t # <<>> => ~ReLow(Head(s \o t)) /\ ~Reading(Head(s \o t))
    <3>1. IsSeq(s)
      BY <2>3 DEF Shaped
    <3> QED BY <1>3, <2>3, <2>6, <3>1, HeadOf DEF Opens
  <2>11. todo' # <<>> => Follows(m, Head(todo'))
    BY <2>1, <2>5, <2>10 DEF Follows, Reading
  <2> QED BY <1>2, <2>1, <2>5, <2>9, <2>11 DEF m, t
<1>6. CASE Look
  <2>1. m.do = "wait" /\ (todo' = t \/ todo' = todo)
    BY <1>6 DEF Look
  <2> HIDE DEF m, t
  <2>2. ~ReLow(m) /\ ~Sampled(m) /\ ~ReHigh(m)
    BY <2>1 DEF ReLow, Sampled, ReHigh, Low, High
  <2>3. todo' = todo => Follows(m, Head(todo'))
    BY <2>2 DEF Follows, m
  <2> QED BY <1>2, <2>1, <2>2, <2>3 DEF m, t
<1>7. CASE SetShadow \/ SetPin \/ Drive \/ Release \/ Samples
  <2>1. todo' = t
    BY <1>7 DEF SetShadow, SetPin, Drive, Release, Samples, Store
  <2> QED BY <1>2, <2>1
<1> QED BY <1>5, <1>6, <1>7 DEF Moves

\* What is known of the move before which a condition holds.
LEMMA ReadingHead ==
  ASSUME ReadingNext
  PROVE  Head(todo).do = "sample" \/ ReHigh(Head(todo))
BY DEF ReadingNext, Reading, Sampled

LEMMA BeforeHead ==
  ASSUME Shaped(todo)
  PROVE  /\ BeforeRE => shadow = {} /\ \/ Head(todo) = Input /\ BootAt(Tail(todo), 1)
                                       \/ Head(todo) = Shadow("RE", TRUE) /\ BootAt(Tail(todo), 2)
         /\ BeforePin =>
              /\ shadow = {"RE"}
              /\ \/ Head(todo) = Shadow("CE", FALSE) /\ BootAt(Tail(todo), 3)
                 \/ Head(todo) = Pin("WP", FALSE) /\ BootAt(Tail(todo), 4)
<1>1. IsSeq(todo)
  BY DEF Shaped
<1> QED BY <1>1, BootHeads DEF BeforeRE, BeforePin

LEMMA BootMoves ==
  /\ Input.do = "in"
  /\ Shadow("RE", TRUE).do = "shadow" /\ Shadow("RE", TRUE).pin = "RE"
  /\ Shadow("RE", TRUE).val = TRUE
  /\ Shadow("CE", FALSE).do = "shadow" /\ Shadow("CE", FALSE).pin = "CE"
  /\ Shadow("CE", FALSE).val = FALSE
  /\ Pin("WP", FALSE).do = "pin" /\ Pin("WP", FALSE).pin = "WP" /\ Pin("WP", FALSE).val = FALSE
BY DEF Input, Shadow, Pin

\* With the bus turned round, and no byte on its way.
LEMMA MoveTurned ==
  ASSUME Shaped(todo), Turned, Moves
  PROVE  Turned'
<1> DEFINE m == Head(todo)
           n == Head(todo')
<1>1. todo # <<>> /\ (todo' # <<>> => Follows(m, n))
  BY Ahead DEF Moves
<1>2. SUFFICES ASSUME todo' # <<>>, ReLow(n) \/ Reading(n)
               PROVE  io' = -1
  BY DEF Turned
<1>3. m.do = "in" \/ ReHigh(m) \/ ReLow(m) \/ Sampled(m)
  BY <1>1, <1>2 DEF Follows, Reading
<1>4. m.do = "in" \/ (m.do \in {"pin", "sample"} /\ io = -1)
  BY <1>1, <1>3 DEF Turned, Reading, ReHigh, ReLow, Sampled, High, Low
<1> QED BY <1>4 DEF Moves, Enter, SetShadow, SetPin, Drive, Release, Samples, Store, Look

\* When the next move sets a pin and nRE is low after it, this is its fall.
LEMMA PinLeavesLow ==
  ASSUME Shaped(todo), ReHeld, todo # <<>>, Head(todo).do = "pin",
         "RE" \notin Set(shadow, Head(todo).pin, Head(todo).val)
  PROVE  ReLow(Head(todo))
<1> DEFINE m == Head(todo)
<1>1. CASE m.pin = "RE"
  BY <1>1 DEF Set, ReLow, Low
<1>2. CASE m.pin # "RE"
  <2>1. "RE" \notin shadow
    BY <1>2 DEF Set
  <2>2. ~ReadingNext
    BY <1>2, ReadingHead DEF ReHigh, High
  <2>3. ~BeforeRE
    BY BeforeHead, BootMoves
  <2> QED BY <2>1, <2>2, <2>3 DEF ReHeld
<1> QED BY <1>1, <1>2

LEMMA LowThenReading ==
  ASSUME Shaped(todo), Moves, ReLow(Head(todo)) \/ Sampled(Head(todo))
  PROVE  ReadingNext'
<1>1. todo' # <<>> /\ Follows(Head(todo), Head(todo'))
  BY Ahead
<1> QED BY <1>1 DEF ReadingNext, Reading, Follows

LEMMA MoveReHeld ==
  ASSUME Shaped(todo), ReHeld, Moves
  PROVE  ReHeld'
<1> DEFINE m == Head(todo)
<1>1. todo # <<>> /\ Tame(m) /\ (m.do \notin {"call", "wait"} => todo' = Tail(todo))
  BY Ahead DEF Moves
<1>2. SUFFICES ASSUME "RE" \notin shadow'
               PROVE  ReadingNext' \/ BeforeRE'
  BY DEF ReHeld
<1>3. CASE SetPin
  <2>1. m.do = "pin" /\ shadow' = Set(shadow, m.pin, m.val)
    BY <1>3 DEF SetPin
  <2> QED BY <1>1, <1>2, <2>1, PinLeavesLow, LowThenReading
<1>4. CASE Samples
  BY <1>4, LowThenReading DEF Samples, Store, Sampled
<1>5. ASSUME ~SetPin, ~Samples
      PROVE  "RE" \notin shadow /\ m.do \notin {"pin", "sample"}
  <2>1. CASE SetShadow
    BY <1>1, <1>2, <2>1 DEF SetShadow, Set, Tame
  <2>2. CASE Enter \/ Drive \/ Release \/ Look
    BY <1>2, <2>2 DEF Enter, Drive, Release, Look
  <2> QED BY <1>5, <2>1, <2>2 DEF Moves
<1>6. ASSUME ~SetPin, ~Samples
      PROVE  BeforeRE'
  <2>1. ~ReadingNext
    BY <1>5, <1>6, ReadingHead DEF ReHigh, High
  <2>2. BeforeRE
    BY <1>5, <1>6, <2>1 DEF ReHeld
  <2>3. CASE m = Input /\ BootAt(Tail(todo), 1)
    <3>1. Release
      BY <1>6, <2>3, BootMoves DEF Moves, Enter, SetShadow, Drive, Look
    <3>2. shadow' = {} /\ todo' = Tail(todo)
      BY <2>2, <3>1 DEF Release, BeforeRE
    <3> QED BY <2>3, <3>2 DEF BeforeRE
  <2>4. CASE m = Shadow("RE", TRUE)
    <3>1. SetShadow
      BY <1>6, <2>4, BootMoves DEF Moves, Enter, Release, Drive, Look
    <3>2. shadow' = Set(shadow, m.pin, m.val) /\ m.pin = "RE" /\ m.val
      BY <2>4, <3>1, BootMoves DEF SetShadow
    <3> QED BY <1>2, <3>2 DEF Set
  <2> QED BY <2>2, <2>3, <2>4, BeforeHead
<1> QED BY <1>3, <1>4, <1>6

LEMMA MoveOutHeld ==
  ASSUME Shaped(todo), ReHeld, OutHeld, Moves
  PROVE  OutHeld'
<1> DEFINE m == Head(todo)
<1>1. todo # <<>> /\ (m.do \notin {"call", "wait"} => todo' = Tail(todo))
  BY Ahead DEF Moves
<1>2. SUFFICES ASSUME out' # -1
               PROVE  ReadingNext' \/ BeforeRE' \/ BeforePin'
  BY DEF OutHeld
<1>3. CASE SetPin
  <2> DEFINE new == Set(shadow, m.pin, m.val)
  <2>1. m.do = "pin"
    BY <1>3 DEF SetPin
  <2>2. "RE" \notin new
    BY <1>2, <1>3 DEF SetPin, Rises
  <2> QED BY <1>1, <2>1, <2>2, PinLeavesLow, LowThenReading
<1>4. CASE Samples
  BY <1>4, LowThenReading DEF Samples, Store, Sampled
<1>5. ASSUME ~SetPin, ~Samples
      PROVE  BeforeRE' \/ BeforePin'
  <2>1. out # -1 /\ m.do \notin {"pin", "sample"}
    BY <1>2, <1>5 DEF Moves, Enter, SetShadow, Drive, Release, Look
  <2>2. BeforeRE \/ BeforePin
    BY <2>1, ReadingHead DEF ReHigh, High, OutHeld
  <2>3. CASE BeforeRE /\ m = Input /\ BootAt(Tail(todo), 1)
    <3>1. Release
      BY <1>5, <2>3, BootMoves DEF Moves, Enter, SetShadow, Drive, Look
    <3>2. shadow' = {} /\ todo' = Tail(todo)
      BY <2>3, <3>1 DEF Release, BeforeRE
    <3> QED BY <2>3, <3>2 DEF BeforeRE
  <2>4. CASE BeforeRE /\ m = Shadow("RE", TRUE) /\ BootAt(Tail(todo), 2)
    <3>1. SetShadow
      BY <1>5, <2>4, BootMoves DEF Moves, Enter, Release, Drive, Look
    <3>2. shadow' = Set(shadow, m.pin, m.val) /\ m.pin = "RE" /\ m.val /\ shadow = {}
      BY <2>4, <3>1, BootMoves DEF SetShadow, BeforeRE
    <3>3. shadow' = {"RE"} /\ todo' = Tail(todo)
      BY <3>1, <3>2 DEF Set, SetShadow
    <3> QED BY <2>4, <3>3 DEF BeforePin
  <2>5. CASE BeforePin /\ m = Shadow("CE", FALSE) /\ BootAt(Tail(todo), 3)
    <3>1. SetShadow
      BY <1>5, <2>5, BootMoves DEF Moves, Enter, Release, Drive, Look
    <3>2. shadow' = Set(shadow, m.pin, m.val) /\ m.pin = "CE" /\ ~m.val /\ shadow = {"RE"}
      BY <2>5, <3>1, BootMoves DEF SetShadow, BeforePin
    <3>3. shadow' = {"RE"} /\ todo' = Tail(todo)
      BY <3>1, <3>2 DEF Set, SetShadow
    <3> QED BY <2>5, <3>3 DEF BeforePin
  <2>6. m # Pin("WP", FALSE)
    BY <2>1, BootMoves
  <2> QED BY <2>2, <2>3, <2>4, <2>5, <2>6, BeforeHead
<1> QED BY <1>3, <1>4, <1>5

\* FTDI and chip do not meet on the bus.
LEMMA MoveApart ==
  ASSUME Shaped(todo), Apart, Turned, ReHeld, OutHeld, Moves
  PROVE  Apart'
<1> DEFINE m == Head(todo)
<1>1. todo # <<>>
  BY DEF Moves
<1>2. CASE SetPin
  <2>1. m.do = "pin" /\ io' = io
    BY <1>2 DEF SetPin
  <2>2. CASE out' # -1
    <3>1. "RE" \notin Set(shadow, m.pin, m.val)
      BY <1>2, <2>2 DEF SetPin, Rises
    <3>2. ReLow(m)
      BY <1>1, <2>1, <3>1, PinLeavesLow
    <3> QED BY <1>1, <2>1, <3>2 DEF Turned, Apart
  <2> QED BY <2>2 DEF Apart
<1>3. CASE Drive
  <2>1. m.do = "out" /\ out' = out
    BY <1>3 DEF Drive
  <2>2. ~ReadingNext
    BY <2>1, ReadingHead DEF ReHigh, High
  <2>3. ~BeforeRE /\ ~BeforePin
    BY <2>1, BeforeHead, BootMoves
  <2> QED BY <2>1, <2>2, <2>3 DEF OutHeld, Apart
<1>4. CASE Enter \/ SetShadow \/ Release \/ Samples \/ Look
  BY <1>4 DEF Enter, SetShadow, Release, Samples, Store, Look, Apart
<1> QED BY <1>2, <1>3, <1>4 DEF Moves

\* The history of an operation ends with the reset of the next process, and is
\* else left alone.
LEMMA MoveOp ==
  ASSUME Moves
  PROVE  \/ op' = op /\ stopped' = stopped
         \/ stopped' = FALSE /\ op' = (IF stopped THEN NoOp ELSE op)
<1>1. CASE SetPin
  <2> DEFINE new == Set(shadow, Head(todo).pin, Head(todo).val)
  <2>1. (\E b \in OnBus : Latch(new, b)) \/ ClockOut \/ UNCHANGED chip
    BY <1>1 DEF SetPin
  <2>2. CASE \E b \in OnBus : Latch(new, b)
    <3>1. PICK b : Latch(new, b)
      BY <2>2
    <3>2. LatchCommand(b) \/ LatchAddress(b) \/ LatchData(b)
      BY <3>1 DEF Latch
    <3> QED BY <3>2 DEF LatchCommand, Reset, SetupCommand, OtherCommand, LatchAddress, LatchData
  <2> QED BY <2>1, <2>2 DEF ClockOut, chip
<1>2. CASE Enter \/ SetShadow \/ Drive \/ Release \/ Samples \/ Look
  BY <1>2 DEF Enter, SetShadow, Drive, Release, Samples, Store, Look, chip
<1> QED BY <1>1, <1>2 DEF Moves

LEMMA MoveBuffer ==
  ASSUME IsSeq(InBuf), Moves
  PROVE  IsSeq(InBuf')
<1>1. InBuf' = InBuf \/ InBuf' = <<>> \/ \E b : InBuf' = Append(InBuf, b)
  BY DEF Moves, Enter, SetShadow, SetPin, Drive, Release, Samples, Store, Look
<1> QED BY <1>1, NoMove, Added

-----------------------------------------------------------------------------
(***************************************************************************)
(* What goes wrong.                                                        *)
(***************************************************************************)
LEMMA MishapsKept ==
  ASSUME IsSeq(mishaps), mishaps' = mishaps \/ \E k : mishaps' = Append(mishaps, k)
  PROVE  /\ IsSeq(mishaps')
         /\ \A e : Had(e) => Had(e)'
         /\ mishaps' = <<>> => mishaps' = mishaps
<1>1. PICK S : mishaps \in Seq(S)
  BY DEF IsSeq
<1>2. CASE mishaps' = mishaps
  BY <1>2 DEF Had
<1>3. CASE \E k : mishaps' = Append(mishaps, k)
  <2>1. PICK k : mishaps' = Append(mishaps, k)
    BY <1>3
  <2>2. mishaps \in Seq(S \cup {k})
    BY <1>1
  <2>3. /\ mishaps' \in Seq(S \cup {k}) /\ DOMAIN mishaps \subseteq DOMAIN mishaps'
        /\ \A i \in DOMAIN mishaps : mishaps'[i] = mishaps[i]
        /\ Len(mishaps') = Len(mishaps) + 1
    BY <2>1, <2>2
  <2>4. \A e : Had(e) => Had(e)'
    BY <2>3 DEF Had
  <2>5. mishaps' # <<>>
    BY <2>2, <2>3
  <2> QED BY <2>3, <2>4, <2>5 DEF IsSeq
<1> QED BY <1>2, <1>3

LEMMA MishapNoted ==
  ASSUME IsSeq(mishaps), NEW k, Mishap(k)
  PROVE  Had(k)' /\ mishaps' # <<>>
<1>1. PICK S : mishaps \in Seq(S)
  BY DEF IsSeq
<1>2. mishaps \in Seq(S \cup {k}) /\ mishaps' = Append(mishaps, k)
  BY <1>1 DEF Mishap
<1>3. Len(mishaps') \in DOMAIN mishaps' /\ mishaps'[Len(mishaps')] = k /\ mishaps' # <<>>
  BY <1>2
<1> QED BY <1>3 DEF Had

\* A step of the bus with no update lost is a move.
LEMMA Failing ==
  ASSUME IsSeq(mishaps), Bus \/ Failure, ~Had("write")'
  PROVE  Moves
<1>1. ~(\E k : k = "write" /\ Mishap(k))
  BY MishapNoted
<1>2. CASE Bus
  BY <1>2 DEF Bus, Move, Moves, TakeSample, Samples, Wait
<1>3. CASE Failure
  BY <1>1, <1>3 DEF Failure, WriteFails, SampleFails, WaitEndsEarly, WaitFails, Moves, Samples
<1> QED BY <1>2, <1>3

-----------------------------------------------------------------------------
(***************************************************************************)
(* The bus, as long as no update of it is lost.                            *)
(***************************************************************************)
LEMMA NothingLeft ==
  ASSUME Held, todo = <<>>
  PROVE  out = -1 /\ "RE" \in shadow
<1>1. IsSeq(todo)
  BY DEF Held, Shaped
<1>2. ~ReadingNext /\ ~BeforeRE /\ ~BeforePin
  BY <1>1, BootHeads DEF ReadingNext, BeforeRE, BeforePin
<1> QED BY <1>2 DEF Held, OutHeld, ReHeld

\* An operation begins when the last one has no moves left.
LEMMA MovesBegin ==
  ASSUME BusInv, pc # "dead", todo = <<>>, AllPlain(todo'), pc' \notin {"options", "done"},
         UNCHANGED <<shadow, pins, io, out>>
  PROVE  BusInv'
<1>1. Held
  BY DEF BusInv
<1>2. Shaped(todo') /\ Opens(todo')
  BY PlainShaped
<1>3. todo' # <<>> => Head(todo') = todo'[1]
  BY TailOf DEF AllPlain
<1>4. Turned'
  BY <1>2, <1>3 DEF Opens, Turned
<1>5. OutHeld' /\ ReHeld'
  BY <1>1, NothingLeft DEF OutHeld, ReHeld
<1> QED BY <1>2, <1>4, <1>5 DEF BusInv, Held, Apart

LEMMA SameBus ==
  ASSUME BusInv, UNCHANGED bus, pc' = pc \/ pc' = "dead" \/ (pc # "dead" /\ todo = <<>>)
  PROVE  BusInv'
<1>1. Apart'
  BY DEF BusInv, Apart, bus
<1>2. ASSUME pc' # "dead"
      PROVE  Held'
  <2>1. Held /\ (pc' = pc \/ todo = <<>>)
    BY <1>2 DEF BusInv
  <2>2. Shaped(todo') /\ Turned' /\ OutHeld' /\ ReHeld'
    BY <2>1 DEF Held, bus, Turned, OutHeld, ReHeld, ReadingNext, BeforeRE, BeforePin
  <2>3. pc' \in {"options", "done"} => todo' = <<>>
    BY <2>1 DEF Held, bus
  <2> QED BY <2>2, <2>3 DEF Held
<1> QED BY <1>1, <1>2 DEF BusInv

LEMMA BusMoves ==
  ASSUME BusInv, pc # "dead", pc' = pc, Moves
  PROVE  BusInv'
<1>1. Held /\ Apart
  BY DEF BusInv
<1>2. Shaped(todo) /\ Turned /\ OutHeld /\ ReHeld /\ todo # <<>>
  BY <1>1 DEF Held, Moves
<1>3. Shaped(todo') /\ Turned' /\ OutHeld' /\ ReHeld' /\ Apart'
  BY <1>1, <1>2, Ahead, MoveTurned, MoveOutHeld, MoveReHeld, MoveApart
<1>4. pc \notin {"options", "done"}
  BY <1>1, <1>2 DEF Held
<1> QED BY <1>3, <1>4 DEF BusInv, Held

LEMMA OpenMoves ==
  ASSUME BusInv, pc \in {"options", "done"}
  PROVE  todo = <<>>
BY DEF BusInv, Held

LEMMA BusOption ==
  ASSUME BusInv, Option
  PROVE  BusInv'
<1>1. pc = "options"
  BY DEF Option, SetErasePage, SetPage, EraseOption, ReadOption, WriteOption, EccOption,
    EndOfLine, TakesOption
<1>2. todo = <<>>
  BY <1>1, OpenMoves
<1>3. CASE EndOfLine
  <2>1. /\ pc' = "done" /\ shadow' = shadow \cup {"CE"} /\ todo' = <<>>
        /\ UNCHANGED <<pins, io, out>>
    BY <1>2, <1>3 DEF EndOfLine
  <2>2. Held /\ out = -1 /\ "RE" \in shadow
    BY <1>1, <1>2, NothingLeft DEF BusInv
  <2>3. Turned' /\ OutHeld' /\ ReHeld' /\ Shaped(todo')
    BY <1>2, <2>1, <2>2 DEF Turned, OutHeld, ReHeld, Held
  <2> QED BY <2>1, <2>3 DEF BusInv, Held, Apart
<1>4. CASE \E b \in BOOLEAN : EccOption(b)
  <2>1. /\ pc' = "ecc" /\ UNCHANGED <<shadow, pins, io, out>>
        /\ \E b \in BOOLEAN : todo' = set_ecc(b)
    BY <1>4 DEF EccOption
  <2> QED BY <1>1, <1>2, <2>1, EccPlain, MovesBegin
<1>5. ASSUME ~EndOfLine, ~\E b \in BOOLEAN : EccOption(b)
      PROVE  UNCHANGED bus
  BY <1>5 DEF Option, SetErasePage, SetPage, EraseOption, ReadOption, WriteOption, Quiet
<1> QED BY <1>1, <1>2, <1>3, <1>4, <1>5, SameBus

LEMMA Sizes ==
  /\ Nand.page_size \in Nat /\ Full \in Nat /\ ChunkSize \in Nat /\ ChunkSize' \in Nat
BY PinAssumption DEF Full, ChunkSize

LEMMA MallocsSequence ==
  ASSUME NEW n \in Nat, Mallocs(n)
  PROVE  IsSeq(data')
<1>1. PICK b \in Heap : data' = [i \in 1 .. n |-> b]
  BY DEF Mallocs
<1>2. data' = [i \in 1 .. n |-> data'[i]]
  BY <1>1
<1> QED BY <1>2, AnyFunction

LEMMA FreadSequence ==
  ASSUME Fread
  PROVE  IsSeq(data')
<1> DEFINE got == IF Len(file) - at < ChunkSize THEN Len(file) - at ELSE ChunkSize
<1>1. data' = [i \in 1 .. ChunkSize |-> IF i <= got THEN file[at + i] ELSE data[i]]
  BY DEF Fread
<1> HIDE DEF got
<1>2. data' = [i \in 1 .. ChunkSize |-> data'[i]]
  BY <1>1
<1> QED BY <1>2, Sizes, AnyFunction

LEMMA BusLoop ==
  ASSUME EccOnSequences, BusInv, Loop
  PROVE  BusInv'
<1>1. pc \notin {"dead", "options", "done"} /\ todo = <<>>
  BY DEF Loop, Erase, Ready, EraseDone, SkipPage, Writing, Program, ProgramDone, Read, ReadDone,
    Overrun, LoopDone, Returned
<1>2. CASE Erase \/ Program \/ Read
  <2>1. /\ pc' = pc /\ UNCHANGED <<shadow, pins, io, out>>
        /\ \/ \E a : todo' = erase_page(a)
           \/ \E a : todo' = read_memory(a, ChunkSize)
           \/ Fread /\ \E a : todo' = program_page(a, Chunk)
    BY <1>2 DEF Erase, Program, Read, Begins
  <2>2. Fread => IsSeq(Chunk)
    BY FreadSequence DEF Chunk, EccOnSequences
  <2>3. AllPlain(todo')
    BY <2>1, <2>2, ErasePlain, ReadPlain, ProgramPlain, Sizes
  <2> QED BY <1>1, <2>1, <2>3, MovesBegin
<1>3. CASE EraseDone \/ SkipPage \/ ProgramDone \/ ReadDone \/ Overrun \/ LoopDone
  <2>1. UNCHANGED bus
    BY <1>3 DEF EraseDone, SkipPage, Quiet, ProgramDone, ReadDone, Overrun, LoopDone, bus
  <2> QED BY <1>1, <2>1, SameBus
<1> QED BY <1>2, <1>3 DEF Loop

\* The moves of main before its first option, in any state of the pins.
LEMMA BootHeld == todo = Boot /\ shadow = {} => Shaped(todo) /\ Turned /\ OutHeld /\ ReHeld
<1> SUFFICES ASSUME todo = Boot, shadow = {}
             PROVE  Shaped(todo) /\ Turned /\ OutHeld /\ ReHeld
  OBVIOUS
<1>1. Shaped(Boot) /\ Len(Boot) >= 5 /\ \A i \in 1 .. 5 : Boot[i] = ResetMoves[i]
  BY BootPlain, PlainShaped
<1>2. IsSeq(todo)
  BY <1>1 DEF Shaped
<1>3. BootAt(todo, 0)
  <2>1. \A i \in 1 .. 5 - 0 : i \in 1 .. 5 /\ i + 0 = i
    OBVIOUS
  <2> QED BY <1>1, <2>1 DEF BootAt
<1>4. BeforeRE
  BY <1>3 DEF BeforeRE
<1>5. Head(todo) = Input
  BY <1>2, <1>3, BootHeads
<1>6. Turned
  BY <1>5, BootMoves DEF Turned, Reading, Sampled, ReLow, ReHigh, Low, High
<1> QED BY <1>1, <1>4, <1>6 DEF OutHeld, ReHeld

LEMMA BootHeldNext ==
  (todo = Boot /\ shadow = {})' => (Shaped(todo) /\ Turned /\ OutHeld /\ ReHeld)'
BY BootHeld, PTL

LEMMA BusProcess ==
  ASSUME BusInv, Interrupt \/ Restart \/ Finished
  PROVE  BusInv'
<1>1. CASE Interrupt
  BY <1>1, SameBus DEF Interrupt
<1>2. CASE Restart
  <2>1. pc' = "boot" /\ todo' = Boot /\ shadow' = {} /\ UNCHANGED <<io, out>>
    BY <1>2 DEF Restart, StartsProcess
  <2>2. Apart'
    BY <2>1 DEF BusInv, Apart
  <2> QED BY <2>1, <2>2, BootHeldNext DEF BusInv, Held
<1>3. CASE Finished
  BY <1>3, SameBus DEF Finished, vars
<1> QED BY <1>1, <1>2, <1>3

LEMMA BusStepwise ==
  ASSUME EccOnSequences, IsSeq(mishaps), BusInv, Next, ~Had("write")'
  PROVE  BusInv'
<1>1. CASE Bus \/ Failure
  <2>1. pc # "dead" /\ pc' = pc
    BY <1>1 DEF Bus, Failure
  <2> QED BY <1>1, <2>1, Failing, BusMoves
<1>2. CASE Chip
  BY <1>2, SameBus DEF Chip, ChipFinishes
<1>3. CASE Identified
  BY <1>3, SameBus DEF Identified
<1> QED BY <1>1, <1>2, <1>3, BusOption, BusLoop, BusProcess DEF Next

-----------------------------------------------------------------------------
(***************************************************************************)
(* The file, whatever goes wrong.                                          *)
(***************************************************************************)
\* The program does not turn to something else.
LEMMA FileStays ==
  ASSUME FileInv, Buffers', UNCHANGED <<pc, startingpage, nPage, at, eof, file>>,
         \/ op' = op /\ stopped' = stopped
         \/ stopped' = FALSE /\ op' = (IF stopped THEN NoOp ELSE op)
  PROVE  FileInv'
<1>1. Settled'
  BY DEF FileInv, Settled
<1>2. pc \in {"w", "W"} => op' = op
  BY DEF FileInv, Settled
<1>3. ChunkSize' = ChunkSize
  BY DEF ChunkSize
<1>4. FileHeld'
  BY <1>2, <1>3 DEF FileInv, FileHeld
<1> QED BY <1>1, <1>4 DEF FileInv

LEMMA FileSteps ==
  ASSUME FileInv, Bus \/ Failure \/ Chip \/ UNCHANGED vars
  PROVE  FileInv'
<1>1. IsSeq(file) /\ IsSeq(data) /\ IsSeq(InBuf) /\ IsSeq(mishaps)
  BY DEF FileInv, Buffers
<1>2. CASE Bus \/ Failure
  <2>1. UNCHANGED <<pc, main>>
    BY <1>2 DEF Bus, Failure
  <2>2. mishaps' = mishaps \/ \E k : mishaps' = Append(mishaps, k)
    BY <1>2 DEF Bus, Move, Failure, WriteFails, SampleFails, WaitEndsEarly, WaitFails, Mishap
  <2>3. IsSeq(mishaps')
    BY <1>1, <2>2, MishapsKept
  <2>4. /\ IsSeq(InBuf')
        /\ \/ op' = op /\ stopped' = stopped
           \/ stopped' = FALSE /\ op' = (IF stopped THEN NoOp ELSE op)
    <3>1. CASE Failure /\ WriteFails
      BY <1>1, <3>1 DEF WriteFails, chip
    <3>2. CASE ~(Failure /\ WriteFails)
      <4>1. Moves
        BY <1>2, <3>2 DEF Bus, Move, Failure, SampleFails, WaitEndsEarly, WaitFails, Moves,
          TakeSample, Samples, Wait
      <4> QED BY <1>1, <4>1, MoveBuffer, MoveOp
    <3> QED BY <3>1, <3>2
  <2>5. Buffers'
    BY <1>1, <2>1, <2>3, <2>4 DEF Buffers, main
  <2> QED BY <2>1, <2>4, <2>5, FileStays DEF main
<1>3. CASE Chip
  <2>1. UNCHANGED <<pc, main, mishaps, bus, op, stopped>>
    BY <1>3 DEF Chip, ChipFinishes
  <2> QED BY <1>1, <2>1, FileStays DEF Buffers, main, bus
<1>4. CASE UNCHANGED vars
  <2>1. UNCHANGED <<pc, main, mishaps, bus, op, stopped>>
    BY <1>4 DEF vars, chip
  <2> QED BY <1>1, <2>1, FileStays DEF Buffers, main, bus
<1> QED BY <1>2, <1>3, <1>4

\* The loops of -w and -W are another matter.
LEMMA FileElsewhere ==
  ASSUME FileInv, startingpage' \in Nat, IsSeq(file'), IsSeq(data'), IsSeq(InBuf'),
         mishaps' = mishaps, pc' \notin {"w", "W"}, pc' = "options" => op' = NoOp,
         stopped' => (stopped /\ pc' = pc) \/ pc' \in {"boot", "dead"}
  PROVE  FileInv'
<1>1. Buffers'
  BY DEF FileInv, Buffers
<1>2. Settled'
  BY DEF FileInv, Settled
<1> QED BY <1>1, <1>2 DEF FileInv, FileHeld

LEMMA FileOption ==
  ASSUME FileInv, Option
  PROVE  FileInv'
<1>1. pc = "options"
  BY DEF Option, SetErasePage, SetPage, EraseOption, ReadOption, WriteOption, EccOption,
    EndOfLine, TakesOption
<1>2. op = NoOp /\ ~stopped
  BY <1>1 DEF FileInv, Settled
<1>3. startingpage \in Nat /\ IsSeq(file) /\ IsSeq(data) /\ IsSeq(InBuf) /\ IsSeq(mishaps)
  BY DEF FileInv, Buffers, FileHeld
<1>4. UNCHANGED <<op, stopped, InBuf, mishaps>>
  BY DEF Option, SetErasePage, SetPage, EraseOption, ReadOption, WriteOption, EccOption,
    EndOfLine, TakesOption, Quiet, bus, chip
<1>5. CASE \E n \in Counts, k \in {"w", "W"} : WriteOption(k, n)
  <2>1. PICK n \in Counts, k \in {"w", "W"} : WriteOption(k, n)
    BY <1>5
  <2>2. /\ pc' \in {"w", "W"} /\ file' = file /\ startingpage' = startingpage
        /\ nPage' = startingpage /\ at' = 0
    BY <2>1 DEF WriteOption
  <2>3. IsSeq(data')
    <3>1. Mallocs(IF k = "w" THEN Nand.page_size ELSE Full)
      BY <2>1 DEF WriteOption
    <3> QED BY <3>1, Sizes, MallocsSequence
  <2>4. (nPage' - startingpage') * ChunkSize' = 0
    <3>1. nPage' - startingpage' = 0
      BY <1>3, <2>2
    <3> QED BY <3>1, Sizes
  <2>5. Len(file') \in Nat
    BY <1>3, <2>2, LengthOf
  <2>6. FileHeld'
    BY <1>2, <1>3, <1>4, <2>2, <2>4, <2>5 DEF FileHeld
  <2>7. Buffers' /\ Settled'
    BY <1>2, <1>3, <1>4, <2>2, <2>3 DEF Buffers, Settled
  <2> QED BY <2>6, <2>7 DEF FileInv
<1>6. ASSUME ~\E n \in Counts, k \in {"w", "W"} : WriteOption(k, n)
      PROVE  /\ pc' \notin {"w", "W"} /\ startingpage' \in Nat
             /\ file' = file \/ file' = <<>>
             /\ data' = data
  <2>1. CASE \E p \in Pages : SetErasePage(p) \/ SetPage(p)
    BY <1>1, <1>3, <2>1, ReaderAssumption DEF SetErasePage, SetPage
  <2>2. CASE \E n \in Counts : EraseOption(n)
    BY <1>3, <2>2 DEF EraseOption
  <2>3. CASE \E n \in Counts, k \in {"r", "R"} : ReadOption(k, n)
    BY <1>3, <2>3 DEF ReadOption
  <2>4. CASE (\E b \in BOOLEAN : EccOption(b)) \/ EndOfLine
    BY <1>3, <2>4 DEF EccOption, EndOfLine, main
  <2> QED BY <1>6, <2>1, <2>2, <2>3, <2>4 DEF Option
<1> QED BY <1>2, <1>3, <1>4, <1>5, <1>6, NoMove, FileElsewhere

\* A page read from the file.
LEMMA PageRead ==
  ASSUME FileInv, Writing, Fread, UNCHANGED <<pc, startingpage, file>>
  PROVE  /\ startingpage' \in Nat /\ nPage \in Nat /\ startingpage' <= nPage
         /\ at' \in Nat /\ at' <= Len(file')
         /\ (nPage - startingpage) * ChunkSize <= Len(file)
         /\ ~eof' => (nPage - startingpage) * ChunkSize + ChunkSize <= at'
<1> DEFINE size == ChunkSize
           done == (nPage - startingpage) * ChunkSize
           len == Len(file)
           got == IF len - at < size THEN len - at ELSE size
<1>1. /\ startingpage \in Nat /\ nPage \in Nat /\ startingpage <= nPage
      /\ at \in Nat /\ at <= len /\ done <= at
  BY DEF FileInv, FileHeld, Writing
<1>2. len \in Nat /\ size \in Nat
  BY Sizes, LengthOf DEF FileInv, Buffers
<1>3. done \in Int
  BY <1>1, Sizes
<1>4. at' = at + got /\ (~eof' => ~(got < size))
  BY DEF Fread
<1> HIDE DEF size, done, len
<1>5. /\ at' \in Nat /\ at' <= len /\ done <= len
      /\ ~eof' => done + size <= at'
  BY <1>1, <1>2, <1>3, <1>4
<1> QED BY <1>1, <1>5 DEF done, size, len

LEMMA FileLoop ==
  ASSUME EccOnSequences, FileInv, Loop
  PROVE  FileInv'
<1>1. /\ startingpage \in Nat /\ IsSeq(file) /\ IsSeq(data) /\ IsSeq(InBuf) /\ IsSeq(mishaps)
      /\ pc \notin {"boot", "dead", "options"} => ~stopped
  BY DEF FileInv, Buffers, Settled, FileHeld
<1>2. CASE Erase \/ Read
  <2>1. /\ pc \in {"erase", "r", "R"} /\ UNCHANGED <<pc, main, mishaps, stopped>>
        /\ InBuf' = <<>>
    BY <1>2 DEF Erase, Ready, Read, Begins
  <2> QED BY <1>1, <2>1, NoMove, FileElsewhere DEF main
<1>3. CASE EraseDone \/ ReadDone
  <2>1. /\ pc \in {"erase", "r", "R"} /\ UNCHANGED <<pc, startingpage, data, mishaps, stopped, InBuf>>
        /\ file' = file \/ file' = file \o InBuf
    BY <1>3 DEF EraseDone, ReadDone, Returned, bus
  <2>2. IsSeq(file \o InBuf)
    BY <1>1, JoinOf
  <2> QED BY <1>1, <2>1, <2>2, FileElsewhere
<1>4. CASE SkipPage
  <2>1. /\ Writing /\ Fread /\ UNCHANGED <<pc, startingpage, file>> /\ nPage' = nPage + 1
        /\ UNCHANGED <<InBuf, mishaps, op, stopped>>
    BY <1>4 DEF SkipPage, Quiet, bus, chip
  <2>2. pc \in {"w", "W"} /\ todo = <<>> /\ op = NoOp
    BY <2>1 DEF Writing
  <2> DEFINE size == ChunkSize
             left == nPage - startingpage
  <2>3. /\ startingpage' \in Nat /\ nPage \in Nat /\ startingpage' <= nPage
        /\ at' \in Nat /\ at' <= Len(file')
        /\ ~eof' => left * size + size <= at'
    BY <2>1, PageRead
  <2>4. left \in Nat /\ nPage' - startingpage' = left + 1
    BY <1>1, <2>1, <2>3
  <2>5. size \in Nat
    BY Sizes
  <2>6. ChunkSize' = size
    BY <2>1 DEF ChunkSize
  <2> HIDE DEF left, size
  <2>7. (left + 1) * size = left * size + size
    BY <2>4, <2>5
  <2>8. ~eof' => (nPage' - startingpage') * ChunkSize' <= at'
    BY <2>3, <2>4, <2>6, <2>7
  <2>9. nPage' \in Nat /\ startingpage' <= nPage'
    BY <2>1, <2>3
  <2>10. op' = NoOp
    BY <2>1, <2>2
  <2>11. FileHeld' /\ Settled'
    BY <1>1, <2>1, <2>2, <2>3, <2>8, <2>9, <2>10 DEF FileHeld, Settled
  <2>12. IsSeq(file') /\ IsSeq(data')
    BY <1>1, <2>1, FreadSequence
  <2> QED BY <1>1, <2>1, <2>11, <2>12 DEF FileInv, Buffers
<1>5. CASE Program
  <2>1. /\ Writing /\ Fread /\ UNCHANGED <<pc, startingpage, file>> /\ nPage' = nPage
        /\ \E a : Begins([kind |-> "program", at |-> a, data |-> Chunk], program_page(a, Chunk))
    BY <1>5 DEF Program
  <2>2. pc \in {"w", "W"} /\ todo = <<>>
    BY <2>1 DEF Writing
  <2>3. IsSeq(data') /\ IsSeq(Chunk)
    BY <2>1, FreadSequence DEF Chunk, EccOnSequences
  <2>4. PICK a : Begins([kind |-> "program", at |-> a, data |-> Chunk], program_page(a, Chunk))
    BY <2>1
  <2>5. op' # NoOp
    BY <2>4 DEF Begins, NoOp
  <2>6. ChunkSize' = ChunkSize
    BY <2>1 DEF ChunkSize
  <2>7. FileHeld'
    BY <2>1, <2>5, <2>6, PageRead DEF FileHeld
  <2>8. Settled' /\ IsSeq(InBuf') /\ mishaps' = mishaps
    BY <1>1, <1>5, <2>1, <2>2, <2>4, NoMove DEF Settled, Begins, Program
  <2> QED BY <1>1, <2>1, <2>3, <2>7, <2>8 DEF FileInv, Buffers
<1>6. CASE ProgramDone
  <2>1. /\ pc \in {"w", "W"} /\ pc' = pc /\ UNCHANGED <<InBuf, mishaps>>
        /\ UNCHANGED <<stopped, startingpage, file, at, eof>>
        /\ op # NoOp /\ op' = NoOp /\ nPage' = nPage + 1
        /\ data' = data \/ data' = Ecc(data)
    BY <1>6 DEF ProgramDone, Returned, bus
  <2> DEFINE size == ChunkSize
             left == nPage - startingpage
  <2>2. /\ nPage \in Nat /\ startingpage <= nPage
        /\ at \in Nat /\ at <= Len(file)
        /\ ~eof => left * size + size <= at
    BY <2>1 DEF FileInv, FileHeld
  <2>3. left \in Nat /\ nPage' - startingpage' = left + 1 /\ size \in Nat
    BY <1>1, <2>1, <2>2, Sizes
  <2>4. ChunkSize' = size
    BY <2>1 DEF ChunkSize
  <2> HIDE DEF left, size
  <2>5. (left + 1) * size = left * size + size
    BY <2>3
  <2>6. ~eof' => (nPage' - startingpage') * ChunkSize' <= at'
    BY <2>1, <2>2, <2>3, <2>4, <2>5
  <2>7. nPage' \in Nat /\ startingpage' <= nPage'
    BY <1>1, <2>1, <2>2
  <2>8. FileHeld' /\ Settled'
    BY <1>1, <2>1, <2>2, <2>6, <2>7 DEF FileHeld, Settled
  <2>9. IsSeq(file') /\ IsSeq(data')
    BY <1>1, <2>1 DEF EccOnSequences
  <2> QED BY <1>1, <2>1, <2>8, <2>9 DEF FileInv, Buffers
<1>7. CASE Overrun
  <2>1. pc' = "dead" /\ UNCHANGED <<startingpage, file, data, mishaps, InBuf>>
    BY <1>7 DEF Overrun, main, bus
  <2> QED BY <1>1, <2>1, FileElsewhere
<1>8. CASE LoopDone
  <2>1. /\ pc \notin {"boot", "dead", "options"} /\ pc' = "options" /\ op = NoOp /\ data' = <<>>
        /\ UNCHANGED <<startingpage, file, mishaps, InBuf, op, stopped>>
    BY <1>8 DEF LoopDone, chip
  <2> QED BY <1>1, <2>1, NoMove, FileElsewhere
<1> QED BY <1>2, <1>3, <1>4, <1>5, <1>6, <1>7, <1>8 DEF Loop

LEMMA FileProcess ==
  ASSUME FileInv, Identified \/ Interrupt \/ Restart
  PROVE  FileInv'
<1>1. startingpage \in Nat /\ IsSeq(file) /\ IsSeq(data) /\ IsSeq(InBuf) /\ IsSeq(mishaps)
  BY DEF FileInv, Buffers, FileHeld
<1>2. CASE Identified
  <2>1. /\ pc' = "options" /\ op' = NoOp /\ stopped' = FALSE
        /\ UNCHANGED <<startingpage, file, data, mishaps, InBuf>>
    BY <1>2 DEF Identified, main, bus
  <2> QED BY <1>1, <2>1, FileElsewhere
<1>3. CASE Interrupt
  <2>1. pc' = "dead" /\ UNCHANGED <<startingpage, file, data, mishaps, InBuf>>
    BY <1>3 DEF Interrupt, main, bus
  <2> QED BY <1>1, <2>1, FileElsewhere
<1>4. CASE Restart
  <2>1. /\ pc' = "boot" /\ startingpage' = Unset /\ data' = <<>> /\ InBuf' = <<>>
        /\ UNCHANGED <<file, mishaps>>
    BY <1>4 DEF Restart, StartsProcess
  <2> QED BY <1>1, <2>1, NoMove, FileElsewhere DEF Unset
<1> QED BY <1>2, <1>3, <1>4

LEMMA Initially ==
  ASSUME Init
  PROVE  IInv
<1>1. Shaped(todo) /\ Turned /\ OutHeld /\ ReHeld
  BY BootHeld DEF Init
<1>2. BusInv
  BY <1>1 DEF Init, BusInv, Held, Apart
<1>3. Buffers
  <2>1. file \in Seq(Byte)
    BY ReaderAssumption DEF Init
  <2> QED BY <2>1, NoMove DEF Init, Buffers, IsSeq
<1>4. Settled /\ FileHeld
  BY DEF Init, Settled, FileHeld, Unset
<1> QED BY <1>2, <1>3, <1>4 DEF IInv, FileInv

\* What went wrong stays so.
LEMMA NoneUndone ==
  ASSUME IsSeq(mishaps), [Next]_vars
  PROVE  /\ \A e : Had(e) => Had(e)'
         /\ mishaps' = <<>> => mishaps' = mishaps
<1>1. mishaps' = mishaps \/ \E k : mishaps' = Append(mishaps, k)
  <2>1. CASE Bus \/ Failure \/ Chip \/ Identified \/ Interrupt \/ Restart \/ Finished
    BY <2>1 DEF Bus, Move, Failure, WriteFails, SampleFails, WaitEndsEarly, WaitFails, Mishap, Chip,
      Identified, Interrupt, Restart, Finished, vars
  <2>2. CASE Option
    BY <2>2 DEF Option, SetErasePage, SetPage, EraseOption, ReadOption, WriteOption, EccOption,
      EndOfLine, TakesOption
  <2>3. CASE Loop
    BY <2>3 DEF Loop, Erase, EraseDone, SkipPage, Program, ProgramDone, Read, ReadDone, Overrun,
      LoopDone
  <2> QED BY <2>1, <2>2, <2>3 DEF Next, vars
<1> QED BY <1>1, MishapsKept

LEMMA Stepwise ==
  ASSUME EccOnSequences, IInv, [Next]_vars
  PROVE  IInv'
<1>1. IsSeq(mishaps) /\ FileInv
  BY DEF IInv, FileInv, Buffers
<1>2. FileInv'
  BY <1>1, FileSteps, FileOption, FileLoop, FileProcess DEF Next, Finished
<1>3. ASSUME ~Had("write")'
      PROVE  BusInv'
  <2>1. BusInv
    BY <1>1, <1>3, NoneUndone DEF IInv
  <2>2. UNCHANGED vars => BusInv'
    BY <2>1, SameBus DEF vars
  <2> QED BY <1>1, <1>3, <2>1, <2>2, BusStepwise
<1> QED BY <1>2, <1>3 DEF IInv

LEMMA Invariant ==
  ASSUME EccOnSequences
  PROVE  Spec => []IInv
<1>1. Init => IInv
  BY Initially
<1>2. IInv /\ [Next]_vars => IInv'
  BY Stepwise
<1> QED BY <1>1, <1>2, PTL DEF Spec

-----------------------------------------------------------------------------
(***************************************************************************)
(* Theorems.                                                               *)
(***************************************************************************)
\* The FTDI and the chip never drive the I/O bus at the same time, not even
\* when a process is killed while the chip drives it and the next one starts:
\* iobus_set_direction comes before nRE falls and after it has risen.  This needs
\* every change of a pin or a direction to reach the chip (NoContention says so),
\* but neither reads that succeed nor waits that wait.
THEOREM OneDriver ==
  ASSUME EccOnSequences
  PROVE  Spec => []NoContention
<1>1. IInv => NoContention
  BY DEF IInv, BusInv, Apart, NoContention
<1> QED BY <1>1, Invariant, PTL

\* -w and -W program no page that begins past the end of the file, whatever the
\* sizes of file and page, however many pages are asked for, and whatever goes
\* wrong on the bus.
THEOREM WritingStops ==
  ASSUME EccOnSequences
  PROVE  Spec => []StopsAtEnd
<1>1. IInv => StopsAtEnd
  BY DEF IInv, FileInv, FileHeld, StopsAtEnd
<1> QED BY <1>1, Invariant, PTL

-----------------------------------------------------------------------------
(***************************************************************************)
(* What is left of a sequence of moves.                                    *)
(***************************************************************************)
LEMMA EmptySequence == IsSeq(<<>>)
BY DEF IsSeq

LEMMA SameSequence ==
  ASSUME NEW s, NEW t, IsSeq(s), IsSeq(t), Len(s) = Len(t), \A i \in 1 .. Len(s) : s[i] = t[i]
  PROVE  s = t
<1>1. PICK S : s \in Seq(S)
  BY DEF IsSeq
<1>2. PICK T : t \in Seq(T)
  BY DEF IsSeq
<1>3. s \in Seq(S \cup T) /\ t \in Seq(S \cup T)
  BY <1>1, <1>2
<1>4. \A S2 : \A x, y \in Seq(S2) :
        Len(x) = Len(y) /\ (\A i \in 1 .. Len(x) : x[i] = y[i]) => x = y
  BY SeqEqual
<1> QED BY <1>3, <1>4

LEMMA LeftIs ==
  ASSUME NEW s, IsSeq(s), NEW j \in Nat, j <= Len(s)
  PROVE  /\ IsSeq(Left(s, j)) /\ Len(Left(s, j)) = Len(s) - j
         /\ \A i \in 1 .. Len(s) - j : Left(s, j)[i] = s[j + i]
<1>1. PICK S : s \in Seq(S)
  BY DEF IsSeq
<1>2. Len(s) \in Nat
  BY <1>1
<1>3. /\ SubSeq(s, j + 1, Len(s)) \in Seq(S)
      /\ Len(SubSeq(s, j + 1, Len(s))) = Len(s) - j
      /\ \A i \in 1 .. Len(s) - j : SubSeq(s, j + 1, Len(s))[i] = s[j + i]
  BY <1>1, <1>2
<1> QED BY <1>3 DEF Left, IsSeq

LEMMA Consed ==
  ASSUME NEW m, NEW r, IsSeq(r)
  PROVE  /\ <<m>> \o r # <<>> /\ IsSeq(<<m>> \o r)
         /\ Head(<<m>> \o r) = m /\ Tail(<<m>> \o r) = r
<1>1. /\ IsSeq(<<m>>) /\ Len(<<m>>) = 1 /\ <<m>>[1] = m
  BY OneMove
<1> DEFINE u == <<m>> \o r
<1>2. /\ IsSeq(u) /\ Len(r) \in Nat /\ Len(u) = 1 + Len(r)
      /\ \A i \in 1 .. 1 : u[i] = <<m>>[i]
      /\ \A i \in 1 .. Len(r) : u[1 + i] = r[i]
  BY <1>1, JoinOf
<1> HIDE DEF u
<1>3. u # <<>> /\ u[1] = m
  BY <1>1, <1>2, LengthOf
<1>4. /\ Head(u) = u[1] /\ IsSeq(Tail(u)) /\ Len(Tail(u)) = Len(u) - 1
      /\ \A i \in 1 .. Len(u) - 1 : Tail(u)[i] = u[i + 1]
  BY <1>2, <1>3, TailOf
<1>5. \A i \in 1 .. Len(r) : Tail(u)[i] = r[i]
  BY <1>2, <1>4
<1> DEFINE w == Tail(u)
<1>6. IsSeq(w) /\ Len(w) = Len(r) /\ \A i \in 1 .. Len(w) : w[i] = r[i]
  BY <1>2, <1>4, <1>5
<1> HIDE DEF w
<1>7. w = r
  BY <1>6, SameSequence
<1> QED BY <1>2, <1>3, <1>4, <1>7 DEF u, w

\* A move is made.
LEMMA FromStep ==
  ASSUME NEW s, NEW r, IsSeq(s), IsSeq(r), NEW j \in Nat, j < Len(s), NEW h, h = j + 1
  PROVE  /\ From(s, j, r) # <<>> /\ IsSeq(From(s, j, r))
         /\ Head(From(s, j, r)) = s[h] /\ Tail(From(s, j, r)) = From(s, h, r)
<1>1. Len(s) \in Nat /\ h \in Nat /\ j <= Len(s) /\ h <= Len(s)
  BY LengthOf
<1>2. PICK a : a = Left(s, j)
  OBVIOUS
<1>3. PICK b : b = Left(s, h)
  OBVIOUS
<1>4. IsSeq(a) /\ Len(a) = Len(s) - j /\ \A i \in 1 .. Len(s) - j : a[i] = s[j + i]
  BY <1>1, <1>2, LeftIs
<1>5. IsSeq(b) /\ Len(b) = Len(s) - h /\ \A i \in 1 .. Len(s) - h : b[i] = s[h + i]
  BY <1>1, <1>3, LeftIs
<1>6. PICK u : u = a \o r
  OBVIOUS
<1>7. PICK v : v = b \o r
  OBVIOUS
<1>8. IsSeq(a) /\ IsSeq(b) /\ IsSeq(r)
  BY <1>4, <1>5
<1>9. /\ IsSeq(u) /\ Len(r) \in Nat /\ Len(a) \in Nat /\ Len(u) = Len(a) + Len(r)
      /\ \A i \in 1 .. Len(a) : u[i] = a[i]
      /\ \A i \in 1 .. Len(r) : u[Len(a) + i] = r[i]
  BY <1>6, <1>8, JoinOf
<1>10. /\ IsSeq(v) /\ Len(b) \in Nat /\ Len(v) = Len(b) + Len(r)
       /\ \A i \in 1 .. Len(b) : v[i] = b[i]
       /\ \A i \in 1 .. Len(r) : v[Len(b) + i] = r[i]
  BY <1>7, <1>8, JoinOf
<1>11. /\ Len(u) = Len(v) + 1 /\ Len(a) = Len(b) + 1 /\ Len(u) # 0 /\ Len(v) \in Nat
       /\ 1 \in 1 .. Len(a)
  BY <1>1, <1>4, <1>5, <1>9, <1>10
<1>12. u # <<>>
  BY <1>9, <1>11, LengthOf
<1>13. /\ Head(u) = u[1] /\ IsSeq(Tail(u)) /\ Len(Tail(u)) = Len(u) - 1
       /\ \A i \in 1 .. Len(u) - 1 : Tail(u)[i] = u[i + 1]
  BY <1>9, <1>12, TailOf
<1>14. Head(u) = s[h]
  BY <1>1, <1>4, <1>9, <1>11, <1>13
<1>15. PICK w : w = Tail(u)
  OBVIOUS
<1>16. ASSUME NEW i \in 1 .. Len(v)
       PROVE  w[i] = v[i]
  <2>1. w[i] = u[i + 1]
    BY <1>11, <1>13, <1>15
  <2>2. CASE i <= Len(b)
    <3>1. i \in 1 .. Len(b) /\ i + 1 \in 1 .. Len(a)
      BY <1>10, <1>11, <2>2
    <3>2. v[i] = b[i] /\ u[i + 1] = a[i + 1]
      BY <1>9, <1>10, <3>1
    <3>3. i + 1 \in 1 .. Len(s) - j /\ i \in 1 .. Len(s) - h /\ j + (i + 1) = h + i
      BY <1>1, <1>4, <1>5, <3>1
    <3>4. a[i + 1] = s[j + (i + 1)] /\ b[i] = s[h + i]
      BY <1>4, <1>5, <3>3
    <3> QED BY <2>1, <3>2, <3>3, <3>4
  <2>3. CASE ~(i <= Len(b))
    <3>1. PICK x : x = i - Len(b)
      OBVIOUS
    <3>2. x \in 1 .. Len(r) /\ i = Len(b) + x /\ i + 1 = Len(a) + x
      BY <1>9, <1>10, <1>11, <2>3, <3>1
    <3>3. v[Len(b) + x] = r[x] /\ u[Len(a) + x] = r[x]
      BY <1>9, <1>10, <3>2
    <3> QED BY <2>1, <3>2, <3>3
  <2> QED BY <2>2, <2>3
<1>17. IsSeq(w) /\ IsSeq(v) /\ Len(w) = Len(v) /\ \A i \in 1 .. Len(w) : w[i] = v[i]
  BY <1>10, <1>11, <1>13, <1>15, <1>16
<1>18. w = v
  BY <1>17, SameSequence
<1>19. From(s, j, r) = u /\ From(s, h, r) = v
  BY ONLY <1>2, <1>3, <1>6, <1>7 DEF From
<1> QED BY ONLY <1>9, <1>12, <1>14, <1>15, <1>18, <1>19

LEMMA FirstStep ==
  ASSUME NEW m, NEW r, IsSeq(r)
  PROVE  /\ First(m, r) # <<>> /\ IsSeq(First(m, r))
         /\ Head(First(m, r)) = m /\ Tail(First(m, r)) = r
BY Consed DEF First

\* Nothing before, and nothing left.
LEMMA NoneBefore ==
  ASSUME NEW r, IsSeq(r)
  PROVE  <<>> \o r = r /\ r \o <<>> = r
<1>1. PICK S : r \in Seq(S)
  BY DEF IsSeq
<1> QED BY <1>1

LEMMA FromEnds ==
  ASSUME NEW s, NEW r, IsSeq(s), IsSeq(r)
  PROVE  /\ From(s, 0, r) = s \o r /\ IsSeq(From(s, 0, r))
         /\ \A n : n = Len(s) => From(s, n, r) = r
<1>1. Len(s) \in Nat
  BY LengthOf
<1>2. PICK a : a = Left(s, 0)
  OBVIOUS
<1>3. IsSeq(a) /\ Len(a) = Len(s) /\ \A i \in 1 .. Len(a) : a[i] = s[i]
  BY <1>1, <1>2, LeftIs
<1>4. a = s
  BY <1>3, SameSequence
<1>5. PICK b : b = Left(s, Len(s))
  OBVIOUS
<1>6. IsSeq(b) /\ Len(b) = 0
  BY <1>1, <1>5, LeftIs
<1>7. b = <<>>
  BY <1>6, LengthOf
<1>8. From(s, 0, r) = s \o r
  BY <1>2, <1>4 DEF From
<1>9. From(s, Len(s), r) = <<>> \o r
  BY <1>5, <1>7 DEF From
<1>10. <<>> \o r = r
  BY NoneBefore
<1>11. IsSeq(s \o r)
  BY JoinOf
<1>12. From(s, Len(s), r) = r
  BY ONLY <1>9, <1>10
<1> QED BY ONLY <1>8, <1>11, <1>12

-----------------------------------------------------------------------------
(***************************************************************************)
(* The moves of the functions, one by one.                                 *)
(***************************************************************************)
LEMMA One ==
  ASSUME NEW x
  PROVE  \E m : m = <<x>> /\ IsSeq(m) /\ Len(m) = 1 /\ m[1] = x
<1>1. IsSeq(<<x>>) /\ Len(<<x>>) = 1 /\ <<x>>[1] = x
  BY OneMove
<1> QED BY <1>1

LEMMA StrobeIs ==
  ASSUME NEW b
  PROVE  \E t : /\ t = Strobe(b) /\ IsSeq(t) /\ Len(t) = 3
                /\ t[1] = PinLow("WE") /\ t[2] = Out(b) /\ t[3] = PinHigh("WE")
<1>1. IsSeq(Strobe(b)) /\ Len(Strobe(b)) = 3
  BY StrobePlain DEF AllPlain, Pin
<1>2. Strobe(b)[1] = PinLow("WE") /\ Strobe(b)[2] = Out(b) /\ Strobe(b)[3] = PinHigh("WE")
  BY DEF Strobe, PinLow, PinHigh, Pin
<1> QED BY <1>1, <1>2

LEMMA AroundIs ==
  ASSUME NEW x, NEW b, NEW y
  PROVE  /\ IsSeq(Around(x, b, y)) /\ Len(Around(x, b, y)) = 5 /\ Around(x, b, y)[1] = x
         /\ Around(x, b, y)[2] = PinLow("WE") /\ Around(x, b, y)[3] = Out(b)
         /\ Around(x, b, y)[4] = PinHigh("WE") /\ Around(x, b, y)[5] = y
<1> DEFINE s == Around(x, b, y)
<1>1. PICK m : m = <<x>> /\ IsSeq(m) /\ Len(m) = 1 /\ m[1] = x
  BY One
<1>2. PICK n : n = <<y>> /\ IsSeq(n) /\ Len(n) = 1 /\ n[1] = y
  BY One
<1>3. PICK t : /\ t = Strobe(b) /\ IsSeq(t) /\ Len(t) = 3
               /\ t[1] = PinLow("WE") /\ t[2] = Out(b) /\ t[3] = PinHigh("WE")
  BY StrobeIs
<1>4. PICK u : u = m \o t
  OBVIOUS
<1>5. IsSeq(m) /\ IsSeq(t) /\ IsSeq(n)
  BY <1>1, <1>2, <1>3
<1>6. /\ IsSeq(u) /\ Len(u) = Len(m) + Len(t)
      /\ \A i \in 1 .. Len(m) : u[i] = m[i]
      /\ \A i \in 1 .. Len(t) : u[Len(m) + i] = t[i]
  BY ONLY <1>4, <1>5, JoinOf
<1>7. IsSeq(u) /\ IsSeq(n) /\ s = u \o n
  BY <1>1, <1>2, <1>3, <1>4, <1>5, <1>6 DEF Around
<1> HIDE DEF s
<1>8. /\ IsSeq(s) /\ Len(s) = Len(u) + Len(n)
      /\ \A i \in 1 .. Len(u) : s[i] = u[i]
      /\ \A i \in 1 .. Len(n) : s[Len(u) + i] = n[i]
  BY ONLY <1>7, JoinOf
<1>9. /\ Len(m) = 1 /\ Len(t) = 3 /\ Len(n) = 1 /\ Len(u) = 4 /\ Len(s) = 5
      /\ 1 \in 1 .. Len(m) /\ 1 \in 1 .. Len(n)
      /\ 1 \in 1 .. Len(t) /\ 2 \in 1 .. Len(t) /\ 3 \in 1 .. Len(t)
      /\ 1 \in 1 .. Len(u) /\ 2 \in 1 .. Len(u) /\ 3 \in 1 .. Len(u) /\ 4 \in 1 .. Len(u)
      /\ Len(m) + 1 = 2 /\ Len(m) + 2 = 3 /\ Len(m) + 3 = 4 /\ Len(u) + 1 = 5
  BY <1>1, <1>2, <1>3, <1>6, <1>8
<1>10. u[1] = m[1] /\ u[Len(m) + 1] = t[1] /\ u[Len(m) + 2] = t[2] /\ u[Len(m) + 3] = t[3]
  BY ONLY <1>6, <1>9
<1>11. s[1] = u[1] /\ s[2] = u[2] /\ s[3] = u[3] /\ s[4] = u[4] /\ s[Len(u) + 1] = n[1]
  BY ONLY <1>8, <1>9
<1>12. t[1] = PinLow("WE") /\ t[2] = Out(b) /\ t[3] = PinHigh("WE")
  BY <1>3
<1>13. m[1] = x /\ n[1] = y
  BY <1>1, <1>2
<1> QED BY ONLY <1>8, <1>9, <1>10, <1>11, <1>12, <1>13 DEF s

LEMMA StrobesOf ==
  ASSUME NEW bs, IsSeq(bs)
  PROVE  /\ IsSeq(Strobes(bs)) /\ Len(bs) \in Nat /\ Len(Strobes(bs)) = 3 * Len(bs)
         /\ HasStrobes(Strobes(bs), 0, bs)
<1>1. Len(bs) \in Nat /\ DOMAIN bs = 1 .. Len(bs)
  <2>1. PICK S : bs \in Seq(S)
    BY DEF IsSeq
  <2> QED BY <2>1
<1>2. PICK ss : ss = [i \in 1 .. Len(bs) |-> Strobe(bs[i])]
  OBVIOUS
<1>3. ss = [i \in 1 .. Len(bs) |-> ss[i]]
  BY <1>2
<1>4. IsSeq(ss) /\ Len(ss) = Len(bs)
  BY <1>1, <1>3, AnyFunction
<1>5. PICK f : f = Concat(ss)
  OBVIOUS
<1>6. IsSeq(f) /\ Len(f) = 3 * Len(bs)
  BY <1>4, <1>5, ConcatOf
<1>7. f = [i \in 1 .. 3 * Len(bs) |-> ss[(i + 2) \div 3][1 + ((i + 2) % 3)]]
  BY <1>4, <1>5 DEF Concat
<1>8. ASSUME NEW i \in 0 .. Len(bs) - 1
      PROVE  /\ f[0 + 3 * i + 1] = PinLow("WE")
             /\ f[0 + 3 * i + 2] = Out(bs[i + 1])
             /\ f[0 + 3 * i + 3] = PinHigh("WE")
  <2>1. i + 1 \in 1 .. Len(bs)
    BY <1>1
  <2>2. PICK t : /\ t = Strobe(bs[i + 1]) /\ IsSeq(t) /\ Len(t) = 3
                 /\ t[1] = PinLow("WE") /\ t[2] = Out(bs[i + 1]) /\ t[3] = PinHigh("WE")
    BY StrobeIs
  <2>3. ss[i + 1] = t
    BY <1>2, <2>1, <2>2
  <2>4. t[1] = PinLow("WE") /\ t[2] = Out(bs[i + 1]) /\ t[3] = PinHigh("WE")
    BY <2>2
  <2>5. ASSUME NEW k \in 1 .. 3, NEW x, x = 0 + 3 * i + k
        PROVE  f[x] = t[k]
    <3>1. x \in 1 .. 3 * Len(bs) /\ (x + 2) \div 3 = i + 1 /\ 1 + ((x + 2) % 3) = k
      BY <1>1, <2>5
    <3>2. f[x] = ss[(x + 2) \div 3][1 + ((x + 2) % 3)]
      BY <1>7, <3>1
    <3> QED BY <2>3, <3>1, <3>2
  <2>6. f[0 + 3 * i + 1] = t[1]
    BY <2>5
  <2>7. f[0 + 3 * i + 2] = t[2]
    BY <2>5
  <2>8. f[0 + 3 * i + 3] = t[3]
    BY <2>5
  <2> QED BY <2>4, <2>6, <2>7, <2>8
<1>9. Strobes(bs) = f
  BY <1>1, <1>2, <1>5 DEF Strobes
<1>10. 0 + 3 * Len(bs) <= Len(f)
  BY <1>1, <1>6
<1>11. HasStrobes(f, 0, bs)
  BY <1>8, <1>10 DEF HasStrobes
<1> QED BY <1>1, <1>6, <1>9, <1>11

\* A move before, and one after.
LEMMA LedIs ==
  ASSUME NEW bs, IsSeq(bs), NEW x
  PROVE  /\ IsSeq(Led(x, bs)) /\ Len(Led(x, bs)) = 3 * Len(bs) + 1 /\ Led(x, bs)[1] = x
         /\ HasStrobes(Led(x, bs), 1, bs) /\ Len(bs) \in Nat
<1> DEFINE s == Led(x, bs)
<1>1. PICK m : m = <<x>> /\ IsSeq(m) /\ Len(m) = 1 /\ m[1] = x
  BY One
<1>2. PICK t : /\ t = Strobes(bs) /\ IsSeq(t) /\ Len(bs) \in Nat /\ Len(t) = 3 * Len(bs)
               /\ HasStrobes(t, 0, bs)
  BY StrobesOf
<1>3. IsSeq(m) /\ IsSeq(t) /\ s = m \o t
  BY <1>1, <1>2 DEF Led
<1> HIDE DEF s
<1>4. /\ IsSeq(s) /\ Len(s) = Len(m) + Len(t)
      /\ \A i \in 1 .. Len(m) : s[i] = m[i]
      /\ \A i \in 1 .. Len(t) : s[Len(m) + i] = t[i]
  BY ONLY <1>3, JoinOf
<1>5. /\ Len(bs) \in Nat /\ Len(s) = 3 * Len(bs) + 1 /\ s[1] = x
      /\ \A i \in 1 .. 3 * Len(bs) : s[1 + i] = t[i]
  BY <1>1, <1>2, <1>4
<1>6. ASSUME NEW i \in 0 .. Len(bs) - 1
      PROVE  /\ s[1 + 3 * i + 1] = PinLow("WE")
             /\ s[1 + 3 * i + 2] = Out(bs[i + 1])
             /\ s[1 + 3 * i + 3] = PinHigh("WE")
  <2>1. /\ 0 + 3 * i + 1 \in 1 .. 3 * Len(bs) /\ 1 + (0 + 3 * i + 1) = 1 + 3 * i + 1
        /\ 0 + 3 * i + 2 \in 1 .. 3 * Len(bs) /\ 1 + (0 + 3 * i + 2) = 1 + 3 * i + 2
        /\ 0 + 3 * i + 3 \in 1 .. 3 * Len(bs) /\ 1 + (0 + 3 * i + 3) = 1 + 3 * i + 3
    BY <1>5
  <2>2. s[1 + (0 + 3 * i + 1)] = t[0 + 3 * i + 1]
    BY <1>5, <2>1
  <2>3. s[1 + (0 + 3 * i + 2)] = t[0 + 3 * i + 2]
    BY <1>5, <2>1
  <2>4. s[1 + (0 + 3 * i + 3)] = t[0 + 3 * i + 3]
    BY <1>5, <2>1
  <2>5. HasStrobes(t, 0, bs)
    BY <1>2
  <2>6. /\ t[0 + 3 * i + 1] = PinLow("WE") /\ t[0 + 3 * i + 2] = Out(bs[i + 1])
        /\ t[0 + 3 * i + 3] = PinHigh("WE")
    BY <2>5 DEF HasStrobes
  <2> QED BY <2>1, <2>2, <2>3, <2>4, <2>6
<1>7. 1 + 3 * Len(bs) <= Len(s)
  BY <1>5
<1>8. HasStrobes(s, 1, bs)
  BY <1>6, <1>7 DEF HasStrobes
<1> QED BY ONLY <1>4, <1>5, <1>8 DEF s

LEMMA EnclosedIs ==
  ASSUME NEW bs, IsSeq(bs), NEW x, NEW y
  PROVE  /\ IsSeq(Enclosed(x, bs, y)) /\ Len(Enclosed(x, bs, y)) = 3 * Len(bs) + 2
         /\ Enclosed(x, bs, y)[1] = x /\ Enclosed(x, bs, y)[3 * Len(bs) + 2] = y
         /\ HasStrobes(Enclosed(x, bs, y), 1, bs) /\ Len(bs) \in Nat
<1> DEFINE s == Enclosed(x, bs, y)
<1>1. PICK h : h = Led(x, bs)
  OBVIOUS
<1>2. /\ IsSeq(h) /\ Len(h) = 3 * Len(bs) + 1 /\ h[1] = x /\ HasStrobes(h, 1, bs) /\ Len(bs) \in Nat
  BY <1>1, LedIs
<1>3. PICK m : m = <<y>> /\ IsSeq(m) /\ Len(m) = 1 /\ m[1] = y
  BY One
<1>4. IsSeq(h) /\ IsSeq(m) /\ s = h \o m
  BY <1>1, <1>2, <1>3 DEF Led, Enclosed
<1> HIDE DEF s
<1>5. /\ IsSeq(s) /\ Len(s) = Len(h) + Len(m) /\ Len(h) \in Nat
      /\ \A i \in 1 .. Len(h) : s[i] = h[i]
      /\ \A i \in 1 .. Len(m) : s[Len(h) + i] = m[i]
  BY ONLY <1>4, JoinOf
<1>6. Len(s) = 3 * Len(bs) + 2 /\ s[1] = x /\ s[3 * Len(bs) + 2] = y
  <2>1. Len(m) = 1 /\ m[1] = y
    BY <1>3
  <2>2. /\ Len(h) + 1 = 3 * Len(bs) + 2 /\ 1 \in 1 .. Len(h) /\ 1 \in 1 .. Len(m)
        /\ Len(s) = 3 * Len(bs) + 2
    BY ONLY <1>2, <1>5, <2>1
  <2>3. s[1] = h[1] /\ s[Len(h) + 1] = m[1]
    BY ONLY <1>5, <2>2
  <2> QED BY ONLY <1>2, <2>1, <2>2, <2>3
<1>7. Len(bs) \in Nat /\ 1 + 3 * Len(bs) <= Len(h)
  BY ONLY <1>2
<1>8. ASSUME NEW i \in 0 .. Len(bs) - 1
      PROVE  /\ s[1 + 3 * i + 1] = PinLow("WE")
             /\ s[1 + 3 * i + 2] = Out(bs[i + 1])
             /\ s[1 + 3 * i + 3] = PinHigh("WE")
  <2>1. /\ 1 + 3 * i + 1 \in 1 .. Len(h) /\ 1 + 3 * i + 2 \in 1 .. Len(h)
        /\ 1 + 3 * i + 3 \in 1 .. Len(h)
    BY <1>5, <1>7
  <2>2. s[1 + 3 * i + 1] = h[1 + 3 * i + 1]
    BY <1>5, <2>1
  <2>3. s[1 + 3 * i + 2] = h[1 + 3 * i + 2]
    BY <1>5, <2>1
  <2>4. s[1 + 3 * i + 3] = h[1 + 3 * i + 3]
    BY <1>5, <2>1
  <2>5. /\ h[1 + 3 * i + 1] = PinLow("WE") /\ h[1 + 3 * i + 2] = Out(bs[i + 1])
        /\ h[1 + 3 * i + 3] = PinHigh("WE")
    BY ONLY <1>2, i \in 0 .. Len(bs) - 1 DEF HasStrobes
  <2> QED BY <2>2, <2>3, <2>4, <2>5
<1>9. 1 + 3 * Len(bs) <= Len(s)
  BY <1>5, <1>6, <1>7
<1>10. HasStrobes(s, 1, bs)
  BY <1>8, <1>9 DEF HasStrobes
<1> QED BY ONLY <1>5, <1>6, <1>7, <1>10 DEF s

-----------------------------------------------------------------------------
LEMMA CommandIs ==
  ASSUME NEW c
  PROVE  /\ IsSeq(latch_command(<<c>>)) /\ Len(latch_command(<<c>>)) = 5
         /\ HasCommand(latch_command(<<c>>), c)
<1>1. PICK h : h = Around(PinHigh("CLE"), c, PinLow("CLE"))
  OBVIOUS
<1>2. /\ IsSeq(h) /\ Len(h) = 5 /\ h[1] = PinHigh("CLE") /\ h[2] = PinLow("WE")
      /\ h[3] = Out(c) /\ h[4] = PinHigh("WE") /\ h[5] = PinLow("CLE")
  BY <1>1, AroundIs
<1>3. latch_command(<<c>>) = h \o <<>>
  <2>1. Len(<<c>>) = 1 /\ <<c>>[1] = c
    OBVIOUS
  <2> QED BY <1>1, <2>1 DEF latch_command, Around, PinHigh, PinLow, Pin
<1>4. h \o <<>> = h
  BY ONLY <1>2, NoneBefore
<1>5. latch_command(<<c>>) = h
  BY ONLY <1>3, <1>4
<1> QED BY ONLY <1>2, <1>5 DEF HasCommand

LEMMA EccTailIs ==
  /\ IsSeq(EccTail) /\ Len(EccTail) = 5
  /\ EccTail[1] = PinHigh("ALE") /\ EccTail[5] = PinLow("ALE")
  /\ HasStrobes(EccTail, 1, <<144>>) /\ IsSeq(<<144>>) /\ Len(<<144>>) = 1
<1>1. PICK s : s = EccTail
  OBVIOUS
<1>2. /\ IsSeq(s) /\ Len(s) = 5 /\ s[1] = PinHigh("ALE") /\ s[2] = PinLow("WE")
      /\ s[3] = Out(144) /\ s[4] = PinHigh("WE") /\ s[5] = PinLow("ALE")
  BY <1>1, AroundIs DEF EccTail
<1>3. PICK b : b = <<144>> /\ IsSeq(b) /\ Len(b) = 1 /\ b[1] = 144
  BY One
<1>4. IsSeq(b) /\ Len(b) = 1 /\ b[1] = 144
  BY <1>3
<1>5. HasStrobes(s, 1, b)
  <2>1. ASSUME NEW i \in 0 .. Len(b) - 1
        PROVE  /\ s[1 + 3 * i + 1] = PinLow("WE")
               /\ s[1 + 3 * i + 2] = Out(b[i + 1])
               /\ s[1 + 3 * i + 3] = PinHigh("WE")
    <3>1. i = 0
      BY ONLY <1>4, i \in 0 .. Len(b) - 1
    <3>2. 1 + 3 * i + 1 = 2 /\ 1 + 3 * i + 2 = 3 /\ 1 + 3 * i + 3 = 4 /\ i + 1 = 1
      BY ONLY <3>1
    <3> QED BY ONLY <1>2, <1>4, <3>2
  <2>2. 1 + 3 * Len(b) <= Len(s)
    BY ONLY <1>2, <1>4
  <2> QED BY ONLY <2>1, <2>2 DEF HasStrobes
<1>6. b = <<144>>
  BY <1>3
<1> QED BY ONLY <1>1, <1>2, <1>4, <1>5, <1>6

LEMMA IdMovesAre ==
  /\ IsSeq(IdMoves) /\ Len(IdMoves) = 10 /\ HasCommand(IdMoves, CMD_READID)
  /\ IdMoves[6] = PinHigh("ALE") /\ IdMoves[10] = PinLow("ALE")
  /\ HasStrobes(IdMoves, 6, <<0>>) /\ IsSeq(<<0>>) /\ Len(<<0>>) = 1
<1>1. PICK s : s = IdMoves
  OBVIOUS
<1>2. PICK h : h = Around(PinHigh("CLE"), CMD_READID, PinLow("CLE"))
  OBVIOUS
<1>3. PICK g : g = Around(PinHigh("ALE"), 0, PinLow("ALE"))
  OBVIOUS
<1>4. /\ IsSeq(h) /\ Len(h) = 5 /\ h[1] = PinHigh("CLE") /\ h[2] = PinLow("WE")
      /\ h[3] = Out(CMD_READID) /\ h[4] = PinHigh("WE") /\ h[5] = PinLow("CLE")
  BY ONLY <1>2, AroundIs
<1>5. /\ IsSeq(g) /\ Len(g) = 5 /\ g[1] = PinHigh("ALE") /\ g[2] = PinLow("WE")
      /\ g[3] = Out(0) /\ g[4] = PinHigh("WE") /\ g[5] = PinLow("ALE")
  BY ONLY <1>3, AroundIs
<1>6. s = h \o g
  <2>1. Len(<<CMD_READID, 0>>) = 2 /\ <<CMD_READID, 0>>[1] = CMD_READID /\ <<CMD_READID, 0>>[2] = 0
    OBVIOUS
  <2> QED BY <1>1, <1>2, <1>3, <2>1 DEF latch_command, IdMoves, Around, PinHigh, PinLow, Pin
<1>7. IsSeq(h) /\ IsSeq(g)
  BY ONLY <1>4, <1>5
<1>8. /\ IsSeq(s) /\ Len(s) = Len(h) + Len(g)
      /\ \A i \in 1 .. Len(h) : s[i] = h[i]
      /\ \A i \in 1 .. Len(g) : s[Len(h) + i] = g[i]
  BY ONLY <1>6, <1>7, JoinOf
<1>9. /\ Len(h) = 5 /\ Len(g) = 5 /\ Len(s) = 10
      /\ \A i \in 1 .. 5 : s[i] = h[i]
      /\ \A i \in 1 .. 5 : s[5 + i] = g[i]
  BY ONLY <1>4, <1>5, <1>8
<1>10. s[1] = h[1] /\ s[2] = h[2] /\ s[3] = h[3] /\ s[4] = h[4] /\ s[5] = h[5]
  BY ONLY <1>9
<1>11. /\ s[5 + 1] = g[1] /\ s[5 + 2] = g[2] /\ s[5 + 3] = g[3] /\ s[5 + 4] = g[4]
       /\ s[5 + 5] = g[5]
  BY ONLY <1>9
<1>12. s[6] = g[1] /\ s[7] = g[2] /\ s[8] = g[3] /\ s[9] = g[4] /\ s[10] = g[5]
  <2>1. /\ 5 + 1 = 6 /\ 5 + 2 = 7 /\ 5 + 3 = 8 /\ 5 + 4 = 9 /\ 5 + 5 = 10
    OBVIOUS
  <2> QED BY ONLY <1>11, <2>1
<1>13. HasCommand(s, CMD_READID)
  <2>1. 5 <= Len(s)
    BY ONLY <1>9
  <2> QED BY ONLY <1>4, <1>10, <2>1 DEF HasCommand
<1>14. PICK b : b = <<0>> /\ IsSeq(b) /\ Len(b) = 1 /\ b[1] = 0
  BY One
<1>15. IsSeq(b) /\ Len(b) = 1 /\ b[1] = 0
  BY <1>14
<1>16. HasStrobes(s, 6, b)
  <2>1. ASSUME NEW i \in 0 .. Len(b) - 1
        PROVE  /\ s[6 + 3 * i + 1] = PinLow("WE")
               /\ s[6 + 3 * i + 2] = Out(b[i + 1])
               /\ s[6 + 3 * i + 3] = PinHigh("WE")
    <3>1. i = 0
      BY ONLY <1>15, i \in 0 .. Len(b) - 1
    <3>2. 6 + 3 * i + 1 = 7 /\ 6 + 3 * i + 2 = 8 /\ 6 + 3 * i + 3 = 9 /\ i + 1 = 1
      BY ONLY <3>1
    <3> QED BY ONLY <1>5, <1>12, <1>15, <3>2
  <2>2. 6 + 3 * Len(b) <= Len(s)
    BY ONLY <1>9, <1>15
  <2> QED BY ONLY <2>1, <2>2 DEF HasStrobes
<1>17. b = <<0>>
  BY <1>14
<1> QED BY ONLY <1>1, <1>5, <1>8, <1>9, <1>12, <1>13, <1>15, <1>16, <1>17

LEMMA ReadIs ==
  ASSUME NEW n \in Nat, NEW s, s = read_data(n)
  PROVE  /\ IsSeq(s) /\ Len(s) = 3 * n + 2 /\ s[1] = Input /\ s[3 * n + 2] = Output
         /\ \A i \in 0 .. n - 1 :
              /\ s[3 * i + 2] = PinLow("RE")
              /\ s[3 * i + 3] = Sample
              /\ s[3 * i + 4] = PinHigh("RE")
<1>1. PICK bytes : bytes = [i \in 1 .. n |-> ReadByte]
  OBVIOUS
<1>2. IsSeq(bytes) /\ Len(bytes) = n
  <2>1. bytes = [i \in 1 .. n |-> bytes[i]]
    BY <1>1
  <2> QED BY <2>1, AnyFunction
<1>3. PICK t : t = Concat(bytes)
  OBVIOUS
<1>4. IsSeq(t) /\ Len(t) = 3 * n
  BY <1>2, <1>3, ConcatOf
<1>5. t = [i \in 1 .. 3 * n |-> bytes[(i + 2) \div 3][1 + ((i + 2) % 3)]]
  BY <1>2, <1>3 DEF Concat
<1>6. PICK r : r = ReadByte /\ r[1] = PinLow("RE") /\ r[2] = Sample /\ r[3] = PinHigh("RE")
  <2>1. /\ ReadByte[1] = PinLow("RE") /\ ReadByte[2] = Sample
        /\ ReadByte[3] = PinHigh("RE")
    BY DEF ReadByte, PinLow, PinHigh, Pin
  <2> QED BY <2>1
<1>7. ASSUME NEW i \in 0 .. n - 1, NEW k \in 1 .. 3, NEW x, x = 3 * i + k
      PROVE  x \in 1 .. 3 * n /\ t[x] = r[k]
  <2>1. /\ x \in 1 .. 3 * n /\ (x + 2) \div 3 = i + 1 /\ 1 + ((x + 2) % 3) = k
        /\ i + 1 \in 1 .. n
    BY <1>7
  <2>2. t[x] = bytes[(x + 2) \div 3][1 + ((x + 2) % 3)]
    BY <1>5, <2>1
  <2>3. bytes[i + 1] = r
    BY <1>1, <1>6, <2>1
  <2> QED BY <2>1, <2>2, <2>3
<1>8. PICK a : a = <<Input>> /\ IsSeq(a) /\ Len(a) = 1 /\ a[1] = Input
  BY One
<1>9. PICK b : b = <<Output>> /\ IsSeq(b) /\ Len(b) = 1 /\ b[1] = Output
  BY One
<1>10. PICK h : h = a \o t
  OBVIOUS
<1>11. IsSeq(a) /\ IsSeq(t) /\ IsSeq(b)
  BY ONLY <1>4, <1>8, <1>9
<1>12. /\ IsSeq(h) /\ Len(h) = Len(a) + Len(t)
       /\ \A i \in 1 .. Len(a) : h[i] = a[i]
       /\ \A i \in 1 .. Len(t) : h[Len(a) + i] = t[i]
  BY ONLY <1>10, <1>11, JoinOf
<1>13. IsSeq(h) /\ IsSeq(b) /\ s = h \o b
  BY <1>1, <1>3, <1>8, <1>9, <1>10, <1>11, <1>12 DEF read_data
<1>14. /\ IsSeq(s) /\ Len(s) = Len(h) + Len(b)
       /\ \A i \in 1 .. Len(h) : s[i] = h[i]
       /\ \A i \in 1 .. Len(b) : s[Len(h) + i] = b[i]
  BY ONLY <1>13, JoinOf
<1>15. /\ n \in Nat /\ Len(h) = 3 * n + 1 /\ Len(s) = 3 * n + 2
       /\ \A i \in 1 .. 3 * n : h[1 + i] = t[i]
       /\ \A i \in 1 .. 3 * n + 1 : s[i] = h[i]
       /\ 1 \in 1 .. Len(a) /\ 1 \in 1 .. Len(b) /\ 1 \in 1 .. 3 * n + 1
  BY ONLY <1>4, <1>8, <1>9, <1>12, <1>14, n \in Nat
<1>16. s[1] = Input
  BY ONLY <1>8, <1>12, <1>15
<1>17. s[3 * n + 2] = Output
  <2>1. s[Len(h) + 1] = b[1] /\ Len(h) + 1 = 3 * n + 2
    BY ONLY <1>14, <1>15
  <2> QED BY ONLY <1>9, <2>1
<1>18. ASSUME NEW i \in 0 .. n - 1
       PROVE  /\ s[3 * i + 2] = PinLow("RE") /\ s[3 * i + 3] = Sample
              /\ s[3 * i + 4] = PinHigh("RE")
  <2>1. ASSUME NEW k \in 1 .. 3, NEW x, x = 3 * i + k, NEW y, y = 1 + x
        PROVE  s[y] = r[k]
    <3>1. x \in 1 .. 3 * n /\ t[x] = r[k]
      BY <1>7, <2>1
    <3>2. y \in 1 .. 3 * n + 1
      BY <1>15, <2>1, <3>1
    <3>3. h[1 + x] = t[x] /\ s[y] = h[y]
      BY ONLY <1>15, <3>1, <3>2
    <3> QED BY ONLY <2>1, <3>1, <3>3
  <2>2. s[1 + (3 * i + 1)] = r[1]
    BY ONLY <2>1, 1 \in 1 .. 3
  <2>3. s[1 + (3 * i + 2)] = r[2]
    BY ONLY <2>1, 2 \in 1 .. 3
  <2>4. s[1 + (3 * i + 3)] = r[3]
    BY ONLY <2>1, 3 \in 1 .. 3
  <2>5. 1 + (3 * i + 1) = 3 * i + 2 /\ 1 + (3 * i + 2) = 3 * i + 3 /\ 1 + (3 * i + 3) = 3 * i + 4
    OBVIOUS
  <2>6. s[3 * i + 2] = r[1] /\ s[3 * i + 3] = r[2] /\ s[3 * i + 4] = r[3]
    BY ONLY <2>2, <2>3, <2>4, <2>5
  <2> QED BY ONLY <1>6, <2>6
<1> QED BY ONLY <1>14, <1>15, <1>16, <1>17, <1>18

\* The bytes of an address.
LEMMA ThreeMoves ==
  ASSUME NEW x, NEW y, NEW z
  PROVE  /\ IsSeq(<<x, y, z>>) /\ Len(<<x, y, z>>) = 3
         /\ <<x, y, z>>[1] = x /\ <<x, y, z>>[2] = y /\ <<x, y, z>>[3] = z
<1>1. <<x, y, z>> \in Seq({x, y, z})
  OBVIOUS
<1> QED BY <1>1 DEF IsSeq

RowNumber(a) == RowStep * (a \div ColSpan)

LEMMA ColumnBytesAre ==
  ASSUME NEW a \in Nat
  PROVE  /\ IsSeq(ColumnBytes(a)) /\ Len(ColumnBytes(a)) = 2
         /\ ColumnBytes(a)[1] = (a % ColSpan) % 256 /\ ColumnBytes(a)[2] = (a % ColSpan) \div 256
<1>1. PICK x : x = (a % ColSpan) % 256
  OBVIOUS
<1>2. PICK y : y = (a % ColSpan) \div 256
  OBVIOUS
<1>3. PICK s : s = <<x, y>>
  OBVIOUS
<1>4. IsSeq(s) /\ Len(s) = 2 /\ s[1] = x /\ s[2] = y
  <2>1. s \in Seq({x, y})
    BY <1>3
  <2> QED BY <1>3, <2>1 DEF IsSeq
<1>5. ColumnBytes(a) = s
  BY <1>1, <1>2, <1>3 DEF ColumnBytes
<1> QED BY ONLY <1>1, <1>2, <1>4, <1>5

LEMMA RowBytesAre ==
  ASSUME NEW a \in Nat
  PROVE  /\ IsSeq(RowBytes(a)) /\ Len(RowBytes(a)) \in 2 .. 3
         /\ Len(RowBytes(a)) = IF Nand.type = "MT29" THEN 2 ELSE 3
         /\ RowBytes(a)[1] = RowNumber(a) % 256
         /\ RowBytes(a)[2] = (RowNumber(a) \div 256) % 256
         /\ Nand.type # "MT29" =>
              RowBytes(a)[3] = (RowNumber(a) \div 65536) % (IF Nand.type = "S34" THEN 4 ELSE 16)
<1>1. PICK r : r = RowNumber(a)
  OBVIOUS
<1>2. PICK x : x = r % 256
  OBVIOUS
<1>3. PICK y : y = (r \div 256) % 256
  OBVIOUS
<1>4. PICK z : z = (r \div 256^2) % (IF Nand.type = "S34" THEN 4 ELSE 16)
  OBVIOUS
<1>5. PICK s : s = <<x, y, z>>
  OBVIOUS
<1>6. IsSeq(s) /\ Len(s) = 3 /\ s[1] = x /\ s[2] = y /\ s[3] = z
  BY <1>5, ThreeMoves
<1>7. PICK u : u = SubSeq(s, 1, 2)
  OBVIOUS
<1>8. IsSeq(u) /\ Len(u) = 2 /\ u[1] = x /\ u[2] = y
  <2>1. PICK S : s \in Seq(S)
    BY <1>6 DEF IsSeq
  <2>2. u \in Seq(S) /\ Len(u) = 2 /\ u[1] = s[1] /\ u[2] = s[2]
    BY <1>6, <1>7, <2>1
  <2> QED BY <1>6, <2>2 DEF IsSeq
<1>9. RowBytes(a) = IF Nand.type = "MT29" THEN u ELSE s
  BY <1>1, <1>2, <1>3, <1>4, <1>5, <1>7 DEF RowBytes, RowNumber
<1>10. 256^2 = 65536
  OBVIOUS
<1>11. z = (r \div 65536) % (IF Nand.type = "S34" THEN 4 ELSE 16)
  BY ONLY <1>4, <1>10
<1>12. CASE Nand.type = "MT29"
  <2>1. RowBytes(a) = u
    BY ONLY <1>9, <1>12
  <2>2. Len(u) \in 2 .. 3
    BY ONLY <1>8
  <2> QED BY ONLY <1>1, <1>2, <1>3, <1>8, <1>12, <2>1, <2>2
<1>13. CASE Nand.type # "MT29"
  <2>1. RowBytes(a) = s
    BY ONLY <1>9, <1>13
  <2>2. Len(s) \in 2 .. 3
    BY ONLY <1>6
  <2> QED BY ONLY <1>1, <1>2, <1>3, <1>6, <1>11, <1>13, <2>1, <2>2
<1> QED BY ONLY <1>12, <1>13

LEMMA ColumnMoves ==
  ASSUME NEW a \in Nat
  PROVE  /\ IsSeq(setcolumns(a)) /\ Len(setcolumns(a)) = 7
         /\ setcolumns(a)[1] = PinHigh("ALE") /\ HasStrobes(setcolumns(a), 1, ColumnBytes(a))
<1>1. PICK b : b = ColumnBytes(a)
  OBVIOUS
<1>2. IsSeq(b) /\ Len(b) = 2
  BY <1>1, ColumnBytesAre
<1>3. setcolumns(a) = Led(PinHigh("ALE"), b)
  BY <1>1 DEF setcolumns, Led, ColumnBytes, PinHigh, Pin
<1>4. PICK s : s = Led(PinHigh("ALE"), b)
  OBVIOUS
<1>5. IsSeq(s) /\ Len(s) = 3 * Len(b) + 1 /\ s[1] = PinHigh("ALE") /\ HasStrobes(s, 1, b)
  BY ONLY <1>2, <1>4, LedIs
<1>6. Len(s) = 7
  BY ONLY <1>2, <1>5
<1> QED BY ONLY <1>1, <1>3, <1>4, <1>5, <1>6

LEMMA RowMoves ==
  ASSUME NEW a \in Nat
  PROVE  /\ IsSeq(setrows(a)) /\ Len(setrows(a)) = 3 * Len(RowBytes(a)) + 2
         /\ setrows(a)[1] = PinHigh("ALE") /\ setrows(a)[3 * Len(RowBytes(a)) + 2] = PinLow("ALE")
         /\ HasStrobes(setrows(a), 1, RowBytes(a))
<1>1. PICK b : b = RowBytes(a)
  OBVIOUS
<1>2. IsSeq(b)
  BY <1>1, RowBytesAre
<1>3. setrows(a) = Enclosed(PinHigh("ALE"), b, PinLow("ALE"))
  BY <1>1 DEF setrows, Enclosed, PinHigh, PinLow, Pin
<1>4. PICK s : s = Enclosed(PinHigh("ALE"), b, PinLow("ALE"))
  OBVIOUS
<1>5. /\ IsSeq(s) /\ Len(s) = 3 * Len(b) + 2 /\ s[1] = PinHigh("ALE")
      /\ s[3 * Len(b) + 2] = PinLow("ALE") /\ HasStrobes(s, 1, b)
  BY ONLY <1>2, <1>4, EnclosedIs
<1> QED BY ONLY <1>1, <1>3, <1>4, <1>5

LEMMA DataMoves ==
  ASSUME NEW d, IsSeq(d)
  PROVE  /\ IsSeq(latch_data_out(d)) /\ Len(latch_data_out(d)) = 3 * Len(d) /\ Len(d) \in Nat
         /\ HasStrobes(latch_data_out(d), 0, d)
BY StrobesOf DEF latch_data_out

-----------------------------------------------------------------------------
(***************************************************************************)
(* What the next move does.                                                *)
(***************************************************************************)
LEMMA MovesPin ==
  ASSUME Moves, Head(todo).do = "pin"
  PROVE  SetPin
BY DEF Moves, Enter, SetShadow, Drive, Release, Samples, Store, Look

\* The pins become T, and the chip sees its edges.
PinsBecome(T) ==
  /\ shadow' = T /\ pins' = T /\ io' = io /\ InBuf' = InBuf /\ todo' = Tail(todo)
  /\ "CE" \notin pins /\ "WE" \notin pins /\ "WE" \in T /\ io # -1 => Latch(T, io)
  /\ ("WE" \in pins \/ "WE" \notin T) /\ ("RE" \notin pins \/ "RE" \in T) => UNCHANGED chip
  /\ "CE" \notin pins /\ ("WE" \in pins \/ "WE" \notin T) /\ "RE" \in pins /\ "RE" \notin T =>
       ClockOut /\ out' \in Driven
  /\ "RE" \in T => out' = -1

LEMMA PinMoves ==
  ASSUME SetPin, NEW T, T = Set(shadow, Head(todo).pin, Head(todo).val)
  PROVE  PinsBecome(T)
<1>1. /\ shadow' = T /\ pins' = T /\ io' = io /\ InBuf' = InBuf /\ todo' = Tail(todo)
      /\ IF Selected /\ Rises(pins, T, "WE") THEN \E b \in OnBus : Latch(T, b)
         ELSE IF Selected /\ Rises(T, pins, "RE") THEN ClockOut
         ELSE UNCHANGED chip
      /\ out' \in IF Selected /\ Rises(T, pins, "RE") THEN Driven
                  ELSE IF "RE" \in T THEN {-1} ELSE {out}
  BY DEF SetPin
<1>2. "CE" \notin pins /\ "WE" \notin pins /\ "WE" \in T /\ io # -1 => Latch(T, io)
  BY <1>1 DEF Selected, Rises, OnBus
<1> QED BY <1>1, <1>2 DEF Selected, Rises, PinsBecome

LEMMA OutMove ==
  ASSUME Moves, NEW b, Head(todo) = Out(b)
  PROVE  io' = b /\ todo' = Tail(todo) /\ UNCHANGED <<shadow, pins, out, InBuf, chip>>
<1>1. Head(todo).do = "out" /\ Head(todo).byte = b
  BY DEF Out
<1> QED BY <1>1 DEF Moves, Enter, SetShadow, SetPin, Drive, Release, Samples, Store, Look

LEMMA ShadowRise ==
  ASSUME Moves, NEW p, Head(todo) = ShadowHigh(p)
  PROVE  shadow' = shadow \cup {p} /\ todo' = Tail(todo) /\ UNCHANGED <<pins, io, out, InBuf, chip>>
<1>1. Head(todo).do = "shadow" /\ Head(todo).pin = p /\ Head(todo).val
  BY DEF ShadowHigh, Shadow
<1> QED BY <1>1 DEF Set, Moves, Enter, SetShadow, SetPin, Drive, Release, Samples, Store, Look

LEMMA ShadowFall ==
  ASSUME Moves, NEW p, Head(todo) = ShadowLow(p)
  PROVE  shadow' = shadow \ {p} /\ todo' = Tail(todo) /\ UNCHANGED <<pins, io, out, InBuf, chip>>
<1>1. Head(todo).do = "shadow" /\ Head(todo).pin = p /\ ~Head(todo).val
  BY DEF ShadowLow, Shadow
<1> QED BY <1>1 DEF Set, Moves, Enter, SetShadow, SetPin, Drive, Release, Samples, Store, Look

LEMMA InputMove ==
  ASSUME Moves, Head(todo) = Input
  PROVE  io' = -1 /\ todo' = Tail(todo) /\ UNCHANGED <<shadow, pins, out, InBuf, chip>>
<1>1. Head(todo).do = "in"
  BY DEF Input
<1> QED BY <1>1 DEF Moves, Enter, SetShadow, SetPin, Drive, Release, Samples, Store, Look

LEMMA OutputMove ==
  ASSUME Moves, Head(todo) = Output
  PROVE  io' = FF /\ todo' = Tail(todo) /\ UNCHANGED <<shadow, pins, out, InBuf, chip>>
<1>1. Head(todo).do = "out" /\ Head(todo).byte = FF
  BY DEF Output
<1> QED BY <1>1 DEF Moves, Enter, SetShadow, SetPin, Drive, Release, Samples, Store, Look

LEMMA SampleMove ==
  ASSUME Moves, Head(todo) = Sample
  PROVE  /\ Head(todo).do = "sample"
         /\ todo' = Tail(todo) /\ UNCHANGED <<shadow, pins, io, out, chip>>
<1>1. Head(todo).do = "sample"
  BY DEF Sample
<1> QED BY <1>1 DEF Moves, Enter, SetShadow, SetPin, Drive, Release, Samples, Store, Look

LEMMA WaitMove ==
  ASSUME Moves, Head(todo) = WaitRdy
  PROVE  /\ Head(todo).do = "wait"
         /\ todo' = todo \/ todo' = Tail(todo)
         /\ UNCHANGED <<shadow, pins, io, out, InBuf, chip>>
<1>1. Head(todo).do = "wait"
  BY DEF WaitRdy
<1> QED BY <1>1 DEF Moves, Enter, SetShadow, SetPin, Drive, Release, Samples, Store, Look

\* A call that is not refused becomes its moves.
LEMMA CallMove ==
  ASSUME Moves, NEW f, NEW a, Head(todo) = Call(f, a), NEW r, IsSeq(r), Tail(todo) = r,
         ~Refused(f), IsSeq(Body(f, a))
  PROVE  /\ todo' = From(Body(f, a), 0, r)
         /\ InBuf' = IF f = "read_data" THEN <<>> ELSE InBuf
         /\ UNCHANGED <<shadow, pins, io, out, chip>>
<1>1. Head(todo).do = "call" /\ Head(todo).fn = f /\ Head(todo).arg = a
  BY DEF Call
<1>2. Enter
  BY <1>1 DEF Moves, Enter, SetShadow, SetPin, Drive, Release, Samples, Store, Look
<1>3. PICK s : s = Body(f, a)
  OBVIOUS
<1>4. From(s, 0, r) = s \o r
  BY <1>3, FromEnds
<1>5. todo' = s \o r
  BY <1>1, <1>2, <1>3 DEF Enter
<1>6. todo' = From(Body(f, a), 0, r)
  BY ONLY <1>3, <1>4, <1>5
<1> QED BY <1>1, <1>2, <1>6 DEF Enter

\* A pin rises, or falls.
LEMMA RiseMove ==
  ASSUME Moves, NEW p, Head(todo) = PinHigh(p), NEW T, T = shadow \cup {p}
  PROVE  PinsBecome(T)
<1>1. Head(todo).do = "pin" /\ Head(todo).pin = p /\ Head(todo).val
  BY DEF PinHigh, Pin
<1> QED BY <1>1, MovesPin, PinMoves DEF Set

LEMMA FallMove ==
  ASSUME Moves, NEW p, Head(todo) = PinLow(p), NEW T, T = shadow \ {p}
  PROVE  PinsBecome(T)
<1>1. Head(todo).do = "pin" /\ Head(todo).pin = p /\ ~Head(todo).val
  BY DEF PinLow, Pin
<1> QED BY <1>1, MovesPin, PinMoves DEF Set

-----------------------------------------------------------------------------
(***************************************************************************)
(* The moves of a command, of bytes to the chip and of bytes from it.      *)
(***************************************************************************)
PinSet(S) == "CE" \notin S /\ "CLE" \notin S /\ "RE" \in S

LEMMA NextMove ==
  ASSUME NEW s, NEW r, IsSeq(s), IsSeq(r), NEW j, todo = From(s, j, r),
         j \in Nat, j < Len(s), NEW h, h = j + 1
  PROVE  Head(todo) = s[h] /\ Tail(todo) = From(s, h, r)
BY FromStep

LEMMA LatchMove ==
  ASSUME Moves, NEW s, IsSeq(s), NEW c, HasCommand(s, c), NEW r, IsSeq(r), NEW S, PinSet(S),
         NEW j \in 0 .. 4, InLatch(s, c, r, S, j), c # -1
  PROVE  /\ j <= 3 => InLatch(s, c, r, S, j + 1)'
         /\ j = 4 => todo' = From(s, 5, r) /\ Pinned(S \cup {"WE"})'
         /\ j # 3 => UNCHANGED chip
         /\ j = 3 => LatchCommand(c) /\ pins \cup {"WE"} = S \cup {"CLE", "WE"}
         /\ InBuf' = InBuf
<1>1. /\ 5 <= Len(s) /\ Len(s) \in Nat
      /\ s[1] = PinHigh("CLE") /\ s[2] = PinLow("WE") /\ s[3] = Out(c)
      /\ s[4] = PinHigh("WE") /\ s[5] = PinLow("CLE")
  BY LengthOf DEF HasCommand
<1>2. "CE" \notin S /\ "CLE" \notin S /\ "RE" \in S
  BY DEF PinSet
<1>3. PICK h : h = j + 1
  OBVIOUS
<1>4. todo = From(s, j, r) /\ j \in Nat /\ j < Len(s)
  BY <1>1 DEF InLatch
<1>5. Head(todo) = s[h] /\ Tail(todo) = From(s, h, r)
  BY ONLY <1>3, <1>4, NextMove, IsSeq(s), IsSeq(r)
<1>6. CASE j = 0
  <2>1. shadow = S /\ pins \cup {"WP"} = S \cup {"WP"}
    BY <1>6 DEF InLatch, Lagging
  <2>2. Head(todo) = PinHigh("CLE") /\ h = 1
    BY ONLY <1>1, <1>3, <1>5, <1>6
  <2>3. PICK T : T = shadow \cup {"CLE"}
    OBVIOUS
  <2>4. PICK p : p = "CLE"
    OBVIOUS
  <2>5. Head(todo) = PinHigh(p) /\ T = shadow \cup {p}
    BY ONLY <2>2, <2>3, <2>4
  <2>6. PinsBecome(T)
    BY ONLY <2>5, RiseMove, Moves
  <2>7. /\ shadow' = T /\ pins' = T /\ io' = io /\ InBuf' = InBuf /\ todo' = Tail(todo)
        /\ ("WE" \in pins \/ "WE" \notin T) /\ ("RE" \notin pins \/ "RE" \in T) => UNCHANGED chip
    BY ONLY <2>6 DEF PinsBecome
  <2>8. ("WE" \in pins \/ "WE" \notin T) /\ ("RE" \notin pins \/ "RE" \in T)
    BY ONLY <1>2, <2>1, <2>3
  <2>9. InLatch(s, c, r, S, 1)'
    BY ONLY <1>5, <2>1, <2>2, <2>3, <2>7 DEF InLatch, Pinned
  <2>10. 0 + 1 = 1
    OBVIOUS
  <2> QED BY ONLY <1>6, <2>7, <2>8, <2>9, <2>10
<1>7. CASE j = 1
  <2>1. shadow = S \cup {"CLE"} /\ pins = S \cup {"CLE"}
    BY <1>7 DEF InLatch, Pinned
  <2>2. Head(todo) = PinLow("WE") /\ h = 2
    BY ONLY <1>1, <1>3, <1>5, <1>7
  <2>3. PICK T : T = shadow \ {"WE"}
    OBVIOUS
  <2>4. PinsBecome(T)
    BY ONLY <2>2, <2>3, FallMove, Moves
  <2>5. /\ shadow' = T /\ pins' = T /\ io' = io /\ InBuf' = InBuf /\ todo' = Tail(todo)
        /\ ("WE" \in pins \/ "WE" \notin T) /\ ("RE" \notin pins \/ "RE" \in T) => UNCHANGED chip
    BY ONLY <2>4 DEF PinsBecome
  <2>6. ("WE" \in pins \/ "WE" \notin T) /\ ("RE" \notin pins \/ "RE" \in T)
    BY ONLY <1>2, <2>1, <2>3
  <2>7. InLatch(s, c, r, S, 2)'
    BY ONLY <1>5, <2>1, <2>2, <2>3, <2>5 DEF InLatch, Pinned
  <2>8. 1 + 1 = 2
    OBVIOUS
  <2> QED BY ONLY <1>7, <2>5, <2>6, <2>7, <2>8
<1>8. CASE j = 2
  <2>1. shadow = (S \cup {"CLE"}) \ {"WE"} /\ pins = (S \cup {"CLE"}) \ {"WE"}
    BY <1>8 DEF InLatch, Pinned
  <2>2. Head(todo) = Out(c) /\ h = 3
    BY ONLY <1>1, <1>3, <1>5, <1>8
  <2>3. io' = c /\ todo' = Tail(todo) /\ UNCHANGED <<shadow, pins, out, InBuf, chip>>
    BY ONLY <2>2, OutMove, Moves
  <2>4. io' = c /\ todo' = Tail(todo) /\ shadow' = shadow /\ pins' = pins /\ InBuf' = InBuf
    BY ONLY <2>3
  <2>5. InLatch(s, c, r, S, 3)'
    BY ONLY <1>5, <2>1, <2>2, <2>4 DEF InLatch, Pinned
  <2>6. UNCHANGED chip
    BY ONLY <2>3
  <2>7. 2 + 1 = 3
    OBVIOUS
  <2> QED BY ONLY <1>8, <2>4, <2>5, <2>6, <2>7
<1>9. CASE j = 3
  <2>1. shadow = (S \cup {"CLE"}) \ {"WE"} /\ pins = (S \cup {"CLE"}) \ {"WE"} /\ io = c
    BY <1>9 DEF InLatch, Pinned
  <2>2. Head(todo) = PinHigh("WE") /\ h = 4
    BY ONLY <1>1, <1>3, <1>5, <1>9
  <2>3. PICK T : T = shadow \cup {"WE"}
    OBVIOUS
  <2>4. T = S \cup {"CLE", "WE"}
    BY ONLY <2>1, <2>3
  <2>5. PinsBecome(T)
    BY ONLY <2>2, <2>3, RiseMove, Moves
  <2>6. /\ shadow' = T /\ pins' = T /\ io' = io /\ InBuf' = InBuf /\ todo' = Tail(todo)
        /\ "CE" \notin pins /\ "WE" \notin pins /\ "WE" \in T /\ io # -1 => Latch(T, io)
    BY ONLY <2>5 DEF PinsBecome
  <2>7. "CE" \notin pins /\ "WE" \notin pins /\ "WE" \in T /\ "CLE" \in T
    BY ONLY <1>2, <2>1, <2>4
  <2>8. Latch(T, io)
    BY ONLY <2>1, <2>6, <2>7, c # -1
  <2>9. LatchCommand(c)
    BY ONLY <2>1, <2>7, <2>8 DEF Latch
  <2>10. InLatch(s, c, r, S, 4)'
    BY ONLY <1>5, <2>2, <2>4, <2>6 DEF InLatch, Pinned
  <2>11. 3 + 1 = 4 /\ pins \cup {"WE"} = S \cup {"CLE", "WE"}
    BY ONLY <2>1
  <2> QED BY ONLY <1>9, <2>6, <2>9, <2>10, <2>11
<1>10. CASE j = 4
  <2>1. shadow = S \cup {"CLE", "WE"} /\ pins = S \cup {"CLE", "WE"}
    BY <1>10 DEF InLatch, Pinned
  <2>2. Head(todo) = PinLow("CLE") /\ h = 5
    BY ONLY <1>1, <1>3, <1>5, <1>10
  <2>3. PICK T : T = shadow \ {"CLE"}
    OBVIOUS
  <2>4. T = S \cup {"WE"}
    BY ONLY <1>2, <2>1, <2>3
  <2>5. PICK p : p = "CLE"
    OBVIOUS
  <2>6. Head(todo) = PinLow(p) /\ T = shadow \ {p}
    BY ONLY <2>2, <2>3, <2>5
  <2>7. PinsBecome(T)
    BY ONLY <2>6, FallMove, Moves
  <2>8. /\ shadow' = T /\ pins' = T /\ io' = io /\ InBuf' = InBuf /\ todo' = Tail(todo)
        /\ ("WE" \in pins \/ "WE" \notin T) /\ ("RE" \notin pins \/ "RE" \in T) => UNCHANGED chip
    BY ONLY <2>7 DEF PinsBecome
  <2>9. UNCHANGED chip
    BY ONLY <1>2, <2>1, <2>4, <2>8
  <2>10. todo' = From(s, 5, r) /\ Pinned(S \cup {"WE"})'
    BY ONLY <1>5, <2>2, <2>4, <2>8 DEF Pinned
  <2> QED BY ONLY <1>10, <2>8, <2>9, <2>10
<1> QED BY ONLY j \in 0 .. 4, <1>6, <1>7, <1>8, <1>9, <1>10

\* nWE rises for a byte: one of an address, or of data.
Clocks(S, b) == IF "ALE" \in S THEN LatchAddress(b) ELSE LatchData(b)

LEMMA StrobeMove ==
  ASSUME Moves, NEW s, IsSeq(s), NEW d \in Nat, NEW bs, IsSeq(bs), HasStrobes(s, d, bs),
         NEW r, IsSeq(r), NEW S, PinSet(S), "WE" \in S,
         NEW i \in Nat, i < Len(bs), NEW t \in 0 .. 2, InStrobe(s, d, bs, r, S, i, t),
         bs[i + 1] # -1
  PROVE  /\ t = 0 => InStrobe(s, d, bs, r, S, i, 1)'
         /\ t = 1 => InStrobe(s, d, bs, r, S, i, 2)'
         /\ t # 2 => UNCHANGED chip
         /\ t = 2 => InStrobe(s, d, bs, r, S, i + 1, 0)' /\ Clocks(S, bs[i + 1])
         /\ InBuf' = InBuf
<1>1. Len(bs) \in Nat /\ Len(s) \in Nat
  BY LengthOf
<1>2. "CE" \notin S /\ "CLE" \notin S /\ "RE" \in S /\ "WE" \in S
  BY DEF PinSet
<1>3. PICK j : j = d + 3 * i + t
  OBVIOUS
<1>4. PICK h : h = j + 1
  OBVIOUS
<1>5. d + 3 * Len(bs) <= Len(s) /\ i \in 0 .. Len(bs) - 1
  BY <1>1 DEF HasStrobes
<1>6. j \in Nat /\ j < Len(s)
  BY ONLY <1>1, <1>3, <1>5, d \in Nat, i \in Nat, t \in 0 .. 2
<1>7. todo = From(s, j, r)
  BY <1>3 DEF InStrobe
<1>8. Head(todo) = s[h] /\ Tail(todo) = From(s, h, r)
  BY ONLY <1>4, <1>6, <1>7, NextMove, IsSeq(s), IsSeq(r)
<1>9. /\ s[d + 3 * i + 1] = PinLow("WE")
      /\ s[d + 3 * i + 2] = Out(bs[i + 1])
      /\ s[d + 3 * i + 3] = PinHigh("WE")
  BY ONLY <1>5, HasStrobes(s, d, bs) DEF HasStrobes
<1>10. CASE t = 0
  <2>1. shadow = S /\ pins = S
    BY <1>10 DEF InStrobe, Pinned
  <2>2. h = d + 3 * i + 1
    BY ONLY <1>3, <1>4, <1>10, d \in Nat, i \in Nat
  <2>3. Head(todo) = PinLow("WE")
    BY ONLY <1>8, <1>9, <2>2
  <2>4. PICK T : T = shadow \ {"WE"}
    OBVIOUS
  <2>5. PinsBecome(T)
    BY ONLY <2>3, <2>4, FallMove, Moves
  <2>6. /\ shadow' = T /\ pins' = T /\ io' = io /\ InBuf' = InBuf /\ todo' = Tail(todo)
        /\ ("WE" \in pins \/ "WE" \notin T) /\ ("RE" \notin pins \/ "RE" \in T) => UNCHANGED chip
    BY ONLY <2>5 DEF PinsBecome
  <2>7. ("WE" \in pins \/ "WE" \notin T) /\ ("RE" \notin pins \/ "RE" \in T)
    BY ONLY <1>2, <2>1, <2>4
  <2>8. todo' = From(s, d + 3 * i + 1, r)
    BY ONLY <1>8, <2>2, <2>6
  <2>9. InStrobe(s, d, bs, r, S, i, 1)'
    BY ONLY <2>1, <2>4, <2>6, <2>8 DEF InStrobe, Pinned
  <2> QED BY ONLY <1>10, <2>6, <2>7, <2>9
<1>11. CASE t = 1
  <2>1. shadow = S \ {"WE"} /\ pins = S \ {"WE"}
    BY <1>11 DEF InStrobe, Pinned
  <2>2. h = d + 3 * i + 2
    BY ONLY <1>3, <1>4, <1>11, d \in Nat, i \in Nat
  <2>3. PICK b : b = bs[i + 1]
    OBVIOUS
  <2>4. Head(todo) = Out(b)
    BY ONLY <1>8, <1>9, <2>2, <2>3
  <2>5. io' = b /\ todo' = Tail(todo) /\ UNCHANGED <<shadow, pins, out, InBuf, chip>>
    BY ONLY <2>4, OutMove, Moves
  <2>6. shadow' = shadow /\ pins' = pins /\ InBuf' = InBuf
    BY ONLY <2>5
  <2>7. todo' = From(s, d + 3 * i + 2, r)
    BY ONLY <1>8, <2>2, <2>5
  <2>8. InStrobe(s, d, bs, r, S, i, 2)'
    BY ONLY <2>1, <2>3, <2>5, <2>6, <2>7 DEF InStrobe, Pinned
  <2>9. UNCHANGED chip
    BY ONLY <2>5
  <2> QED BY ONLY <1>11, <2>6, <2>8, <2>9
<1>12. CASE t = 2
  <2>1. shadow = S \ {"WE"} /\ pins = S \ {"WE"}
    BY <1>12 DEF InStrobe, Pinned
  <2>2. h = d + 3 * i + 3
    BY ONLY <1>3, <1>4, <1>12, d \in Nat, i \in Nat
  <2>3. PICK b : b = bs[i + 1]
    OBVIOUS
  <2>4. io = b
    BY <1>12, <2>3 DEF InStrobe
  <2>5. Head(todo) = PinHigh("WE")
    BY ONLY <1>8, <1>9, <2>2
  <2>6. PICK T : T = shadow \cup {"WE"}
    OBVIOUS
  <2>7. T = S
    BY ONLY <1>2, <2>1, <2>6
  <2>8. PinsBecome(T)
    BY ONLY <2>5, <2>6, RiseMove, Moves
  <2>9. /\ shadow' = T /\ pins' = T /\ InBuf' = InBuf /\ todo' = Tail(todo)
        /\ "CE" \notin pins /\ "WE" \notin pins /\ "WE" \in T /\ io # -1 => Latch(T, io)
    BY ONLY <2>8 DEF PinsBecome
  <2>10. "CE" \notin pins /\ "WE" \notin pins /\ "WE" \in T /\ "CLE" \notin T
    BY ONLY <1>2, <2>1, <2>7
  <2>11. Latch(S, b)
    BY ONLY <2>3, <2>4, <2>7, <2>9, <2>10, bs[i + 1] # -1
  <2>12. Clocks(S, b)
    BY ONLY <1>2, <2>11 DEF Clocks, Latch
  <2>13. PICK k : k = i + 1
    OBVIOUS
  <2>14. h = d + 3 * k + 0
    BY ONLY <2>2, <2>13, d \in Nat, i \in Nat
  <2>15. todo' = From(s, d + 3 * k + 0, r)
    BY ONLY <1>8, <2>9, <2>14
  <2>16. shadow' = S /\ pins' = S
    BY ONLY <2>7, <2>9
  <2>17. InStrobe(s, d, bs, r, S, k, 0)'
    BY ONLY <2>15, <2>16 DEF InStrobe, Pinned
  <2> QED BY ONLY <1>12, <2>3, <2>9, <2>12, <2>13, <2>17
<1> QED BY ONLY t \in 0 .. 2, <1>10, <1>11, <1>12

LEMMA ByteMove ==
  ASSUME Moves, NEW n \in Nat, NEW r, IsSeq(r), NEW S, PinSet(S), "WE" \in S,
         NEW i \in 0 .. n, NEW t \in 0 .. 2, i = n => t = 0, InByte(n, r, S, i, t)
  PROVE  /\ i # n /\ t = 0 => InByte(n, r, S, i, 1)' /\ InBuf' = InBuf /\ ClockOut /\ out' \in Driven
         /\ t = 1 => InByte(n, r, S, i, 2)' /\ UNCHANGED chip /\ Head(todo).do = "sample"
         /\ t = 2 => InByte(n, r, S, i + 1, 0)' /\ UNCHANGED chip /\ InBuf' = InBuf
         /\ i = n => todo' = r /\ Pinned(S)' /\ UNCHANGED chip /\ InBuf' = InBuf
<1>1. PICK s : s = read_data(n)
  OBVIOUS
<1>2. /\ IsSeq(s) /\ Len(s) = 3 * n + 2 /\ s[3 * n + 2] = Output
      /\ \A k \in 0 .. n - 1 :
           s[3 * k + 2] = PinLow("RE") /\ s[3 * k + 3] = Sample /\ s[3 * k + 4] = PinHigh("RE")
  BY ONLY <1>1, n \in Nat, ReadIs
<1>3. "CE" \notin S /\ "CLE" \notin S /\ "RE" \in S /\ "WE" \in S
  BY DEF PinSet
<1>4. PICK j : j = 1 + 3 * i + t
  OBVIOUS
<1>5. PICK h : h = j + 1
  OBVIOUS
<1>6. j \in Nat /\ j < Len(s) /\ i \in Nat
  BY ONLY <1>2, <1>4, n \in Nat, i \in 0 .. n, t \in 0 .. 2, i = n => t = 0
<1>7. todo = From(s, j, r) /\ io = -1
  BY <1>1, <1>4 DEF InByte
<1>8. Head(todo) = s[h] /\ Tail(todo) = From(s, h, r)
  BY ONLY <1>2, <1>5, <1>6, <1>7, NextMove, IsSeq(r)
<1>9. t = 0 => shadow = S /\ pins = S
  BY DEF InByte, Pinned
<1>10. t # 0 => shadow = S \ {"RE"} /\ pins = S \ {"RE"}
  BY DEF InByte, Pinned
<1>11. i # n => i \in 0 .. n - 1
  BY ONLY n \in Nat, i \in 0 .. n
<1>12. ASSUME i # n, t = 0
       PROVE  InByte(n, r, S, i, 1)' /\ InBuf' = InBuf /\ ClockOut /\ out' \in Driven
  <2>1. h = 3 * i + 2 /\ h = 1 + 3 * i + 1
    BY ONLY <1>4, <1>5, <1>6, <1>12
  <2>2. Head(todo) = PinLow("RE")
    BY ONLY <1>2, <1>8, <1>11, <1>12, <2>1
  <2>3. PICK T : T = shadow \ {"RE"}
    OBVIOUS
  <2>4. PinsBecome(T)
    BY ONLY <2>2, <2>3, FallMove, Moves
  <2>5. /\ shadow' = T /\ pins' = T /\ io' = io /\ InBuf' = InBuf /\ todo' = Tail(todo)
        /\ "CE" \notin pins /\ ("WE" \in pins \/ "WE" \notin T) /\ "RE" \in pins /\ "RE" \notin T =>
             ClockOut /\ out' \in Driven
    BY ONLY <2>4 DEF PinsBecome
  <2>6. "CE" \notin pins /\ "WE" \in pins /\ "RE" \in pins /\ "RE" \notin T
    BY ONLY <1>3, <1>9, <1>12, <2>3
  <2>7. todo' = From(s, 1 + 3 * i + 1, r)
    BY ONLY <1>8, <2>1, <2>5
  <2>8. shadow' = S \ {"RE"} /\ pins' = S \ {"RE"} /\ io' = -1
    BY ONLY <1>7, <1>9, <1>12, <2>3, <2>5
  <2>9. InByte(n, r, S, i, 1)'
    BY ONLY <1>1, <2>7, <2>8 DEF InByte, Pinned
  <2> QED BY ONLY <2>5, <2>6, <2>9
<1>13. ASSUME t = 1
       PROVE  InByte(n, r, S, i, 2)' /\ UNCHANGED chip /\ Head(todo).do = "sample"
  <2>1. h = 3 * i + 3 /\ h = 1 + 3 * i + 2 /\ i # n
    BY ONLY <1>4, <1>5, <1>6, <1>13, i = n => t = 0
  <2>2. Head(todo) = Sample
    BY ONLY <1>2, <1>8, <1>11, <2>1
  <2>3. /\ Head(todo).do = "sample"
        /\ todo' = Tail(todo) /\ UNCHANGED <<shadow, pins, io, out, chip>>
    BY ONLY <2>2, SampleMove, Moves
  <2>4. shadow' = S \ {"RE"} /\ pins' = S \ {"RE"} /\ io' = -1
    BY ONLY <1>7, <1>10, <1>13, <2>3
  <2>5. todo' = From(s, 1 + 3 * i + 2, r)
    BY ONLY <1>8, <2>1, <2>3
  <2>6. InByte(n, r, S, i, 2)'
    BY ONLY <1>1, <2>4, <2>5 DEF InByte, Pinned
  <2>7. UNCHANGED chip
    BY ONLY <2>3
  <2> QED BY ONLY <2>3, <2>6, <2>7
<1>14. ASSUME t = 2
       PROVE  InByte(n, r, S, i + 1, 0)' /\ UNCHANGED chip /\ InBuf' = InBuf
  <2>1. PICK k : k = i + 1
    OBVIOUS
  <2>2. h = 3 * i + 4 /\ h = 1 + 3 * k + 0 /\ i # n
    BY ONLY <1>4, <1>5, <1>6, <1>14, <2>1, i = n => t = 0
  <2>3. Head(todo) = PinHigh("RE")
    BY ONLY <1>2, <1>8, <1>11, <2>2
  <2>4. PICK T : T = shadow \cup {"RE"}
    OBVIOUS
  <2>5. PinsBecome(T)
    BY ONLY <2>3, <2>4, RiseMove, Moves
  <2>6. /\ shadow' = T /\ pins' = T /\ io' = io /\ InBuf' = InBuf /\ todo' = Tail(todo)
        /\ ("WE" \in pins \/ "WE" \notin T) /\ ("RE" \notin pins \/ "RE" \in T) => UNCHANGED chip
    BY ONLY <2>5 DEF PinsBecome
  <2>7. ("WE" \in pins \/ "WE" \notin T) /\ ("RE" \notin pins \/ "RE" \in T) /\ T = S
    BY ONLY <1>3, <1>10, <1>14, <2>4
  <2>8. todo' = From(s, 1 + 3 * k + 0, r)
    BY ONLY <1>8, <2>2, <2>6
  <2>9. shadow' = S /\ pins' = S /\ io' = -1
    BY ONLY <1>7, <2>6, <2>7
  <2>10. InByte(n, r, S, k, 0)'
    BY ONLY <1>1, <2>8, <2>9 DEF InByte, Pinned
  <2> QED BY ONLY <2>1, <2>6, <2>7, <2>10
<1>15. ASSUME i = n
       PROVE  todo' = r /\ Pinned(S)' /\ UNCHANGED chip /\ InBuf' = InBuf
  <2>1. t = 0 /\ h = 3 * n + 2 /\ h = Len(s)
    BY ONLY <1>2, <1>4, <1>5, <1>6, <1>15, i = n => t = 0
  <2>2. Head(todo) = Output
    BY ONLY <1>2, <1>8, <2>1
  <2>3. todo' = Tail(todo) /\ UNCHANGED <<shadow, pins, out, InBuf, chip>>
    BY ONLY <2>2, OutputMove, Moves
  <2>4. From(s, h, r) = r
    BY ONLY <1>2, <2>1, IsSeq(r), FromEnds
  <2>5. shadow' = S /\ pins' = S
    BY ONLY <1>9, <2>1, <2>3
  <2>6. todo' = r
    BY ONLY <1>8, <2>3, <2>4
  <2>7. Pinned(S)'
    BY ONLY <2>5 DEF Pinned
  <2>8. UNCHANGED chip /\ InBuf' = InBuf
    BY ONLY <2>3
  <2> QED BY ONLY <2>6, <2>7, <2>8
<1> QED BY ONLY <1>12, <1>13, <1>14, <1>15, i = n => t = 0

-----------------------------------------------------------------------------
(***************************************************************************)
(* Entering a call.                                                        *)
(***************************************************************************)
LEMMA CallIn ==
  ASSUME Moves, NEW f, NEW a, NEW r, IsSeq(r), todo = First(Call(f, a), r),
         ~Refused(f), NEW s, s = Body(f, a), IsSeq(s)
  PROVE  /\ todo' = From(s, 0, r)
         /\ InBuf' = IF f = "read_data" THEN <<>> ELSE InBuf
         /\ UNCHANGED <<shadow, pins, io, out, chip>>
<1>1. PICK m : m = Call(f, a)
  OBVIOUS
<1>2. Head(todo) = m /\ Tail(todo) = r
  BY ONLY <1>1, FirstStep, IsSeq(r), todo = First(Call(f, a), r)
<1>3. Head(todo) = Call(f, a) /\ Tail(todo) = r
  BY ONLY <1>1, <1>2
<1>4. IsSeq(Body(f, a))
  BY ONLY s = Body(f, a), IsSeq(s)
<1>5. /\ todo' = From(Body(f, a), 0, r)
      /\ InBuf' = IF f = "read_data" THEN <<>> ELSE InBuf
      /\ UNCHANGED <<shadow, pins, io, out, chip>>
  BY ONLY Moves, <1>3, <1>4, ~Refused(f), IsSeq(r), CallMove
<1>6. todo' = From(s, 0, r)
  BY ONLY <1>5, s = Body(f, a)
<1> QED BY ONLY <1>5, <1>6

LEMMA CommandEnters ==
  ASSUME Moves, NEW c, NEW r, IsSeq(r), Head(todo) = Call("latch_command", c), Tail(todo) = r,
         NEW S, PinSet(S), Lagging(S), NEW s, s = latch_command(c), IsSeq(s), NEW x
  PROVE  InLatch(s, x, r, S, 0)' /\ InBuf' = InBuf /\ UNCHANGED chip
<1>1. shadow = S /\ "CE" \notin S /\ "RE" \in S
  BY DEF PinSet, Lagging
<1>2. PICK f : f = "latch_command"
  OBVIOUS
<1>3. ~Refused(f) /\ Body(f, c) = s /\ f # "read_data"
  BY <1>1, <1>2 DEF Refused, Body
<1>4. Head(todo) = Call(f, c) /\ IsSeq(Body(f, c))
  BY ONLY <1>2, <1>3, Head(todo) = Call("latch_command", c), IsSeq(s)
<1>5. /\ todo' = From(Body(f, c), 0, r)
      /\ InBuf' = IF f = "read_data" THEN <<>> ELSE InBuf
      /\ UNCHANGED <<shadow, pins, io, out, chip>>
  BY ONLY Moves, <1>3, <1>4, IsSeq(r), Tail(todo) = r, CallMove
<1>6. /\ InBuf' = InBuf /\ UNCHANGED chip /\ shadow' = shadow /\ pins' = pins
      /\ todo' = From(s, 0, r)
  BY ONLY <1>3, <1>5
<1>7. shadow' = S /\ pins' \cup {"WP"} = S \cup {"WP"}
  BY <1>1, <1>6 DEF Lagging
<1>8. InLatch(s, x, r, S, 0)'
  BY ONLY <1>6, <1>7 DEF InLatch, Lagging
<1> QED BY ONLY <1>6, <1>8

LEMMA CommandCall ==
  ASSUME Moves, NEW c, NEW r, IsSeq(r), todo = First(Call("latch_command", c), r),
         NEW S, PinSet(S), Lagging(S), NEW s, s = latch_command(c), IsSeq(s), NEW x
  PROVE  InLatch(s, x, r, S, 0)' /\ InBuf' = InBuf /\ UNCHANGED chip
<1>1. PICK m : m = Call("latch_command", c)
  OBVIOUS
<1>2. Head(todo) = m /\ Tail(todo) = r
  BY ONLY <1>1, FirstStep, IsSeq(r), todo = First(Call("latch_command", c), r)
<1>3. Head(todo) = Call("latch_command", c) /\ Tail(todo) = r
  BY ONLY <1>1, <1>2
<1> QED BY ONLY Moves, <1>3, IsSeq(r), PinSet(S), Lagging(S), s = latch_command(c), IsSeq(s),
        CommandEnters

LEMMA AddressCall ==
  ASSUME Moves, NEW f \in {"setcolumns", "setrows"}, NEW a, NEW r, IsSeq(r),
         todo = First(Call(f, a), r), NEW S, PinSet(S), Pinned(S),
         NEW s, s = Body(f, a), IsSeq(s)
  PROVE  /\ todo' = From(s, 0, r) /\ Pinned(S)'
         /\ InBuf' = InBuf /\ UNCHANGED chip
<1>1. shadow = S /\ pins = S /\ "CE" \notin S /\ "CLE" \notin S /\ "RE" \in S
  BY DEF PinSet, Pinned
<1>2. ~Refused(f) /\ f # "read_data"
  BY <1>1 DEF Refused
<1>3. /\ todo' = From(s, 0, r)
      /\ InBuf' = IF f = "read_data" THEN <<>> ELSE InBuf
      /\ UNCHANGED <<shadow, pins, io, out, chip>>
  BY ONLY Moves, <1>2, s = Body(f, a), todo = First(Call(f, a), r), IsSeq(r), IsSeq(s), CallIn
<1>4. InBuf' = InBuf /\ UNCHANGED chip /\ shadow' = shadow /\ pins' = pins
  BY ONLY <1>2, <1>3
<1>5. Pinned(S)'
  BY ONLY <1>1, <1>4 DEF Pinned
<1> QED BY ONLY <1>3, <1>4, <1>5

\* ALE rises, and bytes of the address follow.
LEMMA AddressRises ==
  ASSUME Moves, NEW s, IsSeq(s), NEW d \in Nat, d < Len(s), NEW h, h = d + 1, s[h] = PinHigh("ALE"),
         NEW r, IsSeq(r), todo = From(s, d, r), NEW S, PinSet(S), "WE" \in S, Pinned(S), NEW bs
  PROVE  /\ InStrobe(s, h, bs, r, S \cup {"ALE"}, 0, 0)' /\ UNCHANGED chip /\ InBuf' = InBuf
<1>1. shadow = S /\ pins = S /\ "CE" \notin S /\ "CLE" \notin S /\ "RE" \in S /\ "WE" \in S
  BY DEF PinSet, Pinned
<1>2. Head(todo) = s[h] /\ Tail(todo) = From(s, h, r)
  BY ONLY NextMove, IsSeq(s), IsSeq(r), d \in Nat, d < Len(s), h = d + 1, todo = From(s, d, r)
<1>3. PICK p : p = "ALE"
  OBVIOUS
<1>4. PICK T : T = shadow \cup {"ALE"}
  OBVIOUS
<1>5. Head(todo) = PinHigh(p) /\ T = shadow \cup {p}
  BY ONLY <1>2, <1>3, <1>4, s[h] = PinHigh("ALE")
<1>6. PinsBecome(T)
  BY ONLY <1>5, RiseMove, Moves
<1>7. /\ shadow' = T /\ pins' = T /\ io' = io /\ InBuf' = InBuf /\ todo' = Tail(todo)
      /\ ("WE" \in pins \/ "WE" \notin T) /\ ("RE" \notin pins \/ "RE" \in T) => UNCHANGED chip
  BY ONLY <1>6 DEF PinsBecome
<1>8. ("WE" \in pins \/ "WE" \notin T) /\ ("RE" \notin pins \/ "RE" \in T) /\ T = S \cup {"ALE"}
  BY ONLY <1>1, <1>4
<1>9. h + 3 * 0 + 0 = h
  BY ONLY h = d + 1, d \in Nat
<1>10. todo' = From(s, h + 3 * 0 + 0, r)
  BY ONLY <1>2, <1>7, <1>9
<1>11. shadow' = S \cup {"ALE"} /\ pins' = S \cup {"ALE"}
  BY ONLY <1>7, <1>8
<1>12. InStrobe(s, h, bs, r, S \cup {"ALE"}, 0, 0)'
  BY ONLY <1>10, <1>11 DEF InStrobe, Pinned
<1> QED BY ONLY <1>7, <1>8, <1>12

LEMMA AddressBegins ==
  ASSUME Moves, NEW s, IsSeq(s), 1 <= Len(s), s[1] = PinHigh("ALE"), NEW r, IsSeq(r),
         todo = From(s, 0, r), NEW S, PinSet(S), "WE" \in S, Pinned(S), NEW bs
  PROVE  /\ InStrobe(s, 1, bs, r, S \cup {"ALE"}, 0, 0)' /\ UNCHANGED chip /\ InBuf' = InBuf
<1>1. PICK d : d = 0
  OBVIOUS
<1>2. PICK h : h = 1
  OBVIOUS
<1>3. Len(s) \in Nat
  BY LengthOf
<1>4. d \in Nat /\ d < Len(s) /\ h = d + 1 /\ s[h] = PinHigh("ALE") /\ todo = From(s, d, r)
  BY <1>1, <1>2, <1>3
<1>5. /\ InStrobe(s, h, bs, r, S \cup {"ALE"}, 0, 0)' /\ UNCHANGED chip /\ InBuf' = InBuf
  BY ONLY Moves, IsSeq(s), <1>4, IsSeq(r), PinSet(S), "WE" \in S, Pinned(S), AddressRises
<1> QED BY ONLY <1>2, <1>5

\* ALE falls after the last byte.
LEMMA AddressEnds ==
  ASSUME Moves, NEW s, IsSeq(s), NEW d \in Nat, NEW n \in Nat, Len(s) = d + 3 * n + 1,
         s[d + 3 * n + 1] = PinLow("ALE"),
         NEW r, IsSeq(r), NEW S, PinSet(S), "WE" \in S, "ALE" \notin S,
         NEW bs, InStrobe(s, d, bs, r, S \cup {"ALE"}, n, 0)
  PROVE  /\ todo' = r /\ Pinned(S)' /\ UNCHANGED chip /\ InBuf' = InBuf
<1>1. shadow = S \cup {"ALE"} /\ pins = S \cup {"ALE"}
  BY DEF InStrobe, Pinned
<1>2. PICK j : j = d + 3 * n + 0
  OBVIOUS
<1>3. PICK h : h = j + 1
  OBVIOUS
<1>4. j \in Nat /\ j < Len(s) /\ h = Len(s) /\ h = d + 3 * n + 1
  BY ONLY <1>2, <1>3, d \in Nat, n \in Nat, Len(s) = d + 3 * n + 1
<1>5. todo = From(s, j, r)
  BY <1>2 DEF InStrobe
<1>6. Head(todo) = s[h] /\ Tail(todo) = From(s, h, r)
  BY ONLY <1>3, <1>4, <1>5, NextMove, IsSeq(s), IsSeq(r)
<1>7. From(s, h, r) = r
  BY ONLY <1>4, IsSeq(s), IsSeq(r), FromEnds
<1>8. PICK p : p = "ALE"
  OBVIOUS
<1>9. PICK T : T = shadow \ {"ALE"}
  OBVIOUS
<1>10. Head(todo) = PinLow(p) /\ T = shadow \ {p}
  BY ONLY <1>4, <1>6, <1>8, <1>9, s[d + 3 * n + 1] = PinLow("ALE")
<1>11. PinsBecome(T)
  BY ONLY <1>10, FallMove, Moves
<1>12. /\ shadow' = T /\ pins' = T /\ io' = io /\ InBuf' = InBuf /\ todo' = Tail(todo)
       /\ ("WE" \in pins \/ "WE" \notin T) /\ ("RE" \notin pins \/ "RE" \in T) => UNCHANGED chip
  BY ONLY <1>11 DEF PinsBecome
<1>13. "WE" \in pins /\ "RE" \in T /\ T = S
  BY <1>1, <1>9 DEF PinSet
<1>14. Pinned(S)' /\ todo' = r
  BY ONLY <1>6, <1>7, <1>12, <1>13 DEF Pinned
<1> QED BY ONLY <1>12, <1>13, <1>14

LEMMA DataCall ==
  ASSUME Moves, NEW b, NEW r, IsSeq(r), IsSeq(b), todo = First(Call("latch_data_out", b), r),
         NEW S, Pinned(S)
  PROVE  /\ InStrobe(latch_data_out(b), 0, b, r, S, 0, 0)' /\ InBuf' = InBuf /\ UNCHANGED chip
<1>1. shadow = S /\ pins = S
  BY DEF Pinned
<1>2. PICK f : f = "latch_data_out"
  OBVIOUS
<1>3. PICK s : s = latch_data_out(b)
  OBVIOUS
<1>4. ~Refused(f) /\ s = Body(f, b) /\ f # "read_data"
  BY <1>2, <1>3 DEF Refused, Body
<1>5. todo = First(Call(f, b), r) /\ IsSeq(s)
  BY <1>2, <1>3, DataMoves
<1>6. /\ todo' = From(s, 0, r)
      /\ InBuf' = IF f = "read_data" THEN <<>> ELSE InBuf
      /\ UNCHANGED <<shadow, pins, io, out, chip>>
  BY ONLY Moves, <1>4, <1>5, IsSeq(r), CallIn
<1>7. InBuf' = InBuf /\ UNCHANGED chip /\ shadow' = S /\ pins' = S
  BY ONLY <1>1, <1>4, <1>6
<1>8. 0 + 3 * 0 + 0 = 0
  OBVIOUS
<1>9. todo' = From(s, 0 + 3 * 0 + 0, r)
  BY ONLY <1>6, <1>8
<1>10. InStrobe(s, 0, b, r, S, 0, 0)'
  BY ONLY <1>7, <1>9 DEF InStrobe, Pinned
<1> QED BY ONLY <1>3, <1>7, <1>10

LEMMA ReadCall ==
  ASSUME Moves, NEW n \in Nat, NEW r, IsSeq(r), todo = First(Call("read_data", n), r),
         NEW S, PinSet(S), "WE" \in S, "ALE" \notin S, Pinned(S)
  PROVE  /\ todo' = From(read_data(n), 0, r) /\ Pinned(S)' /\ InBuf' = <<>> /\ UNCHANGED chip
<1>1. shadow = S /\ pins = S /\ "CE" \notin S
  BY DEF Pinned, PinSet
<1>2. PICK f : f = "read_data"
  OBVIOUS
<1>3. PICK s : s = read_data(n)
  OBVIOUS
<1>4. ~Refused(f) /\ s = Body(f, n)
  BY <1>1, <1>2, <1>3 DEF Refused, Body
<1>5. todo = First(Call(f, n), r) /\ IsSeq(s)
  BY <1>2, <1>3, ReadIs
<1>6. /\ todo' = From(s, 0, r)
      /\ InBuf' = IF f = "read_data" THEN <<>> ELSE InBuf
      /\ UNCHANGED <<shadow, pins, io, out, chip>>
  BY ONLY Moves, <1>4, <1>5, IsSeq(r), CallIn
<1>7. InBuf' = <<>> /\ UNCHANGED chip /\ shadow' = S /\ pins' = S
  BY ONLY <1>1, <1>2, <1>6
<1>8. Pinned(S)'
  BY ONLY <1>7 DEF Pinned
<1> QED BY ONLY <1>3, <1>6, <1>7, <1>8

\* The bus is turned round.
LEMMA ReadBegins ==
  ASSUME Moves, NEW n \in Nat, NEW r, IsSeq(r), todo = From(read_data(n), 0, r), NEW S, Pinned(S)
  PROVE  /\ InByte(n, r, S, 0, 0)' /\ InBuf' = InBuf /\ UNCHANGED chip
<1>1. PICK s : s = read_data(n)
  OBVIOUS
<1>2. IsSeq(s) /\ Len(s) = 3 * n + 2 /\ s[1] = Input
  BY ONLY <1>1, n \in Nat, ReadIs
<1>3. PICK j : j = 0
  OBVIOUS
<1>4. PICK h : h = 1
  OBVIOUS
<1>5. j \in Nat /\ j < Len(s) /\ h = j + 1 /\ todo = From(s, j, r) /\ h = 1 + 3 * 0 + 0
  BY <1>1, <1>2, <1>3, <1>4
<1>6. Head(todo) = s[h] /\ Tail(todo) = From(s, h, r)
  BY ONLY <1>2, <1>5, NextMove, IsSeq(r)
<1>7. Head(todo) = Input
  BY ONLY <1>2, <1>4, <1>6
<1>8. io' = -1 /\ todo' = Tail(todo) /\ UNCHANGED <<shadow, pins, out, InBuf, chip>>
  BY ONLY <1>7, InputMove, Moves
<1>9. shadow' = S /\ pins' = S /\ InBuf' = InBuf
  BY <1>8 DEF Pinned
<1>10. todo' = From(s, 1 + 3 * 0 + 0, r)
  BY ONLY <1>5, <1>6, <1>8
<1>11. InByte(n, r, S, 0, 0)'
  BY ONLY <1>1, <1>8, <1>9, <1>10 DEF InByte, Pinned
<1> QED BY ONLY <1>8, <1>9, <1>11

-----------------------------------------------------------------------------
(***************************************************************************)
(* Rows, from the bytes that setrows sends.                                *)
(***************************************************************************)
LEMMA DivMod ==
  ASSUME NEW a \in Nat, NEW b \in Nat \ {0}
  PROVE  /\ a \div b \in Nat /\ a % b \in 0 .. b - 1 /\ a = b * (a \div b) + (a % b)
OBVIOUS

LEMMA OneQuotient ==
  ASSUME NEW b \in Nat \ {0}, NEW q \in Nat, NEW p \in Nat, NEW r \in 0 .. b - 1, NEW s \in 0 .. b - 1,
         b * q + r = b * p + s
  PROVE  q = p /\ r = s
<1>1. CASE q < p
  <2>1. PICK d \in Nat : p = q + 1 + d
    <3>1. p - q - 1 \in Nat /\ p = q + 1 + (p - q - 1)
      BY <1>1
    <3> QED BY <3>1
  <2>2. b * p = b * q + b + b * d
    BY <2>1
  <2>3. b * d \in Nat /\ b * q \in Nat
    OBVIOUS
  <2> QED BY <2>2, <2>3
<1>2. CASE p < q
  <2>1. PICK d \in Nat : q = p + 1 + d
    <3>1. q - p - 1 \in Nat /\ q = p + 1 + (q - p - 1)
      BY <1>2
    <3> QED BY <3>1
  <2>2. b * q = b * p + b + b * d
    BY <2>1
  <2>3. b * d \in Nat /\ b * p \in Nat
    OBVIOUS
  <2> QED BY <2>2, <2>3
<1>3. CASE q = p
  BY <1>3
<1> QED BY <1>1, <1>2, <1>3

LEMMA MultipleAdded ==
  ASSUME NEW m \in Nat, NEW n \in Nat \ {0}, NEW s \in Nat
  PROVE  (m * n + s) % n = s % n
<1>1. PICK x : x = m * n + s
  OBVIOUS
<1>2. x \in Nat
  BY <1>1
<1>3. PICK q : q = x \div n
  OBVIOUS
<1>4. PICK r : r = x % n
  OBVIOUS
<1>5. q \in Nat /\ r \in 0 .. n - 1 /\ x = n * q + r
  BY <1>2, <1>3, <1>4, DivMod
<1>6. PICK p : p = s \div n
  OBVIOUS
<1>7. PICK t : t = s % n
  OBVIOUS
<1>8. p \in Nat /\ t \in 0 .. n - 1 /\ s = n * p + t
  BY <1>6, <1>7, DivMod
<1>9. n * q + r = n * (m + p) + t
  BY <1>1, <1>5, <1>8
<1>10. m + p \in Nat
  BY <1>8
<1>11. PICK w : w = m + p
  OBVIOUS
<1>12. r = t
  BY <1>5, <1>8, <1>9, <1>10, <1>11, OneQuotient
<1> QED BY <1>1, <1>4, <1>7, <1>12

LEMMA ModMod ==
  ASSUME NEW a \in Nat, NEW s \in Nat \ {0}, NEW n \in Nat \ {0}, s % n = 0
  PROVE  (a % s) % n = a % n
<1>1. PICK q : q = a \div s
  OBVIOUS
<1>2. PICK r : r = a % s
  OBVIOUS
<1>3. q \in Nat /\ r \in Nat /\ a = s * q + r
  BY <1>1, <1>2, DivMod
<1>4. PICK k : k = s \div n
  OBVIOUS
<1>5. k \in Nat /\ s = n * k
  BY <1>4, DivMod
<1>6. PICK m : m = k * q
  OBVIOUS
<1>7. m \in Nat /\ a = m * n + r
  BY <1>3, <1>5, <1>6
<1>8. (m * n + r) % n = r % n
  BY <1>3, <1>7, MultipleAdded
<1> QED BY <1>2, <1>7, <1>8

LEMMA TwoBytes ==
  ASSUME NEW r \in Nat
  PROVE  (r % 256) + 256 * ((r \div 256) % 256) = r % 65536
OBVIOUS

LEMMA ThreeBytes ==
  ASSUME NEW r \in Nat
  PROVE  /\ (r % 65536) + 65536 * ((r \div 65536) % 4) = r % 262144
         /\ (r % 65536) + 65536 * ((r \div 65536) % 16) = r % 1048576
OBVIOUS

LEMMA RowsApart ==
  ASSUME NEW a \in Nat
  PROVE  /\ RowNumber(a) \in Nat /\ a \div ColSpan \in Nat /\ a % ColSpan \in Nat
         /\ (RowNumber(a) % RowSpan) % NRows = RowAt(a)
<1>1. a \div ColSpan \in Nat /\ a % ColSpan \in Nat /\ RowStep \in Nat /\ NRows \in Nat \ {0}
  BY LinearAssumption, DivMod
<1>2. PICK r : r = RowNumber(a)
  OBVIOUS
<1>3. r \in Nat /\ RowAt(a) = r % NRows
  BY <1>1, <1>2 DEF RowNumber, RowAt
<1>4. RowSpan \in Nat \ {0} /\ RowSpan % NRows = 0
  BY PinAssumption DEF RowSpan
<1>5. (r % RowSpan) % NRows = r % NRows
  BY ONLY <1>1, <1>3, <1>4, ModMod
<1> QED BY ONLY <1>1, <1>2, <1>3, <1>5

\* The address that an operation sends.
LEMMA AddressIs ==
  ASSUME NEW o \in Operations
  PROVE  /\ o.at \in Nat /\ IsSeq(Address(o)) /\ NCols(o) \in {0, 2}
         /\ Len(Address(o)) = NCols(o) + Len(RowBytes(o.at))
         /\ \A i \in 1 .. Len(RowBytes(o.at)) : Address(o)[NCols(o) + i] = RowBytes(o.at)[i]
         /\ o.kind # "erase" =>
              /\ NCols(o) = 2
              /\ Address(o)[1] = ColumnBytes(o.at)[1] /\ Address(o)[2] = ColumnBytes(o.at)[2]
         /\ o.kind = "erase" => NCols(o) = 0
<1>1. o.at \in Nat
  BY DEF Operations
<1>2. PICK a : a = o.at
  OBVIOUS
<1>3. PICK c : c = ColumnBytes(a)
  OBVIOUS
<1>4. PICK w : w = RowBytes(a)
  OBVIOUS
<1>5. IsSeq(c) /\ Len(c) = 2 /\ IsSeq(w) /\ Len(w) \in Nat
  BY <1>1, <1>2, <1>3, <1>4, ColumnBytesAre, RowBytesAre
<1>6. PICK b : b = c \o w
  OBVIOUS
<1>7. IsSeq(c) /\ IsSeq(w)
  BY ONLY <1>5
<1>8. /\ IsSeq(b) /\ Len(b) = Len(c) + Len(w)
      /\ \A i \in 1 .. Len(c) : b[i] = c[i]
      /\ \A i \in 1 .. Len(w) : b[Len(c) + i] = w[i]
  BY ONLY <1>7, <1>6, JoinOf
<1>9. /\ IsSeq(b) /\ Len(b) = 2 + Len(w) /\ b[1] = c[1] /\ b[2] = c[2]
      /\ \A i \in 1 .. Len(w) : b[2 + i] = w[i]
  BY ONLY <1>5, <1>8
<1>10. CASE o.kind = "erase"
  <2>1. Address(o) = w /\ NCols(o) = 0
    BY <1>2, <1>4, <1>10 DEF Address, NCols
  <2>2. \A i \in 1 .. Len(w) : w[0 + i] = w[i]
    BY <1>5
  <2>3. Len(w) = 0 + Len(w)
    BY <1>5
  <2> QED BY ONLY <1>1, <1>2, <1>4, <1>5, <1>10, <2>1, <2>2, <2>3
<1>11. CASE o.kind # "erase"
  <2>1. Address(o) = b /\ NCols(o) = 2
    BY <1>2, <1>3, <1>4, <1>6, <1>11 DEF Address, NCols
  <2> QED BY ONLY <1>1, <1>2, <1>3, <1>4, <1>9, <1>11, <2>1
<1> QED BY ONLY <1>10, <1>11

\* The chip takes it for its row.
LEMMA RowFound ==
  ASSUME NEW o \in Operations, Clocked(o, Len(Address(o))), NColBytes = NCols(o)
  PROVE  AddressedRow = RowAt(o.at)
<1>1. PICK w : w = RowBytes(o.at)
  OBVIOUS
<1>2. PICK n : n = NCols(o)
  OBVIOUS
<1>3. PICK x : x = Address(o)
  OBVIOUS
<1>4. /\ o.at \in Nat /\ n \in {0, 2} /\ IsSeq(x) /\ Len(x) = n + Len(w)
      /\ \A i \in 1 .. Len(w) : x[n + i] = w[i]
  BY ONLY o \in Operations, <1>1, <1>2, <1>3, AddressIs
<1>5. PICK r : r = RowNumber(o.at)
  OBVIOUS
<1>6. /\ Len(w) = (IF Nand.type = "MT29" THEN 2 ELSE 3)
      /\ w[1] = r % 256 /\ w[2] = (r \div 256) % 256
      /\ Nand.type # "MT29" =>
           w[3] = (r \div 65536) % (IF Nand.type = "S34" THEN 4 ELSE 16)
  <2>1. PICK a : a = o.at
    OBVIOUS
  <2>2. a \in Nat /\ w = RowBytes(a) /\ r = RowNumber(a)
    BY <1>1, <1>4, <1>5, <2>1
  <2>3. /\ Len(RowBytes(a)) = (IF Nand.type = "MT29" THEN 2 ELSE 3)
        /\ RowBytes(a)[1] = RowNumber(a) % 256 /\ RowBytes(a)[2] = (RowNumber(a) \div 256) % 256
        /\ Nand.type # "MT29" =>
              RowBytes(a)[3] = (RowNumber(a) \div 65536) % (IF Nand.type = "S34" THEN 4 ELSE 16)
    BY ONLY <2>2, RowBytesAre
  <2> QED BY ONLY <2>2, <2>3
<1>7. r \in Nat /\ (r % RowSpan) % NRows = RowAt(o.at)
  BY ONLY <1>4, <1>5, RowsApart
<1>8. addr = addr /\ Len(addr) = n + Len(w) /\ IsSeq(addr)
      /\ \A i \in 1 .. n + Len(w) : addr[i] = x[i]
  BY <1>3, <1>4 DEF Clocked
<1>9. PICK L \in Nat : L = n + Len(w)
  BY <1>4, <1>6
<1>10. DOMAIN addr = 1 .. L
  <2>1. PICK S : addr \in Seq(S)
    BY <1>8 DEF IsSeq
  <2> QED BY <1>8, <1>9, <2>1
<1>11. PICK p : p = IF n + 1 \in DOMAIN addr THEN addr[n + 1] ELSE 0
  OBVIOUS
<1>12. PICK q : q = IF n + 2 \in DOMAIN addr THEN addr[n + 2] ELSE 0
  OBVIOUS
<1>13. PICK s : s = IF n + 3 \in DOMAIN addr THEN addr[n + 3] ELSE 0
  OBVIOUS
<1>14. AddressedRow = (p + 256 * q + 65536 * s) % NRows
  <2>1. 256^2 = 65536
    OBVIOUS
  <2> QED BY <1>2, <1>11, <1>12, <1>13, <2>1 DEF AddressedRow
<1>15. p = w[1] /\ q = w[2]
  <2>1. n + 1 \in 1 .. L /\ n + 2 \in 1 .. L /\ 1 \in 1 .. Len(w) /\ 2 \in 1 .. Len(w)
    BY ONLY <1>4, <1>6, <1>9
  <2>2. addr[n + 1] = x[n + 1] /\ addr[n + 2] = x[n + 2]
    BY ONLY <1>8, <1>9, <2>1
  <2>3. x[n + 1] = w[1] /\ x[n + 2] = w[2]
    BY ONLY <1>4, <2>1
  <2> QED BY ONLY <1>10, <1>11, <1>12, <2>1, <2>2, <2>3
<1>16. CASE Nand.type = "MT29"
  <2>1. n + 3 \notin 1 .. L
    BY ONLY <1>4, <1>6, <1>9, <1>16
  <2>2. s = 0
    BY ONLY <1>10, <1>13, <2>1
  <2>3. RowSpan = 65536
    BY <1>16 DEF RowSpan
  <2>4. p + 256 * q + 65536 * s = r % 65536
    BY ONLY <1>6, <1>7, <1>15, <2>2, TwoBytes
  <2> QED BY ONLY <1>7, <1>14, <2>3, <2>4
<1>17. CASE Nand.type # "MT29"
  <2>1. n + 3 \in 1 .. L /\ 3 \in 1 .. Len(w)
    BY ONLY <1>4, <1>6, <1>9, <1>17
  <2>2. s = w[3]
    BY ONLY <1>4, <1>8, <1>9, <1>10, <1>13, <2>1
  <2>3. p + 256 * q = r % 65536
    BY ONLY <1>6, <1>7, <1>15, TwoBytes
  <2>4. p \in Nat /\ q \in Nat
    BY ONLY <1>6, <1>7, <1>15
  <2>5. CASE Nand.type = "S34"
    <3>1. RowSpan = 262144
      BY <2>5 DEF RowSpan
    <3>2. s = (r \div 65536) % 4
      BY ONLY <1>6, <1>17, <2>2, <2>5
    <3>3. p + 256 * q + 65536 * s = r % 262144
      BY ONLY <1>7, <2>3, <2>4, <3>2, ThreeBytes
    <3> QED BY ONLY <1>7, <1>14, <3>1, <3>3
  <2>6. CASE Nand.type # "S34"
    <3>1. RowSpan = 1048576
      BY <1>17, <2>6 DEF RowSpan
    <3>2. s = (r \div 65536) % 16
      BY ONLY <1>6, <1>17, <2>2, <2>6
    <3>3. p + 256 * q + 65536 * s = r % 1048576
      BY ONLY <1>7, <2>3, <2>4, <3>2, ThreeBytes
    <3> QED BY ONLY <1>7, <1>14, <3>1, <3>3
  <2> QED BY ONLY <2>5, <2>6
<1> QED BY ONLY <1>16, <1>17

-----------------------------------------------------------------------------
(***************************************************************************)
(* What each move tells the chip.                                          *)
(***************************************************************************)
LEMMA Kinds ==
  ASSUME NEW o \in Operations
  PROVE  /\ o.kind \in {"read", "program", "erase"} /\ o # NoOp
         /\ o.at \in Nat /\ IsSeq(o.data) /\ o.data \in Seq(Byte) /\ Len(o.data) \in Nat
         /\ o.kind # "program" => o.data = <<>> /\ Len(o.data) = 0
<1>1. o.data \in Seq(Byte) /\ o.kind \in {"read", "program", "erase"} /\ o.at \in Nat
  BY DEF Operations
<1>2. o.kind # "program" => o.data = <<>>
  BY DEF Operations
<1>3. o # NoOp
  BY <1>1 DEF NoOp
<1> QED BY <1>1, <1>2, <1>3 DEF IsSeq

LEMMA StartSeen ==
  ASSUME NEW o \in Operations, LatchCommand(Starts(o)), Resting
  PROVE  Seen(o, 0, 0)' /\ op' = op /\ cells' = cells
<1>1. PICK c : c = Starts(o)
  OBVIOUS
<1>2. c \in Setup /\ c # CMD_RESET /\ (o.kind = "program" => c = CMD_PAGEPROGRAM1)
  BY <1>1, Kinds DEF Starts, Setup, CMD_READ1, CMD_PAGEPROGRAM1, CMD_BLOCKERASE1, CMD_RESET
<1>3. busy = "none" /\ ~acted /\ ~stopped
  BY DEF Resting
<1>4. SetupCommand(c)
  BY <1>1, <1>2, <1>3 DEF LatchCommand, OtherCommand
<1>5. /\ mode' = c /\ addr' = <<>> /\ Resting' /\ op' = op /\ cells' = cells
      /\ o.kind = "program" => reg' = [k \in Cols |-> FF]
  BY <1>2, <1>3, <1>4 DEF SetupCommand, Resting
<1>6. Clocked(o, 0)'
  <2>1. IsSeq(<<>>) /\ Len(<<>>) = 0
    BY EmptySequence
  <2> QED BY <1>5, <2>1 DEF Clocked
<1>7. o.kind = "program" => Filled(o, 0)'
  BY <1>5 DEF Filled
<1> QED BY <1>1, <1>5, <1>6, <1>7 DEF Seen

LEMMA ColumnIs ==
  ASSUME NEW a \in Nat
  PROVE  ColAt(a) \in Nat /\ ColAt(a) = a % ColSpan /\ PageLen \in Nat
<1>1. a % ColSpan \in Nat
  BY RowsApart
<1> QED BY <1>1, LinearAssumption DEF ColAt

LEMMA Grown ==
  ASSUME NEW s, IsSeq(s), NEW m \in Nat, Len(s) = m, NEW b
  PROVE  /\ IsSeq(Append(s, b)) /\ Len(Append(s, b)) = m + 1 /\ Append(s, b)[m + 1] = b
         /\ \A i \in 1 .. m : Append(s, b)[i] = s[i]
<1>1. PICK S : s \in Seq(S)
  BY DEF IsSeq
<1>2. PICK T : T = S \cup {b}
  OBVIOUS
<1>3. s \in Seq(T) /\ b \in T
  BY <1>1, <1>2
<1> QED BY <1>3 DEF IsSeq

LEMMA AddressSeen ==
  ASSUME NEW o \in Operations, NEW m \in Nat, m < Len(Address(o)), Seen(o, m, 0),
         NEW b, b = Address(o)[m + 1], LatchAddress(b)
  PROVE  Seen(o, m + 1, 0)' /\ op' = op /\ cells' = cells
<1>1. PICK x : x = Address(o)
  OBVIOUS
<1>2. Resting /\ mode = Starts(o) /\ Clocked(o, m)
  BY DEF Seen
<1>3. busy = "none" /\ ~acted /\ ~stopped
  BY <1>2 DEF Resting
<1>4. IsSeq(addr) /\ Len(addr) = m /\ \A i \in 1 .. m : addr[i] = x[i]
  BY <1>1, <1>2 DEF Clocked
<1>5. /\ addr' = Append(addr, b)
      /\ col' = IF Len(addr) = 1 /\ NColBytes = 2 THEN addr[1] + 256 * b ELSE col
      /\ mode' = mode /\ reg' = reg /\ busy' = busy /\ cells' = cells /\ op' = op
      /\ acted' = acted /\ stopped' = stopped
  BY <1>3 DEF LatchAddress
<1>6. /\ IsSeq(addr') /\ Len(addr') = m + 1 /\ addr'[m + 1] = b
      /\ \A i \in 1 .. m : addr'[i] = addr[i]
  BY <1>4, <1>5, Grown
<1>7. Clocked(o, m + 1)'
  <2>1. ASSUME NEW i \in 1 .. m + 1
        PROVE  addr'[i] = x[i]
    <3>1. CASE i = m + 1
      BY <1>1, <1>6, <3>1
    <3>2. CASE i # m + 1
      <4>1. i \in 1 .. m
        BY <3>2
      <4> QED BY ONLY <1>4, <1>6, <4>1
    <3> QED BY <3>1, <3>2
  <2> QED BY ONLY <1>1, <1>6, <2>1 DEF Clocked
<1>8. Resting' /\ mode' = Starts(o)
  BY <1>2, <1>5 DEF Resting
<1>9. ASSUME o.kind # "erase", m + 1 >= 2
      PROVE  AtColumn(o, 0)'
  <2>1. NColBytes = 2
    BY <1>2, <1>9, Kinds DEF NColBytes, Starts
  <2>2. CASE m = 1
    <3>1. PICK e : e = o.at % ColSpan
      OBVIOUS
    <3>2. e \in Nat /\ ColAt(o.at) = e
      <4>1. PICK a : a = o.at
        OBVIOUS
      <4>2. a \in Nat
        BY <4>1, Kinds
      <4> QED BY ONLY <3>1, <4>1, <4>2, ColumnIs
    <3>3. x[1] = e % 256 /\ x[2] = e \div 256
      BY <1>1, <1>9, <3>1, AddressIs, Kinds, ColumnBytesAre
    <3>4. addr[1] = e % 256 /\ b = e \div 256
      <4>1. 1 \in 1 .. m /\ m + 1 = 2
        BY <2>2
      <4>2. addr[1] = x[1] /\ b = x[2]
        BY ONLY <1>1, <1>4, <4>1, b = Address(o)[m + 1]
      <4> QED BY ONLY <3>3, <4>2
    <3>5. col' = e
      <4>1. col' = addr[1] + 256 * b
        BY ONLY <1>4, <1>5, <2>1, <2>2
      <4> QED BY ONLY <3>2, <3>4, <4>1
    <3> QED BY ONLY <3>2, <3>5 DEF AtColumn
  <2>3. CASE m # 1
    <3>1. col' = col /\ m >= 2
      BY <1>4, <1>5, <1>9, <2>3
    <3>2. AtColumn(o, 0)
      BY <1>9, <3>1 DEF Seen
    <3> QED BY ONLY <3>1, <3>2 DEF AtColumn
  <2> QED BY <2>2, <2>3
<1>10. o.kind = "program" => Filled(o, 0)'
  BY <1>5 DEF Seen, Filled
<1> QED BY <1>5, <1>7, <1>8, <1>9, <1>10 DEF Seen

LEMMA DataSeen ==
  ASSUME NEW o \in Operations, o.kind = "program", NEW m \in Nat, m >= 2,
         NEW q \in Nat, q < Len(o.data), Seen(o, m, q), reg \in [Cols -> Byte],
         NEW b, b = o.data[q + 1], LatchData(b)
  PROVE  Seen(o, m, q + 1)' /\ op' = op /\ cells' = cells
<1>1. Resting /\ mode = Starts(o) /\ Clocked(o, m) /\ AtColumn(o, q) /\ Filled(o, q)
  BY DEF Seen
<1>2. busy = "none" /\ mode = CMD_PAGEPROGRAM1
  BY <1>1 DEF Resting, Starts
<1>3. PICK c : c = ColAt(o.at)
  OBVIOUS
<1>4. c \in Nat /\ PageLen \in Nat
  <2>1. PICK a : a = o.at
    OBVIOUS
  <2>2. a \in Nat
    BY <2>1, Kinds
  <2> QED BY ONLY <1>3, <2>1, <2>2, ColumnIs
<1>5. /\ reg' = IF col \in Cols THEN [reg EXCEPT ![col] = b] ELSE reg
      /\ col' = IF col \in Cols THEN col + 1 ELSE col
      /\ mode' = mode /\ addr' = addr /\ busy' = busy /\ cells' = cells /\ op' = op
      /\ acted' = acted /\ stopped' = stopped
  BY <1>2 DEF LatchData
<1>6. IF c + q \in Cols THEN col = c + q ELSE col \notin Cols
  BY <1>1, <1>3 DEF AtColumn
<1>7. AtColumn(o, q + 1)'
  <2>1. IF c + (q + 1) \in Cols THEN col' = c + (q + 1) ELSE col' \notin Cols
    BY <1>4, <1>5, <1>6 DEF Cols
  <2> QED BY ONLY <1>3, <2>1 DEF AtColumn
<1>8. Filled(o, q + 1)'
  <2>1. ASSUME NEW k \in Cols
        PROVE  reg'[k] = IF k - c + 1 \in 1 .. q + 1 THEN o.data[k - c + 1] ELSE FF
    <3>1. k \in Nat
      BY DEF Cols
    <3>2. reg[k] = IF k - c + 1 \in 1 .. q THEN o.data[k - c + 1] ELSE FF
      BY <1>1, <1>3 DEF Filled
    <3>3. CASE k = c + q
      <4>1. col = k /\ k - c + 1 = q + 1
        BY <1>4, <1>6, <3>3
      <4>2. reg'[k] = b
        BY <1>5, <4>1
      <4> QED BY <1>4, <4>1, <4>2
    <3>4. CASE k # c + q
      <4>1. col \in Cols => col # k
        BY <1>4, <1>6, <3>4
      <4>2. reg'[k] = reg[k]
        BY <1>5, <4>1
      <4>3. k - c + 1 \in 1 .. q + 1 <=> k - c + 1 \in 1 .. q
        BY <1>4, <3>1, <3>4
      <4> QED BY ONLY <3>2, <4>2, <4>3
    <3> QED BY <3>3, <3>4
  <2> QED BY ONLY <1>3, <2>1 DEF Filled
<1>9. Resting' /\ mode' = Starts(o) /\ Clocked(o, m)'
  BY <1>1, <1>5 DEF Resting, Clocked
<1> QED BY <1>5, <1>7, <1>8, <1>9 DEF Seen

LEMMA ConfirmSeen ==
  ASSUME NEW o \in Operations, Seen(o, Len(Address(o)), Len(o.data)),
         LatchCommand(Confirm(o)), o.kind # "read" => "WP" \in pins
  PROVE  Working(o)' /\ op' = op /\ cells' = cells
<1>1. PICK c : c = Confirm(o)
  OBVIOUS
<1>2. PICK m : m = Len(Address(o))
  OBVIOUS
<1>3. Resting /\ mode = Starts(o) /\ Clocked(o, m)
  BY <1>2 DEF Seen
<1>4. busy = "none" /\ ~acted /\ ~stopped
  BY <1>3 DEF Resting
<1>5. c \notin Setup /\ c # CMD_RESET /\ Confirmed(c) = o.kind /\ o.kind # "none"
  BY <1>1, <1>3, <1>4, Kinds DEF Starts, Confirm, Confirmed, Setup, CMD_READ1, CMD_PAGEPROGRAM1,
     CMD_BLOCKERASE1, CMD_RESET, CMD_READ2, CMD_PAGEPROGRAM2, CMD_BLOCKERASE2, CMD_READID, CMD_EN_ECC
<1>6. OtherCommand(c)
  BY <1>1, <1>5 DEF LatchCommand, SetupCommand
<1>7. /\ mode' = c /\ busy' = o.kind /\ addr' = addr /\ reg' = reg /\ col' = col /\ cells' = cells
      /\ op' = op /\ acted' = acted /\ stopped' = stopped
  BY <1>5, <1>6 DEF OtherCommand
<1>8. Clocked(o, Len(Address(o)))'
  BY <1>2, <1>3, <1>7 DEF Clocked
<1>9. o.kind = "program" => Filled(o, Len(o.data))'
  BY <1>7 DEF Seen, Filled
<1>10. o.kind = "read" => AtColumn(o, 0)'
  <2>1. ASSUME o.kind = "read"
        PROVE  AtColumn(o, 0)
    <3>1. Len(o.data) = 0
      BY <2>1, Kinds
    <3>2. Len(Address(o)) >= 2
      BY <2>1, AddressIs, RowBytesAre, Kinds
    <3> QED BY <2>1, <3>1, <3>2 DEF Seen
  <2> QED BY <1>7, <2>1 DEF AtColumn
<1> QED BY <1>1, <1>4, <1>7, <1>8, <1>9, <1>10 DEF Working, AtWork

-----------------------------------------------------------------------------
(***************************************************************************)
(* The chip's work.                                                        *)
(***************************************************************************)
LEMMA AndFF ==
  ASSUME NEW x \in Byte
  PROVE  And(x, FF) = x
<1>1. /\ Bit(FF, 0) = 1 /\ Bit(FF, 1) = 1 /\ Bit(FF, 2) = 1 /\ Bit(FF, 3) = 1
      /\ Bit(FF, 4) = 1 /\ Bit(FF, 5) = 1 /\ Bit(FF, 6) = 1 /\ Bit(FF, 7) = 1
  BY DEF Bit, FF
<1>2. /\ Bit(x, 0) = x % 2 /\ Bit(x, 1) = (x \div 2) % 2 /\ Bit(x, 2) = (x \div 4) % 2
      /\ Bit(x, 3) = (x \div 8) % 2 /\ Bit(x, 4) = (x \div 16) % 2 /\ Bit(x, 5) = (x \div 32) % 2
      /\ Bit(x, 6) = (x \div 64) % 2 /\ Bit(x, 7) = (x \div 128) % 2
  BY DEF Bit, Byte
<1>3. x = (x % 2) * 1 * 1 + ((x \div 2) % 2) * 1 * 2 + ((x \div 4) % 2) * 1 * 4
          + ((x \div 8) % 2) * 1 * 8 + ((x \div 16) % 2) * 1 * 16 + ((x \div 32) % 2) * 1 * 32
          + ((x \div 64) % 2) * 1 * 64 + ((x \div 128) % 2) * 1 * 128
  BY DEF Byte
<1> QED BY <1>1, <1>2, <1>3 DEF And

LEMMA RowIs ==
  ASSUME NEW a \in Nat
  PROVE  RowAt(a) \in Rows
<1>1. a \div ColSpan \in Nat
  BY RowsApart
<1> QED BY <1>1, LinearAssumption DEF RowAt, Rows

\* The work that the chip is at is the effect of the operation.
LEMMA WorkIs ==
  ASSUME NEW o \in Operations, AtWork(o), Memory
  PROVE  Worked = Effect(cells, o) /\ AddressedRow = RowAt(o.at) /\ busy = o.kind /\ ~acted
<1>1. busy = o.kind /\ mode = Confirm(o) /\ Clocked(o, Len(Address(o))) /\ ~acted
  BY DEF AtWork
<1>2. NColBytes = NCols(o)
  BY <1>1, Kinds DEF NColBytes, NCols, Confirm, CMD_READ1, CMD_PAGEPROGRAM1, CMD_BLOCKERASE2
<1>3. AddressedRow = RowAt(o.at)
  BY ONLY o \in Operations, <1>1, <1>2, RowFound
<1>4. PICK r : r = RowAt(o.at)
  OBVIOUS
<1>5. r \in Rows /\ cells \in [Rows -> [Cols -> Byte]]
  BY <1>4, Kinds, RowIs DEF Memory
<1>6. CASE o.kind = "read"
  BY <1>1, <1>3, <1>6 DEF Worked, Effect
<1>7. CASE o.kind = "erase"
  BY <1>1, <1>3, <1>7 DEF Worked, Effect
<1>8. CASE o.kind = "program"
  <2>1. PICK c : c = ColAt(o.at)
    OBVIOUS
  <2>2. PICK d : d = o.data
    OBVIOUS
  <2>3. d \in Seq(Byte) /\ DOMAIN d = 1 .. Len(d)
    BY <2>2, Kinds
  <2>4. \A k \in Cols : reg[k] = IF k - c + 1 \in 1 .. Len(d) THEN d[k - c + 1] ELSE FF
    BY <1>8, <2>1, <2>2 DEF AtWork, Filled
  <2>5. ASSUME NEW k \in Cols
        PROVE  And(cells[r][k], reg[k])
                 = IF k - c + 1 \in DOMAIN d THEN And(cells[r][k], d[k - c + 1]) ELSE cells[r][k]
    <3>1. cells[r][k] \in Byte
      BY <1>5
    <3>2. And(cells[r][k], FF) = cells[r][k]
      BY ONLY <3>1, AndFF
    <3>3. reg[k] = IF k - c + 1 \in DOMAIN d THEN d[k - c + 1] ELSE FF
      BY ONLY <2>3, <2>4, k \in Cols
    <3> QED BY ONLY <3>2, <3>3
  <2>6. [k \in Cols |-> And(cells[r][k], reg[k])]
          = [k \in Cols |-> IF k - c + 1 \in DOMAIN d THEN And(cells[r][k], d[k - c + 1])
                            ELSE cells[r][k]]
    BY ONLY <2>5
  <2>7. Worked = [cells EXCEPT ![r] = [k \in Cols |-> And(cells[r][k], reg[k])]]
    BY <1>1, <1>3, <1>4, <1>5, <1>8 DEF Worked
  <2>8. Effect(cells, o)
          = [cells EXCEPT ![r] = [k \in Cols |-> IF k - c + 1 \in DOMAIN d
                                                 THEN And(cells[r][k], d[k - c + 1])
                                                 ELSE cells[r][k]]]
    BY <1>4, <1>8, <2>1, <2>2 DEF Effect, ProgramRow
  <2>9. Worked = Effect(cells, o)
    BY ONLY <2>6, <2>7, <2>8
  <2> QED BY ONLY <1>1, <1>3, <2>9
<1> QED BY <1>6, <1>7, <1>8, Kinds

LEMMA WorkDone ==
  ASSUME NEW o \in Operations, AtWork(o), Memory, ChipFinishes
  PROVE  /\ ~stopped => Did(o)'
         /\ AtColumn(o, 0) => AtColumn(o, 0)'
         /\ op' = op /\ stopped' = stopped /\ busy' = "none"
         /\ cells' = Effect(cells, o) /\ (o.kind = "read" => cells' = cells)
         /\ ~acted /\ (acted' <=> o.kind # "read")
<1>1. Worked = Effect(cells, o) /\ AddressedRow = RowAt(o.at) /\ busy = o.kind /\ ~acted
  BY WorkIs
<1>2. /\ busy' = "none" /\ op' = op /\ stopped' = stopped /\ mode' = mode /\ col' = col
      /\ cells' = Worked /\ reg' = (IF busy = "read" THEN cells[AddressedRow] ELSE reg)
      /\ acted' = (acted \/ busy # "read")
  BY DEF ChipFinishes
<1>3. AtColumn(o, 0) => AtColumn(o, 0)'
  BY <1>2 DEF AtColumn
<1>4. o.kind = "read" => mode = CMD_READ2
  BY DEF AtWork, Confirm
<1>5. o.kind = "read" => cells' = cells
  BY <1>1, <1>2 DEF Worked
<1>6. acted' <=> o.kind # "read"
  BY ONLY <1>1, <1>2
<1>7. ~stopped => Did(o)'
  BY ONLY <1>1, <1>2, <1>4, <1>5, <1>6 DEF Did
<1> QED BY ONLY <1>1, <1>2, <1>3, <1>5, <1>6, <1>7

LEMMA StatusKeeps ==
  ASSUME NEW o \in Operations, Did(o), o.kind # "read", LatchCommand(CMD_READSTATUS)
  PROVE  Did(o)' /\ op' = op /\ cells' = cells
<1>1. PICK c : c = CMD_READSTATUS
  OBVIOUS
<1>2. c \notin Setup /\ c # CMD_RESET /\ Confirmed(c) = "none"
  BY <1>1 DEF Confirmed, Setup, CMD_READ1, CMD_PAGEPROGRAM1, CMD_READSTATUS,
     CMD_BLOCKERASE1, CMD_RESET, CMD_READ2, CMD_PAGEPROGRAM2, CMD_BLOCKERASE2, CMD_READID, CMD_EN_ECC
<1>3. OtherCommand(c)
  BY <1>1, <1>2 DEF LatchCommand, SetupCommand
<1>4. /\ busy' = busy /\ cells' = cells
      /\ op' = op /\ acted' = acted /\ stopped' = stopped
  BY <1>2, <1>3 DEF OtherCommand
<1> QED BY <1>4 DEF Did

\* nRE falls: the next column, if the register is read.
LEMMA ReadClock ==
  ASSUME NEW o \in Operations, Did(o), Memory, ClockOut, out' \in Driven, NEW i \in Nat,
         o.kind = "read" => AtColumn(o, i)
  PROVE  /\ Did(o)' /\ op' = op /\ cells' = cells
         /\ out' # -1 /\ out' \in Byte /\ Drives(o, i)'
         /\ o.kind = "read" => AtColumn(o, i + 1)'
<1>1. /\ col' = IF mode = CMD_READ2 /\ col \in Cols THEN col + 1 ELSE col
      /\ mode' = mode /\ reg' = reg /\ busy' = busy /\ cells' = cells /\ op' = op
      /\ acted' = acted /\ stopped' = stopped
  BY DEF ClockOut
<1>2. Did(o)'
  BY <1>1 DEF Did
<1>3. out' \in Byte /\ out' # -1
  <2>1. Driven \subseteq Byte
    BY PinAssumption DEF Driven, Memory
  <2>2. -1 \notin Byte
    BY DEF Byte
  <2> QED BY <2>1, <2>2
<1>4. PICK c : c = ColAt(o.at)
  OBVIOUS
<1>5. c \in Nat /\ PageLen \in Nat
  <2>1. PICK a : a = o.at
    OBVIOUS
  <2>2. a \in Nat
    BY <2>1, Kinds
  <2> QED BY ONLY <1>4, <2>1, <2>2, ColumnIs
<1>6. ASSUME o.kind = "read"
      PROVE  Drives(o, i)' /\ AtColumn(o, i + 1)'
  <2>1. /\ mode = CMD_READ2 /\ reg = cells[RowAt(o.at)] /\ busy = "none"
        /\ IF c + i \in Cols THEN col = c + i ELSE col \notin Cols
    BY <1>4, <1>6 DEF Did, AtColumn
  <2>2. IF c + (i + 1) \in Cols THEN col' = c + (i + 1) ELSE col' \notin Cols
    BY <1>1, <1>5, <2>1 DEF Cols
  <2>3. AtColumn(o, i + 1)'
    BY ONLY <1>4, <2>2 DEF AtColumn
  <2>4. c + i \in Cols => out' = reg[c + i]
    BY <2>1 DEF Driven, CMD_READ2, CMD_READSTATUS
  <2>5. c + i \in Cols => out' = cells'[RowAt(o.at)][c + i]
    BY ONLY <1>1, <2>1, <2>4
  <2> QED BY ONLY <1>4, <2>3, <2>5 DEF Drives
<1>7. Drives(o, i)'
  BY <1>6 DEF Drives
<1> QED BY ONLY <1>1, <1>2, <1>3, <1>6, <1>7

\* A byte is what the bus has, or after a mishap what the buffer held.
Sampling ==
  Head(todo).do = "sample" =>
    \E b : InBuf' = Append(InBuf, b) /\ (b \in OnBus \/ (mishaps' # <<>> /\ b \in Stale))

\* What went wrong is not forgotten.
Lasting == mishaps' = <<>> => mishaps = <<>>

\* The buffer held bytes, before the n-th.
Stales(n) == Len(InBuf) < n => Stale \subseteq Byte

LEMMA ByteGathered ==
  ASSUME NEW o \in Operations, NEW i \in Nat, Gathered(o, i), Drives(o, i), out # -1, io = -1,
         Sampling, Head(todo).do = "sample", Lasting, cells' = cells, InBuf \in Seq(Byte),
         out \in Byte \cup {-1}, NEW n, i < n, Stales(n)
  PROVE  Gathered(o, i + 1)' /\ InBuf' \in Seq(Byte)
<1>1. PICK y : InBuf' = Append(InBuf, y) /\ (y \in OnBus \/ (mishaps' # <<>> /\ y \in Stale))
  BY DEF Sampling
<1>2. Len(InBuf) = i /\ out \in Byte /\ OnBus = {out}
  BY DEF Gathered, OnBus
<1>3. y \in Byte /\ (mishaps' = <<>> => y = out)
  BY <1>1, <1>2 DEF Stales
<1>4. /\ InBuf' \in Seq(Byte) /\ Len(InBuf') = i + 1 /\ InBuf'[i + 1] = y
      /\ \A x \in 1 .. i : InBuf'[x] = InBuf[x]
  BY <1>1, <1>2, <1>3
<1>5. ASSUME o.kind = "read", mishaps' = <<>>, NEW x \in 1 .. i + 1
      PROVE  LET k == ColAt(o.at) + x - 1
             IN k \in Cols => InBuf'[x] = cells[RowAt(o.at)][k]
  <2>1. CASE x = i + 1
    <3>1. PICK c \in Nat : c = ColAt(o.at)
      BY Kinds, ColumnIs
    <3>2. c + x - 1 = c + i
      BY <2>1
    <3>3. c + i \in Cols => out = cells[RowAt(o.at)][c + i]
      BY <1>5, <3>1 DEF Drives
    <3> QED BY ONLY <1>3, <1>4, <1>5, <2>1, <3>1, <3>2, <3>3
  <2>2. CASE x # i + 1
    <3>1. x \in 1 .. i
      BY <2>2
    <3> QED BY <1>4, <1>5, <3>1 DEF Gathered, Lasting
  <2> QED BY <2>1, <2>2
<1> QED BY <1>4, <1>5 DEF Gathered

-----------------------------------------------------------------------------
(***************************************************************************)
(* The moves of an operation.                                              *)
(***************************************************************************)
\* What no move of an operation changes.
Kept == InBuf' \in Seq(Byte) /\ reg' \in [Cols -> Byte] /\ op' = op /\ cells' = cells

LEMMA SameChip ==
  ASSUME UNCHANGED chip, NEW o, NEW m, NEW q
  PROVE  /\ op' = op /\ cells' = cells /\ reg' = reg
         /\ Resting => Resting'
         /\ Seen(o, m, q) => Seen(o, m, q)'
         /\ Working(o) => Working(o)'
         /\ AtWork(o) => AtWork(o)'
         /\ Did(o) => Did(o)'
         /\ AtColumn(o, q) => AtColumn(o, q)'
         /\ InBuf' = InBuf /\ Lasting /\ Gathered(o, q) => Gathered(o, q)'
<1>1. /\ mode' = mode /\ addr' = addr /\ reg' = reg /\ col' = col /\ busy' = busy
      /\ cells' = cells /\ op' = op /\ acted' = acted /\ stopped' = stopped
  BY DEF chip
<1>2. Resting => Resting'
  BY ONLY <1>1 DEF Resting
<1>3. AtColumn(o, q) => AtColumn(o, q)'
  BY ONLY <1>1 DEF AtColumn
<1>4. AtColumn(o, 0) => AtColumn(o, 0)'
  BY ONLY <1>1 DEF AtColumn
<1>5. Filled(o, q) => Filled(o, q)'
  BY ONLY <1>1 DEF Filled
<1>6. Filled(o, Len(o.data)) => Filled(o, Len(o.data))'
  BY ONLY <1>1 DEF Filled
<1>7. Clocked(o, m) => Clocked(o, m)'
  BY ONLY <1>1 DEF Clocked
<1>8. Clocked(o, Len(Address(o))) => Clocked(o, Len(Address(o)))'
  BY ONLY <1>1 DEF Clocked
<1>9. Seen(o, m, q) => Seen(o, m, q)'
  BY ONLY <1>1, <1>2, <1>3, <1>5, <1>7 DEF Seen
<1>10. Did(o) => Did(o)'
  BY ONLY <1>1 DEF Did
<1>11. AtWork(o) => AtWork(o)'
  BY ONLY <1>1, <1>6, <1>8 DEF AtWork
<1>12. Working(o) => Working(o)'
  BY ONLY <1>1, <1>4, <1>10, <1>11 DEF Working
<1>13. InBuf' = InBuf /\ Lasting /\ Gathered(o, q) => Gathered(o, q)'
  BY ONLY <1>1 DEF Gathered, Lasting
<1> QED BY ONLY <1>1, <1>2, <1>3, <1>9, <1>10, <1>11, <1>12, <1>13

LEMMA QuietKept ==
  ASSUME UNCHANGED chip, InBuf' = InBuf, InBuf \in Seq(Byte), Memory
  PROVE  Kept
<1>1. reg' = reg /\ op' = op /\ cells' = cells
  BY DEF chip
<1> QED BY <1>1 DEF Kept, Memory

\* What is left is a sequence of moves.
LEMMA PlanIs ==
  ASSUME NEW o \in Operations, NEW n
  PROVE  /\ IsSeq(AfterRead(o)) /\ IsSeq(AfterStatus(o, n)) /\ IsSeq(AfterWait(o, n))
         /\ IsSeq(AfterConfirm(o, n)) /\ IsSeq(AfterData(o, n)) /\ IsSeq(AfterRows(o, n))
         /\ IsSeq(AfterColumns(o, n)) /\ IsSeq(AfterSetup(o, n)) /\ IsSeq(AfterRaise(o, n))
<1>1. \A m, r : IsSeq(r) => IsSeq(First(m, r))
  BY ONLY FirstStep
<1>2. IsSeq(AfterRead(o))
  BY ONLY <1>1, EmptySequence DEF AfterRead
<1>3. IsSeq(AfterStatus(o, n))
  BY ONLY <1>1, <1>2 DEF AfterStatus
<1>4. IsSeq(AfterWait(o, n))
  BY ONLY <1>1, <1>3 DEF AfterWait
<1>5. IsSeq(AfterConfirm(o, n))
  BY ONLY <1>1, <1>4 DEF AfterConfirm
<1>6. IsSeq(AfterData(o, n))
  BY ONLY <1>1, <1>5 DEF AfterData
<1>7. IsSeq(AfterRows(o, n))
  BY ONLY <1>1, <1>6 DEF AfterRows
<1>8. IsSeq(AfterColumns(o, n))
  BY ONLY <1>1, <1>7 DEF AfterColumns
<1>9. IsSeq(AfterSetup(o, n))
  BY ONLY <1>1, <1>8 DEF AfterSetup
<1>10. IsSeq(AfterRaise(o, n))
  BY ONLY <1>1, <1>9 DEF AfterRaise
<1> QED BY ONLY <1>2, <1>3, <1>4, <1>5, <1>6, <1>7, <1>8, <1>9, <1>10

LEMMA BasePins ==
  ASSUME NEW o
  PROVE  /\ PinSet(Base(o)) /\ "WE" \in Base(o) /\ "ALE" \notin Base(o)
         /\ Base(o) \cup {"WE"} = Base(o) /\ (o.kind # "read" => "WP" \in Base(o))
         /\ PinSet(WithRows(o)) /\ "WE" \in WithRows(o)
         /\ WithRows(o) \cup {"ALE"} = Base(o) \cup {"ALE"}
         /\ PinSet(Base(o) \cup {"ALE"}) /\ PinSet(Up) /\ "WE" \in Up /\ "ALE" \notin Up
         /\ Up \cup {"WE"} = Up
BY DEF Base, Up, PinSet, WithRows

\* No bytes of a call are left.
LEMMA NoneLeftNext ==
  ASSUME NEW s, NEW d, NEW bs, NEW r, NEW S, NEW i, InStrobe(s, d, bs, r, S, i, 0)',
         IsSeq(s), IsSeq(r), Len(s) = d + 3 * i + 0
  PROVE  todo' = r /\ Pinned(S)'
<1>1. PICK k : k = d + 3 * i + 0
  OBVIOUS
<1>2. todo' = From(s, k, r) /\ Pinned(S)'
  BY <1>1 DEF InStrobe
<1>3. From(s, k, r) = r
  BY ONLY <1>1, IsSeq(s), IsSeq(r), Len(s) = d + 3 * i + 0, FromEnds
<1> QED BY ONLY <1>2, <1>3

Moving ==
  /\ Moves /\ Memory /\ InBuf \in Seq(Byte)
  /\ Sampling /\ Lasting
  /\ Head(todo).do = "wait" /\ busy # "none" => todo' = todo

\* The page register holds bytes.
LEMMA CommandReg ==
  ASSUME NEW c, LatchCommand(c), Memory
  PROVE  reg' \in [Cols -> Byte]
<1>1. FF \in Byte
  BY DEF FF, Byte
<1> QED BY <1>1 DEF LatchCommand, Reset, SetupCommand, OtherCommand, Memory

LEMMA ClockReg ==
  ASSUME NEW S, NEW b \in Byte, Clocks(S, b), Memory
  PROVE  reg' \in [Cols -> Byte]
<1>1. CASE "ALE" \in S
  BY <1>1 DEF Clocks, LatchAddress, Memory
<1>2. CASE "ALE" \notin S
  BY <1>2 DEF Clocks, LatchData, Memory
<1> QED BY <1>1, <1>2

\* What the calls drive on the bus is bytes.
LEMMA CommandDriven ==
  ASSUME NEW o
  PROVE  Starts(o) # -1 /\ Confirm(o) # -1 /\ CMD_READSTATUS # -1
BY DEF Starts, Confirm, CMD_READ1, CMD_READ2, CMD_PAGEPROGRAM1, CMD_PAGEPROGRAM2, CMD_BLOCKERASE1,
       CMD_BLOCKERASE2, CMD_READSTATUS

LEMMA ColumnDriven ==
  ASSUME NEW a \in Nat, NEW i \in 0 .. 1
  PROVE  ColumnBytes(a)[i + 1] # -1
<1>1. ColSpan \in Nat \ {0}
  BY LinearAssumption
<1>2. PICK c : c = a % ColSpan
  OBVIOUS
<1>3. c \in Nat
  BY <1>1, <1>2, DivMod
<1>4. c % 256 \in Nat /\ c \div 256 \in Nat
  BY <1>3
<1>5. ColumnBytes(a)[1] = c % 256 /\ ColumnBytes(a)[2] = c \div 256
  BY <1>2, ColumnBytesAre
<1>6. i + 1 = 1 \/ i + 1 = 2
  OBVIOUS
<1> QED BY ONLY <1>4, <1>5, <1>6

LEMMA RowDriven ==
  ASSUME NEW a \in Nat, NEW i \in Nat, i < Len(RowBytes(a))
  PROVE  RowBytes(a)[i + 1] # -1
<1>1. PICK r : r = RowNumber(a)
  OBVIOUS
<1>2. r \in Nat
  <2>1. ColSpan \in Nat \ {0} /\ RowStep \in Nat
    BY LinearAssumption
  <2>2. PICK q \in Nat : q = a \div ColSpan
    BY <2>1, DivMod
  <2>3. r = RowStep * q
    BY <1>1, <2>2 DEF RowNumber
  <2> QED BY ONLY <2>1, <2>2, <2>3, q \in Nat
<1>3. PICK m \in {4, 16} : m = IF Nand.type = "S34" THEN 4 ELSE 16
  OBVIOUS
<1>4. r % 256 \in Nat /\ (r \div 256) % 256 \in Nat /\ (r \div 65536) % m \in Nat
  BY ONLY <1>2, m \in {4, 16}
<1>5. /\ Len(RowBytes(a)) \in 2 .. 3 /\ (Len(RowBytes(a)) = 3 => Nand.type # "MT29")
      /\ RowBytes(a)[1] = r % 256 /\ RowBytes(a)[2] = (r \div 256) % 256
      /\ Nand.type # "MT29" => RowBytes(a)[3] = (r \div 65536) % m
  <2>1. /\ Len(RowBytes(a)) \in 2 .. 3
        /\ Len(RowBytes(a)) = IF Nand.type = "MT29" THEN 2 ELSE 3
        /\ RowBytes(a)[1] = RowNumber(a) % 256
        /\ RowBytes(a)[2] = (RowNumber(a) \div 256) % 256
        /\ Nand.type # "MT29" =>
             RowBytes(a)[3] = (RowNumber(a) \div 65536) % (IF Nand.type = "S34" THEN 4 ELSE 16)
    BY ONLY a \in Nat, RowBytesAre
  <2>2. Len(RowBytes(a)) = 3 => Nand.type # "MT29"
    BY ONLY <2>1
  <2> QED BY ONLY <1>1, <1>3, <2>1, <2>2
<1>6. /\ i + 1 \in {1, 2, 3}
      /\ i + 1 = 3 => Nand.type # "MT29"
  <2>1. PICK k : k = Len(RowBytes(a))
    OBVIOUS
  <2>2. k \in 2 .. 3 /\ (k = 3 => Nand.type # "MT29") /\ i < k
    BY ONLY <1>5, <2>1, i < Len(RowBytes(a))
  <2>3. i + 1 \in {1, 2, 3} /\ (i + 1 = 3 => k = 3)
    BY ONLY <2>2, i \in Nat
  <2> QED BY ONLY <2>2, <2>3
<1> QED BY ONLY <1>4, <1>5, <1>6

LEMMA RaiseMoves ==
  ASSUME NEW o \in Operations, NEW n \in Nat, Moving, AtRaise(o, n)
  PROVE  AtSetup(o, n)' /\ Kept
<1>1. o.kind # "read" /\ todo = Plan(o, n) /\ Lagging(Up) /\ Resting
  BY DEF AtRaise
<1>2. PICK r : r = AfterRaise(o, n)
  OBVIOUS
<1>3. IsSeq(r)
  BY <1>2, PlanIs
<1>4. todo = First(ShadowHigh("WP"), r)
  BY ONLY <1>1, <1>2 DEF Plan
<1>5. Head(todo) = ShadowHigh("WP") /\ Tail(todo) = r
  BY ONLY <1>3, <1>4, FirstStep
<1>6. PICK p : p = "WP"
  OBVIOUS
<1>7. Head(todo) = ShadowHigh(p)
  BY ONLY <1>5, <1>6
<1>8. shadow' = shadow \cup {p} /\ todo' = Tail(todo) /\ UNCHANGED <<pins, io, out, InBuf, chip>>
  BY ONLY <1>7, ShadowRise, Moving DEF Moving
<1>9. UNCHANGED chip /\ InBuf' = InBuf /\ pins' = pins /\ shadow' = shadow \cup {"WP"} /\ todo' = r
  BY ONLY <1>5, <1>6, <1>8
<1>10. Base(o) = Up \cup {"WP"}
  BY <1>1 DEF Base
<1>11. Lagging(Base(o))'
  BY ONLY <1>1, <1>9, <1>10 DEF Lagging
<1>12. Resting'
  BY ONLY <1>1, <1>9, SameChip
<1>13. Kept
  BY ONLY <1>9, Moving, QuietKept DEF Moving
<1> QED BY ONLY <1>2, <1>9, <1>11, <1>12, <1>13 DEF AtSetup

LEMMA SetupCalls ==
  ASSUME NEW o \in Operations, NEW n \in Nat, Moving, AtSetup(o, n)
  PROVE  InSetup(o, n)' /\ Kept
<1>1. todo = AfterRaise(o, n) /\ Lagging(Base(o)) /\ Resting
  BY DEF AtSetup
<1>2. PICK r : r = AfterSetup(o, n)
  OBVIOUS
<1>3. IsSeq(r)
  BY <1>2, PlanIs
<1>4. PICK c : c = Starts(o)
  OBVIOUS
<1>5. PICK k : k = <<c>>
  OBVIOUS
<1>6. PICK s : s = latch_command(k)
  OBVIOUS
<1>7. IsSeq(s)
  BY <1>5, <1>6, CommandIs
<1>8. todo = First(Call("latch_command", k), r)
  BY <1>1, <1>2, <1>4, <1>5 DEF AfterRaise
<1>9. PinSet(Base(o)) /\ Moves
  BY BasePins DEF Moving
<1>10. InLatch(s, c, r, Base(o), 0)' /\ InBuf' = InBuf /\ UNCHANGED chip
  BY ONLY <1>1, <1>3, <1>6, <1>7, <1>8, <1>9, CommandCall
<1>11. Resting'
  BY ONLY <1>1, <1>10, SameChip
<1>12. Kept
  BY ONLY <1>10, Moving, QuietKept DEF Moving
<1>13. InLatch(latch_command(<<Starts(o)>>), Starts(o), AfterSetup(o, n), Base(o), 0)'
  BY ONLY <1>2, <1>4, <1>5, <1>6, <1>10
<1>14. InSetup(o, n)'
  BY ONLY <1>11, <1>13, 0 \in 0 .. 4, 0 <= 3 DEF InSetup
<1> QED BY ONLY <1>12, <1>14

LEMMA SetupMoves ==
  ASSUME NEW o \in Operations, NEW n \in Nat, Moving, InSetup(o, n)
  PROVE  (InSetup(o, n) \/ AtColumns(o, n) \/ AtRows(o, n))' /\ Kept
<1>1. PICK r : r = AfterSetup(o, n)
  OBVIOUS
<1>2. IsSeq(r)
  BY <1>1, PlanIs
<1>3. PICK c : c = Starts(o)
  OBVIOUS
<1>4. PICK s : s = latch_command(<<c>>)
  OBVIOUS
<1>5. PICK S : S = Base(o)
  OBVIOUS
<1>6. IsSeq(s) /\ Len(s) = 5 /\ HasCommand(s, c)
  BY <1>4, CommandIs
<1>7. PICK j \in 0 .. 4 : InLatch(s, c, r, S, j) /\ (IF j <= 3 THEN Resting ELSE Seen(o, 0, 0))
  BY <1>1, <1>3, <1>4, <1>5 DEF InSetup
<1>8. PinSet(S) /\ S \cup {"WE"} = S /\ Moves /\ c # -1
  BY <1>3, <1>5, BasePins, CommandDriven DEF Moving
<1>9. /\ j <= 3 => InLatch(s, c, r, S, j + 1)'
      /\ j = 4 => todo' = From(s, 5, r) /\ Pinned(S \cup {"WE"})'
      /\ j # 3 => UNCHANGED chip
      /\ j = 3 => LatchCommand(c) /\ pins \cup {"WE"} = S \cup {"CLE", "WE"}
      /\ InBuf' = InBuf
  BY ONLY <1>2, <1>6, <1>7, <1>8, j \in 0 .. 4, LatchMove
<1>10. CASE j <= 2
  <2>1. Resting /\ UNCHANGED chip
    BY ONLY <1>7, <1>9, <1>10, j \in 0 .. 4
  <2>2. Resting'
    BY ONLY <2>1, SameChip
  <2>3. j + 1 \in 0 .. 4 /\ j + 1 <= 3
    BY ONLY <1>10, j \in 0 .. 4
  <2>4. InLatch(s, c, r, S, j + 1)'
    BY ONLY <1>9, <1>10, j \in 0 .. 4
  <2>5. InSetup(o, n)'
    BY ONLY <1>1, <1>3, <1>4, <1>5, <2>2, <2>3, <2>4 DEF InSetup
  <2>6. Kept
    BY ONLY <1>9, <2>1, Moving, QuietKept DEF Moving
  <2> QED BY ONLY <2>5, <2>6
<1>11. CASE j = 3
  <2>1. Resting /\ LatchCommand(Starts(o))
    BY ONLY <1>3, <1>7, <1>9, <1>11
  <2>2. Seen(o, 0, 0)' /\ op' = op /\ cells' = cells
    BY ONLY <2>1, o \in Operations, StartSeen
  <2>3. InLatch(s, c, r, S, 4)'
    <3>1. 3 + 1 = 4 /\ 3 <= 3
      OBVIOUS
    <3> QED BY ONLY <1>9, <1>11, <3>1
  <2>4. 4 \in 0 .. 4 /\ ~(4 <= 3)
    OBVIOUS
  <2>5. InSetup(o, n)'
    BY ONLY <1>1, <1>3, <1>4, <1>5, <2>2, <2>3, <2>4 DEF InSetup
  <2>6. reg' \in [Cols -> Byte]
    BY <2>1, CommandReg DEF Moving
  <2>7. Kept
    BY ONLY <1>9, <2>2, <2>6, Moving DEF Kept, Moving
  <2> QED BY ONLY <2>5, <2>7
<1>12. CASE j = 4
  <2>1. UNCHANGED chip /\ Seen(o, 0, 0)
    BY ONLY <1>7, <1>9, <1>12
  <2>2. Seen(o, 0, 0)'
    BY ONLY <2>1, SameChip
  <2>3. todo' = From(s, 5, r) /\ Pinned(S)'
    BY ONLY <1>8, <1>9, <1>12
  <2>4. PICK k : k = 5
    OBVIOUS
  <2>5. From(s, k, r) = r
    BY ONLY <1>2, <1>6, <2>4, FromEnds
  <2>6. todo' = r
    BY ONLY <2>3, <2>4, <2>5
  <2>7. Kept
    BY ONLY <1>9, <2>1, Moving, QuietKept DEF Moving
  <2>8. CASE o.kind # "erase"
    <3>1. AtColumns(o, n)'
      BY ONLY <1>1, <1>5, <2>2, <2>3, <2>6, <2>8 DEF AtColumns
    <3> QED BY ONLY <2>7, <3>1
  <2>9. CASE o.kind = "erase"
    <3>1. AfterSetup(o, n) = AfterColumns(o, n) /\ WithRows(o) = Base(o) /\ NCols(o) = 0
      BY <2>9 DEF AfterSetup, WithRows, NCols
    <3>2. AtRows(o, n)'
      BY ONLY <1>1, <1>5, <2>2, <2>3, <2>6, <3>1 DEF AtRows
    <3> QED BY ONLY <2>7, <3>2
  <2> QED BY ONLY <2>8, <2>9
<1> QED BY ONLY <1>10, <1>11, <1>12, j \in 0 .. 4

LEMMA ColumnsCalls ==
  ASSUME NEW o \in Operations, NEW n \in Nat, Moving, AtColumns(o, n)
  PROVE  InColumns(o, n)' /\ Kept
<1>1. o.kind # "erase" /\ todo = AfterSetup(o, n) /\ Pinned(Base(o)) /\ Seen(o, 0, 0)
  BY DEF AtColumns
<1>2. PICK r : r = AfterColumns(o, n)
  OBVIOUS
<1>3. PICK a : a = o.at
  OBVIOUS
<1>4. PICK s : s = setcolumns(a)
  OBVIOUS
<1>5. IsSeq(r) /\ a \in Nat
  BY <1>2, <1>3, PlanIs, Kinds
<1>6. PICK f : f = "setcolumns"
  OBVIOUS
<1>7. f \in {"setcolumns", "setrows"} /\ s = Body(f, a) /\ IsSeq(s)
  BY <1>4, <1>5, <1>6, ColumnMoves DEF Body
<1>8. todo = First(Call(f, a), r)
  BY <1>1, <1>2, <1>3, <1>6 DEF AfterSetup
<1>9. PinSet(Base(o)) /\ Moves
  BY BasePins DEF Moving
<1>10. todo' = From(s, 0, r) /\ Pinned(Base(o))' /\ InBuf' = InBuf /\ UNCHANGED chip
  BY ONLY <1>1, <1>5, <1>7, <1>8, <1>9, AddressCall
<1>11. Seen(o, 0, 0)'
  BY ONLY <1>1, <1>10, SameChip
<1>12. Kept
  BY ONLY <1>10, Moving, QuietKept DEF Moving
<1>13. InColumns(o, n)'
  BY ONLY <1>1, <1>2, <1>3, <1>4, <1>10, <1>11 DEF InColumns
<1> QED BY ONLY <1>12, <1>13

LEMMA ColumnsMoves ==
  ASSUME NEW o \in Operations, NEW n \in Nat, Moving, InColumns(o, n)
  PROVE  (InColumns(o, n) \/ AtRows(o, n))' /\ Kept
<1>1. PICK r : r = AfterColumns(o, n)
  OBVIOUS
<1>2. PICK s : s = setcolumns(o.at)
  OBVIOUS
<1>3. PICK bs : bs = ColumnBytes(o.at)
  OBVIOUS
<1>4. PICK S : S = Base(o)
  OBVIOUS
<1>5. PICK A : A = S \cup {"ALE"}
  OBVIOUS
<1>6. IsSeq(r) /\ o.kind # "erase" /\ Moves
  BY <1>1, PlanIs DEF InColumns, Moving
<1>7. /\ IsSeq(s) /\ Len(s) = 7 /\ s[1] = PinHigh("ALE") /\ HasStrobes(s, 1, bs)
      /\ IsSeq(bs) /\ Len(bs) = 2
  <2>1. PICK a : a = o.at
    OBVIOUS
  <2>2. a \in Nat
    BY <2>1, Kinds
  <2>3. s = setcolumns(a) /\ bs = ColumnBytes(a)
    BY <1>2, <1>3, <2>1
  <2> QED BY ONLY <2>2, <2>3, ColumnMoves, ColumnBytesAre
<1>8. PinSet(S) /\ "WE" \in S /\ PinSet(A) /\ "WE" \in A /\ "ALE" \in A
  BY <1>4, <1>5, BasePins
<1>9. CASE todo = From(s, 0, r) /\ Pinned(S) /\ Seen(o, 0, 0)
  <2>1. 1 <= Len(s)
    BY ONLY <1>7
  <2>2. InStrobe(s, 1, bs, r, S \cup {"ALE"}, 0, 0)' /\ UNCHANGED chip /\ InBuf' = InBuf
    BY ONLY <1>6, <1>7, <1>8, <1>9, <2>1, AddressBegins
  <2>3. Seen(o, 0, 0)'
    BY ONLY <1>9, <2>2, SameChip
  <2>4. Kept
    BY ONLY <2>2, Moving, QuietKept DEF Moving
  <2>5. 0 \in 0 .. 1 /\ 0 \in 0 .. 2
    OBVIOUS
  <2>6. InColumns(o, n)'
    BY ONLY <1>1, <1>2, <1>3, <1>4, <1>6, <2>2, <2>3, <2>5 DEF InColumns
  <2> QED BY ONLY <2>4, <2>6
<1>10. CASE \E i \in 0 .. 1, t \in 0 .. 2 : InStrobe(s, 1, bs, r, A, i, t) /\ Seen(o, i, 0)
  <2>1. PICK i \in 0 .. 1, t \in 0 .. 2 : InStrobe(s, 1, bs, r, A, i, t) /\ Seen(o, i, 0)
    BY <1>10
  <2>2. i \in Nat /\ i < Len(bs) /\ 1 \in Nat /\ bs[i + 1] # -1
    <3>1. i \in Nat /\ i < Len(bs)
      BY ONLY <1>7, i \in 0 .. 1
    <3>2. bs[i + 1] # -1
      BY <1>3, Kinds, ColumnDriven
    <3> QED BY ONLY <3>1, <3>2
  <2>3. /\ t = 0 => InStrobe(s, 1, bs, r, A, i, 1)'
        /\ t = 1 => InStrobe(s, 1, bs, r, A, i, 2)'
        /\ t # 2 => UNCHANGED chip
        /\ t = 2 => InStrobe(s, 1, bs, r, A, i + 1, 0)' /\ Clocks(A, bs[i + 1])
        /\ InBuf' = InBuf
    BY ONLY <1>6, <1>7, <1>8, <2>1, <2>2, t \in 0 .. 2, StrobeMove
  <2>4. CASE t # 2
    <3>1. UNCHANGED chip
      BY ONLY <2>3, <2>4
    <3>2. Seen(o, i, 0)'
      BY ONLY <2>1, <3>1, SameChip
    <3>3. Kept
      BY ONLY <2>3, <3>1, Moving, QuietKept DEF Moving
    <3>4. PICK u \in 0 .. 2 : InStrobe(s, 1, bs, r, A, i, u)'
      <4>1. 1 \in 0 .. 2 /\ 2 \in 0 .. 2 /\ (t = 0 \/ t = 1)
        BY ONLY <2>4, t \in 0 .. 2
      <4> QED BY ONLY <2>3, <4>1
    <3>5. InColumns(o, n)'
      BY ONLY <1>1, <1>2, <1>3, <1>4, <1>5, <1>6, <3>2, <3>4, i \in 0 .. 1 DEF InColumns
    <3> QED BY ONLY <3>3, <3>5
  <2>5. CASE t = 2
    <3>1. PICK b : b = bs[i + 1]
      OBVIOUS
    <3>2. LatchAddress(b) /\ Clocks(A, b)
      BY ONLY <1>8, <2>3, <2>5, <3>1 DEF Clocks
    <3>3. b = Address(o)[i + 1] /\ i < Len(Address(o))
      <4>1. i = 0 \/ i = 1
        OBVIOUS
      <4>2. Address(o)[1] = bs[1] /\ Address(o)[2] = bs[2] /\ Len(Address(o)) >= 2
        BY <1>3, <1>6, AddressIs, RowBytesAre, Kinds
      <4>3. 0 + 1 = 1 /\ 1 + 1 = 2
        OBVIOUS
      <4>4. i < Len(Address(o))
        BY <4>1, <4>2, AddressIs, LengthOf
      <4> QED BY ONLY <3>1, <4>1, <4>2, <4>3, <4>4
    <3>4. PICK k : k = i + 1
      OBVIOUS
    <3>5. Seen(o, i + 1, 0)' /\ op' = op /\ cells' = cells
      BY ONLY o \in Operations, <2>1, <2>2, <3>2, <3>3, AddressSeen
    <3>6. Seen(o, k, 0)' /\ InStrobe(s, 1, bs, r, A, k, 0)'
      BY ONLY <2>3, <2>5, <3>4, <3>5
    <3>7. reg' = reg
      BY ONLY <3>2 DEF LatchAddress
    <3>8. Kept
      BY ONLY <2>3, <3>5, <3>7, Moving DEF Kept, Moving, Memory
    <3>9. CASE i = 0
      <4>1. k \in 0 .. 1 /\ 0 \in 0 .. 2
        BY ONLY <3>4, <3>9
      <4>2. InColumns(o, n)'
        BY ONLY <1>1, <1>2, <1>3, <1>4, <1>5, <1>6, <3>6, <4>1 DEF InColumns
      <4> QED BY ONLY <3>8, <4>2
    <3>10. CASE i = 1
      <4>1. k = 2 /\ Len(s) = 1 + 3 * k + 0
        BY ONLY <1>7, <3>4, <3>10
      <4>2. (todo = r /\ Pinned(A))'
        BY ONLY <1>6, <1>7, <3>6, <4>1, NoneLeftNext
      <4>3. WithRows(o) = A /\ NCols(o) = 2
        BY <1>4, <1>5, <1>6 DEF WithRows, NCols
      <4>4. AtRows(o, n)'
        BY ONLY <1>1, <3>6, <4>1, <4>2, <4>3 DEF AtRows
      <4> QED BY ONLY <3>8, <4>4
    <3> QED BY ONLY <3>9, <3>10, i \in 0 .. 1
  <2> QED BY ONLY <2>4, <2>5
<1> QED BY <1>1, <1>2, <1>3, <1>4, <1>5, <1>9, <1>10 DEF InColumns

LEMMA RowsCalls ==
  ASSUME NEW o \in Operations, NEW n \in Nat, Moving, AtRows(o, n)
  PROVE  InRows(o, n)' /\ Kept
<1>1. todo = AfterColumns(o, n) /\ Pinned(WithRows(o)) /\ Seen(o, NCols(o), 0)
  BY DEF AtRows
<1>2. PICK r : r = AfterRows(o, n)
  OBVIOUS
<1>3. PICK a : a = o.at
  OBVIOUS
<1>4. PICK s : s = setrows(a)
  OBVIOUS
<1>5. IsSeq(r) /\ a \in Nat
  BY <1>2, <1>3, PlanIs, Kinds
<1>6. PICK f : f = "setrows"
  OBVIOUS
<1>7. f \in {"setcolumns", "setrows"} /\ s = Body(f, a) /\ IsSeq(s)
  BY <1>4, <1>5, <1>6, RowMoves DEF Body
<1>8. todo = First(Call(f, a), r)
  BY <1>1, <1>2, <1>3, <1>6 DEF AfterColumns
<1>9. PinSet(WithRows(o)) /\ Moves
  BY BasePins DEF Moving
<1>10. todo' = From(s, 0, r) /\ Pinned(WithRows(o))' /\ InBuf' = InBuf /\ UNCHANGED chip
  BY ONLY <1>1, <1>5, <1>7, <1>8, <1>9, AddressCall
<1>11. Seen(o, NCols(o), 0)'
  BY ONLY <1>1, <1>10, SameChip
<1>12. Kept
  BY ONLY <1>10, Moving, QuietKept DEF Moving
<1>13. InRows(o, n)'
  BY ONLY <1>2, <1>3, <1>4, <1>10, <1>11 DEF InRows
<1> QED BY ONLY <1>12, <1>13

LEMMA RowsMoves ==
  ASSUME NEW o \in Operations, NEW n \in Nat, Moving, InRows(o, n)
  PROVE  (InRows(o, n) \/ AtData(o, n) \/ AtConfirm(o, n))' /\ Kept
<1>1. PICK r : r = AfterRows(o, n)
  OBVIOUS
<1>2. PICK s : s = setrows(o.at)
  OBVIOUS
<1>3. PICK bs : bs = RowBytes(o.at)
  OBVIOUS
<1>4. PICK S : S = Base(o)
  OBVIOUS
<1>5. PICK A : A = S \cup {"ALE"}
  OBVIOUS
<1>6. PICK L : L = Len(bs)
  OBVIOUS
<1>7. IsSeq(r) /\ Moves
  BY <1>1, PlanIs DEF Moving
<1>8. /\ IsSeq(s) /\ Len(s) = 3 * L + 2 /\ s[1] = PinHigh("ALE") /\ s[3 * L + 2] = PinLow("ALE")
      /\ HasStrobes(s, 1, bs) /\ IsSeq(bs) /\ L \in Nat /\ L >= 2
  <2>1. PICK a : a = o.at
    OBVIOUS
  <2>2. a \in Nat
    BY <2>1, Kinds
  <2>3. s = setrows(a) /\ bs = RowBytes(a)
    BY <1>2, <1>3, <2>1
  <2>4. IsSeq(bs) /\ L \in Nat /\ L >= 2
    BY <1>6, <2>2, <2>3, RowBytesAre
  <2>5. /\ IsSeq(s) /\ Len(s) = 3 * L + 2 /\ s[1] = PinHigh("ALE") /\ s[3 * L + 2] = PinLow("ALE")
        /\ HasStrobes(s, 1, bs)
    BY ONLY <1>6, <2>2, <2>3, RowMoves
  <2> QED BY ONLY <2>4, <2>5
<1>9. PICK m : m = NCols(o)
  OBVIOUS
<1>10. /\ m \in {0, 2} /\ Len(Address(o)) = m + L
       /\ \A i \in 1 .. L : Address(o)[m + i] = bs[i]
  BY ONLY <1>3, <1>6, <1>9, o \in Operations, AddressIs
<1>11. PinSet(S) /\ "WE" \in S /\ PinSet(A) /\ "WE" \in A /\ "ALE" \in A /\ "ALE" \notin S
  BY <1>4, <1>5, BasePins
<1>12. CASE todo = From(s, 0, r) /\ Pinned(WithRows(o)) /\ Seen(o, m, 0)
  <2>1. 1 <= Len(s)
    BY ONLY <1>8
  <2>2. PICK W : W = WithRows(o)
    OBVIOUS
  <2>3. PinSet(W) /\ "WE" \in W /\ Pinned(W) /\ W \cup {"ALE"} = A
    BY <1>4, <1>5, <1>12, <2>2, BasePins
  <2>4. InStrobe(s, 1, bs, r, W \cup {"ALE"}, 0, 0)' /\ UNCHANGED chip /\ InBuf' = InBuf
    BY ONLY <1>7, <1>8, <1>12, <2>1, <2>3, AddressBegins
  <2>5. InStrobe(s, 1, bs, r, A, 0, 0)'
    BY ONLY <2>3, <2>4
  <2>6. Seen(o, m + 0, 0)'
    <3>1. m + 0 = m
      BY <1>10
    <3> QED BY ONLY <1>12, <2>4, <3>1, SameChip
  <2>7. Kept
    BY ONLY <2>4, Moving, QuietKept DEF Moving
  <2>8. 0 \in 0 .. L /\ 0 \in 0 .. 2 /\ (0 = L => 0 = 0)
    BY ONLY <1>8
  <2>9. InRows(o, n)'
    BY ONLY <1>1, <1>2, <1>3, <1>4, <1>5, <1>6, <1>9, <2>5, <2>6, <2>8 DEF InRows
  <2> QED BY ONLY <2>7, <2>9
<1>13. CASE \E i \in 0 .. L, t \in 0 .. 2 :
              (i = L => t = 0) /\ InStrobe(s, 1, bs, r, A, i, t) /\ Seen(o, m + i, 0)
  <2>1. PICK i \in 0 .. L, t \in 0 .. 2 :
          (i = L => t = 0) /\ InStrobe(s, 1, bs, r, A, i, t) /\ Seen(o, m + i, 0)
    BY <1>13
  <2>2. CASE i # L
    <3>1. i \in Nat /\ i < L /\ i < Len(bs) /\ 1 \in Nat /\ bs[i + 1] # -1
      <4>1. i \in Nat /\ i < L /\ i < Len(bs)
        BY ONLY <1>6, <1>8, <2>2, i \in 0 .. L
      <4>2. bs[i + 1] # -1
        BY <1>3, <4>1, Kinds, RowDriven
      <4> QED BY ONLY <4>1, <4>2
    <3>2. /\ t = 0 => InStrobe(s, 1, bs, r, A, i, 1)'
          /\ t = 1 => InStrobe(s, 1, bs, r, A, i, 2)'
          /\ t # 2 => UNCHANGED chip
          /\ t = 2 => InStrobe(s, 1, bs, r, A, i + 1, 0)' /\ Clocks(A, bs[i + 1])
          /\ InBuf' = InBuf
      BY ONLY <1>7, <1>8, <1>11, <2>1, <3>1, t \in 0 .. 2, StrobeMove
    <3>3. CASE t # 2
      <4>1. UNCHANGED chip
        BY ONLY <3>2, <3>3
      <4>2. Seen(o, m + i, 0)'
        BY ONLY <2>1, <4>1, SameChip
      <4>3. Kept
        BY ONLY <3>2, <4>1, Moving, QuietKept DEF Moving
      <4>4. PICK u \in 0 .. 2 : InStrobe(s, 1, bs, r, A, i, u)'
        <5>1. 1 \in 0 .. 2 /\ 2 \in 0 .. 2 /\ (t = 0 \/ t = 1)
          BY ONLY <3>3, t \in 0 .. 2
        <5> QED BY ONLY <3>2, <5>1
      <4>5. InRows(o, n)'
        BY ONLY <1>1, <1>2, <1>3, <1>4, <1>5, <1>6, <1>9, <2>2, <4>2, <4>4, i \in 0 .. L DEF InRows
      <4> QED BY ONLY <4>3, <4>5
    <3>4. CASE t = 2
      <4>1. PICK b : b = bs[i + 1]
        OBVIOUS
      <4>2. LatchAddress(b) /\ Clocks(A, b)
        BY ONLY <1>11, <3>2, <3>4, <4>1 DEF Clocks
      <4>3. PICK k : k = m + i
        OBVIOUS
      <4>4. PICK h : h = i + 1
        OBVIOUS
      <4>5. k \in Nat /\ k + 1 = m + h /\ h \in 1 .. L /\ k < Len(Address(o))
        BY ONLY <1>8, <1>10, <3>1, <4>3, <4>4
      <4>6. b = Address(o)[k + 1]
        BY ONLY <1>10, <4>1, <4>4, <4>5
      <4>7. Seen(o, k, 0)
        BY ONLY <2>1, <4>3
      <4>8. Seen(o, k + 1, 0)' /\ op' = op /\ cells' = cells
        BY ONLY o \in Operations, <4>2, <4>5, <4>6, <4>7, AddressSeen
      <4>9. Seen(o, m + h, 0)' /\ InStrobe(s, 1, bs, r, A, h, 0)'
        BY ONLY <3>2, <3>4, <4>4, <4>5, <4>8
      <4>10. reg' = reg
        BY ONLY <4>2 DEF LatchAddress
      <4>11. Kept
        BY ONLY <3>2, <4>8, <4>10, Moving DEF Kept, Moving, Memory
      <4>12. h \in 0 .. L /\ 0 \in 0 .. 2 /\ (h = L => 0 = 0)
        BY ONLY <1>8, <4>5
      <4>13. InRows(o, n)'
        BY ONLY <1>1, <1>2, <1>3, <1>4, <1>5, <1>6, <1>9, <4>9, <4>12 DEF InRows
      <4> QED BY ONLY <4>11, <4>13
    <3> QED BY ONLY <3>3, <3>4
  <2>3. CASE i = L
    <3>1. InStrobe(s, 1, bs, r, S \cup {"ALE"}, L, 0) /\ Seen(o, m + L, 0)
      BY ONLY <1>5, <2>1, <2>3
    <3>2. 1 \in Nat /\ Len(s) = 1 + 3 * L + 1 /\ s[1 + 3 * L + 1] = PinLow("ALE")
      <4>1. 1 + 3 * L + 1 = 3 * L + 2
        BY ONLY <1>8
      <4> QED BY ONLY <1>8, <4>1
    <3>3. todo' = r /\ Pinned(S)' /\ UNCHANGED chip /\ InBuf' = InBuf
      BY ONLY <1>7, <1>8, <1>11, <3>1, <3>2, AddressEnds
    <3>4. Seen(o, Len(Address(o)), 0)'
      BY ONLY <1>10, <3>1, <3>3, SameChip
    <3>5. Kept
      BY ONLY <3>3, Moving, QuietKept DEF Moving
    <3>6. CASE o.kind = "program"
      <4>1. AtData(o, n)'
        BY ONLY <1>1, <1>4, <3>3, <3>4, <3>6 DEF AtData
      <4> QED BY ONLY <3>5, <4>1
    <3>7. CASE o.kind # "program"
      <4>1. AfterRows(o, n) = AfterData(o, n) /\ Len(o.data) = 0
        BY <3>7, Kinds DEF AfterRows
      <4>2. AtConfirm(o, n)'
        BY ONLY <1>1, <1>4, <3>3, <3>4, <4>1 DEF AtConfirm
      <4> QED BY ONLY <3>5, <4>2
    <3> QED BY ONLY <3>6, <3>7
  <2> QED BY ONLY <2>2, <2>3
<1> QED BY <1>1, <1>2, <1>3, <1>4, <1>5, <1>6, <1>9, <1>12, <1>13 DEF InRows

LEMMA DataCalls ==
  ASSUME NEW o \in Operations, NEW n \in Nat, Moving, AtData(o, n)
  PROVE  (InData(o, n) \/ AtConfirm(o, n))' /\ Kept
<1>1. PICK L : L = Len(Address(o))
  OBVIOUS
<1>2. o.kind = "program" /\ todo = AfterRows(o, n) /\ Pinned(Base(o)) /\ Seen(o, L, 0)
  BY <1>1 DEF AtData
<1>3. PICK r : r = AfterData(o, n)
  OBVIOUS
<1>4. PICK d : d = o.data
  OBVIOUS
<1>5. PICK s : s = latch_data_out(d)
  OBVIOUS
<1>6. IsSeq(r) /\ IsSeq(d) /\ Moves /\ Len(d) \in Nat
  BY <1>3, <1>4, PlanIs, Kinds DEF Moving
<1>7. todo = First(Call("latch_data_out", d), r)
  BY <1>2, <1>3, <1>4 DEF AfterRows
<1>8. InStrobe(latch_data_out(d), 0, d, r, Base(o), 0, 0)' /\ InBuf' = InBuf /\ UNCHANGED chip
  BY ONLY <1>2, <1>6, <1>7, DataCall
<1>9. Seen(o, L, 0)'
  BY ONLY <1>2, <1>8, SameChip
<1>10. Kept
  BY ONLY <1>8, Moving, QuietKept DEF Moving
<1>11. CASE Len(d) # 0
  <2>1. 0 \in 0 .. Len(d) - 1 /\ 0 \in 0 .. 2
    BY ONLY <1>6, <1>11
  <2>2. InData(o, n)'
    BY ONLY <1>1, <1>2, <1>3, <1>4, <1>8, <1>9, <2>1 DEF InData
  <2> QED BY ONLY <1>10, <2>2
<1>12. CASE Len(d) = 0
  <2>1. IsSeq(s) /\ Len(s) = 3 * Len(d)
    BY ONLY <1>5, <1>6, DataMoves
  <2>2. PICK k : k = 0
    OBVIOUS
  <2>3. Len(s) = 0 + 3 * k + 0 /\ InStrobe(s, 0, d, r, Base(o), k, 0)'
    BY ONLY <1>5, <1>8, <1>12, <2>1, <2>2
  <2>4. (todo = r /\ Pinned(Base(o)))'
    BY ONLY <1>6, <2>1, <2>3, NoneLeftNext
  <2>5. AtConfirm(o, n)'
    BY ONLY <1>1, <1>3, <1>4, <1>9, <1>12, <2>4 DEF AtConfirm
  <2> QED BY ONLY <1>10, <2>5
<1> QED BY ONLY <1>11, <1>12

LEMMA DataMove ==
  ASSUME NEW o \in Operations, NEW n \in Nat, Moving, InData(o, n)
  PROVE  (InData(o, n) \/ AtConfirm(o, n))' /\ Kept
<1>1. PICK L : L = Len(Address(o))
  OBVIOUS
<1>2. PICK r : r = AfterData(o, n)
  OBVIOUS
<1>3. PICK d : d = o.data
  OBVIOUS
<1>4. PICK s : s = latch_data_out(d)
  OBVIOUS
<1>5. PICK S : S = Base(o)
  OBVIOUS
<1>6. PICK D : D = Len(d)
  OBVIOUS
<1>7. IsSeq(r) /\ IsSeq(d) /\ Moves /\ D \in Nat /\ o.kind = "program" /\ d \in Seq(Byte)
  BY <1>2, <1>3, <1>6, PlanIs, Kinds DEF Moving, InData
<1>8. IsSeq(s) /\ Len(s) = 3 * D /\ HasStrobes(s, 0, d)
  BY ONLY <1>4, <1>6, <1>7, DataMoves
<1>9. PinSet(S) /\ "WE" \in S /\ "ALE" \notin S
  BY <1>5, BasePins
<1>10. PICK i \in 0 .. D - 1, t \in 0 .. 2 : InStrobe(s, 0, d, r, S, i, t) /\ Seen(o, L, i)
  BY <1>1, <1>2, <1>3, <1>4, <1>5, <1>6 DEF InData
<1>11. i \in Nat /\ i < Len(d) /\ 0 \in Nat /\ d[i + 1] # -1
  <2>1. i \in Nat /\ i < Len(d)
    BY ONLY <1>6, <1>7, i \in 0 .. D - 1
  <2>2. PICK b \in Byte : b = d[i + 1]
    BY ONLY <1>7, <2>1
  <2>3. b # -1
    BY DEF Byte
  <2> QED BY ONLY <2>1, <2>2, <2>3
<1>12. /\ t = 0 => InStrobe(s, 0, d, r, S, i, 1)'
       /\ t = 1 => InStrobe(s, 0, d, r, S, i, 2)'
       /\ t # 2 => UNCHANGED chip
       /\ t = 2 => InStrobe(s, 0, d, r, S, i + 1, 0)' /\ Clocks(S, d[i + 1])
       /\ InBuf' = InBuf
  BY ONLY <1>7, <1>8, <1>9, <1>10, <1>11, t \in 0 .. 2, StrobeMove
<1>13. CASE t # 2
  <2>1. UNCHANGED chip
    BY ONLY <1>12, <1>13
  <2>2. Seen(o, L, i)'
    BY ONLY <1>10, <2>1, SameChip
  <2>3. Kept
    BY ONLY <1>12, <2>1, Moving, QuietKept DEF Moving
  <2>4. PICK u \in 0 .. 2 : InStrobe(s, 0, d, r, S, i, u)'
    <3>1. 1 \in 0 .. 2 /\ 2 \in 0 .. 2 /\ (t = 0 \/ t = 1)
      BY ONLY <1>13, t \in 0 .. 2
    <3> QED BY ONLY <1>12, <3>1
  <2>5. InData(o, n)'
    BY ONLY <1>1, <1>2, <1>3, <1>4, <1>5, <1>6, <1>7, <2>2, <2>4, i \in 0 .. D - 1 DEF InData
  <2> QED BY ONLY <2>3, <2>5
<1>14. CASE t = 2
  <2>1. PICK b : b = d[i + 1]
    OBVIOUS
  <2>2. LatchData(b) /\ Clocks(S, b) /\ b \in Byte
    <3>1. LatchData(b) /\ Clocks(S, b)
      BY ONLY <1>9, <1>12, <1>14, <2>1 DEF Clocks
    <3>2. b \in Byte
      BY ONLY <1>7, <1>11, <2>1
    <3> QED BY ONLY <3>1, <3>2
  <2>3. L \in Nat /\ L >= 2
    BY <1>1, <1>7, AddressIs, RowBytesAre, Kinds
  <2>4. reg' \in [Cols -> Byte] /\ reg \in [Cols -> Byte]
    <3>1. Memory
      BY DEF Moving
    <3>2. reg \in [Cols -> Byte]
      BY ONLY <3>1 DEF Memory
    <3> QED BY ONLY <2>2, <3>1, <3>2, ClockReg
  <2>5. i < Len(o.data) /\ b = o.data[i + 1]
    BY ONLY <1>3, <1>11, <2>1
  <2>6. Seen(o, L, i + 1)' /\ op' = op /\ cells' = cells
    BY ONLY o \in Operations, <1>7, <1>10, <1>11, <2>2, <2>3, <2>4, <2>5, DataSeen
  <2>7. PICK k : k = i + 1
    OBVIOUS
  <2>8. Seen(o, L, k)' /\ InStrobe(s, 0, d, r, S, k, 0)'
    BY ONLY <1>12, <1>14, <2>6, <2>7
  <2>9. Kept
    BY ONLY <1>12, <2>4, <2>6, Moving DEF Kept, Moving
  <2>10. CASE k # D
    <3>1. k \in 0 .. D - 1 /\ 0 \in 0 .. 2
      BY ONLY <1>6, <1>7, <1>11, <2>7, <2>10
    <3>2. InData(o, n)'
      BY ONLY <1>1, <1>2, <1>3, <1>4, <1>5, <1>6, <1>7, <2>8, <3>1 DEF InData
    <3> QED BY ONLY <2>9, <3>2
  <2>11. CASE k = D
    <3>1. Len(s) = 0 + 3 * k + 0
      BY ONLY <1>7, <1>8, <2>11
    <3>2. (todo = r /\ Pinned(S))'
      BY ONLY <1>7, <1>8, <2>8, <3>1, NoneLeftNext
    <3>3. AtConfirm(o, n)'
      BY ONLY <1>1, <1>2, <1>3, <1>5, <1>6, <2>8, <2>11, <3>2 DEF AtConfirm
    <3> QED BY ONLY <2>9, <3>3
  <2> QED BY ONLY <2>10, <2>11
<1> QED BY ONLY <1>13, <1>14

LEMMA ConfirmCalls ==
  ASSUME NEW o \in Operations, NEW n \in Nat, Moving, AtConfirm(o, n)
  PROVE  InConfirm(o, n)' /\ Kept
<1>1. todo = AfterData(o, n) /\ Pinned(Base(o)) /\ Seen(o, Len(Address(o)), Len(o.data))
  BY DEF AtConfirm
<1>2. PICK r : r = AfterConfirm(o, n)
  OBVIOUS
<1>3. IsSeq(r)
  BY <1>2, PlanIs
<1>4. PICK c : c = Confirm(o)
  OBVIOUS
<1>5. PICK k : k = <<c>>
  OBVIOUS
<1>6. PICK s : s = latch_command(k)
  OBVIOUS
<1>7. IsSeq(s)
  BY <1>5, <1>6, CommandIs
<1>8. todo = First(Call("latch_command", k), r)
  BY <1>1, <1>2, <1>4, <1>5 DEF AfterData
<1>9. PinSet(Base(o)) /\ Moves
  BY BasePins DEF Moving
<1>10. Lagging(Base(o))
  BY ONLY <1>1 DEF Lagging, Pinned
<1>11. InLatch(s, c, r, Base(o), 0)' /\ InBuf' = InBuf /\ UNCHANGED chip
  BY ONLY <1>3, <1>6, <1>7, <1>8, <1>9, <1>10, CommandCall
<1>12. Seen(o, Len(Address(o)), Len(o.data))'
  BY ONLY <1>1, <1>11, SameChip
<1>13. Kept
  BY ONLY <1>11, Moving, QuietKept DEF Moving
<1>14. InLatch(latch_command(<<Confirm(o)>>), Confirm(o), AfterConfirm(o, n), Base(o), 0)'
  BY ONLY <1>2, <1>4, <1>5, <1>6, <1>11
<1>15. InConfirm(o, n)'
  BY ONLY <1>12, <1>14, 0 \in 0 .. 4, 0 <= 3 DEF InConfirm
<1> QED BY ONLY <1>13, <1>15

LEMMA ConfirmMoves ==
  ASSUME NEW o \in Operations, NEW n \in Nat, Moving, InConfirm(o, n)
  PROVE  (InConfirm(o, n) \/ AtWait(o, n))' /\ Kept
<1>1. PICK r : r = AfterConfirm(o, n)
  OBVIOUS
<1>2. IsSeq(r)
  BY <1>1, PlanIs
<1>3. PICK c : c = Confirm(o)
  OBVIOUS
<1>4. PICK s : s = latch_command(<<c>>)
  OBVIOUS
<1>5. PICK S : S = Base(o)
  OBVIOUS
<1>6. IsSeq(s) /\ Len(s) = 5 /\ HasCommand(s, c)
  BY <1>4, CommandIs
<1>7. PICK m : m = Len(Address(o))
  OBVIOUS
<1>8. PICK q : q = Len(o.data)
  OBVIOUS
<1>9. PICK j \in 0 .. 4 : InLatch(s, c, r, S, j) /\ (IF j <= 3 THEN Seen(o, m, q) ELSE Working(o))
  BY <1>1, <1>3, <1>4, <1>5, <1>7, <1>8 DEF InConfirm
<1>10. PinSet(S) /\ S \cup {"WE"} = S /\ Moves /\ (o.kind # "read" => "WP" \in S)
       /\ c # -1
  BY <1>3, <1>5, BasePins, CommandDriven DEF Moving
<1>11. /\ j <= 3 => InLatch(s, c, r, S, j + 1)'
       /\ j = 4 => todo' = From(s, 5, r) /\ Pinned(S \cup {"WE"})'
       /\ j # 3 => UNCHANGED chip
       /\ j = 3 => LatchCommand(c) /\ pins \cup {"WE"} = S \cup {"CLE", "WE"}
       /\ InBuf' = InBuf
  BY ONLY <1>2, <1>6, <1>9, <1>10, j \in 0 .. 4, LatchMove
<1>12. CASE j <= 2
  <2>1. Seen(o, m, q) /\ UNCHANGED chip
    BY ONLY <1>9, <1>11, <1>12, j \in 0 .. 4
  <2>2. Seen(o, m, q)'
    BY ONLY <2>1, SameChip
  <2>3. j + 1 \in 0 .. 4 /\ j + 1 <= 3
    BY ONLY <1>12, j \in 0 .. 4
  <2>4. InLatch(s, c, r, S, j + 1)'
    BY ONLY <1>11, <1>12, j \in 0 .. 4
  <2>5. InConfirm(o, n)'
    BY ONLY <1>1, <1>3, <1>4, <1>5, <1>7, <1>8, <2>2, <2>3, <2>4 DEF InConfirm
  <2>6. Kept
    BY ONLY <1>11, <2>1, Moving, QuietKept DEF Moving
  <2> QED BY ONLY <2>5, <2>6
<1>13. CASE j = 3
  <2>1. Seen(o, Len(Address(o)), Len(o.data)) /\ LatchCommand(Confirm(o))
    BY ONLY <1>3, <1>7, <1>8, <1>9, <1>11, <1>13
  <2>2. o.kind # "read" => "WP" \in pins
    BY ONLY <1>10, <1>11, <1>13
  <2>3. Working(o)' /\ op' = op /\ cells' = cells
    BY ONLY <2>1, <2>2, o \in Operations, ConfirmSeen
  <2>4. InLatch(s, c, r, S, 4)'
    <3>1. 3 + 1 = 4 /\ 3 <= 3
      OBVIOUS
    <3> QED BY ONLY <1>11, <1>13, <3>1
  <2>5. 4 \in 0 .. 4 /\ ~(4 <= 3)
    OBVIOUS
  <2>6. InConfirm(o, n)'
    BY ONLY <1>1, <1>3, <1>4, <1>5, <2>3, <2>4, <2>5 DEF InConfirm
  <2>7. reg' \in [Cols -> Byte]
    BY <2>1, CommandReg DEF Moving
  <2>8. Kept
    BY ONLY <1>11, <2>3, <2>7, Moving DEF Kept, Moving
  <2> QED BY ONLY <2>6, <2>8
<1>14. CASE j = 4
  <2>1. UNCHANGED chip /\ Working(o)
    BY ONLY <1>9, <1>11, <1>14
  <2>2. Working(o)'
    BY ONLY <2>1, SameChip
  <2>3. todo' = From(s, 5, r) /\ Pinned(S)'
    BY ONLY <1>10, <1>11, <1>14
  <2>4. PICK k : k = 5
    OBVIOUS
  <2>5. From(s, k, r) = r
    BY ONLY <1>2, <1>6, <2>4, FromEnds
  <2>6. todo' = r
    BY ONLY <2>3, <2>4, <2>5
  <2>7. Kept
    BY ONLY <1>11, <2>1, Moving, QuietKept DEF Moving
  <2>8. AtWait(o, n)'
    BY ONLY <1>1, <1>5, <2>2, <2>3, <2>6 DEF AtWait
  <2> QED BY ONLY <2>7, <2>8
<1> QED BY ONLY <1>12, <1>13, <1>14, j \in 0 .. 4

\* The work is done when the wait ends.
LEMMA WaitMoves ==
  ASSUME NEW o \in Operations, NEW n \in Nat, Moving, AtWait(o, n)
  PROVE  (AtWait(o, n) \/ AtStatus(o, n) \/ AtRead(o, n))' /\ Kept
<1>1. todo = AfterConfirm(o, n) /\ Pinned(Base(o)) /\ Working(o)
  BY DEF AtWait
<1>2. PICK r : r = AfterWait(o, n)
  OBVIOUS
<1>3. IsSeq(r)
  BY <1>2, PlanIs
<1>4. todo = First(WaitRdy, r)
  BY ONLY <1>1, <1>2 DEF AfterConfirm
<1>5. Head(todo) = WaitRdy /\ Tail(todo) = r
  BY ONLY <1>3, <1>4, FirstStep
<1>6. /\ busy = "none" \/ todo' = todo
      /\ todo' = todo \/ todo' = Tail(todo)
      /\ UNCHANGED <<shadow, pins, io, out, InBuf, chip>>
  BY ONLY <1>5, Moving, WaitMove DEF Moving
<1>7. UNCHANGED chip /\ InBuf' = InBuf /\ shadow' = shadow /\ pins' = pins
  BY ONLY <1>6
<1>8. Pinned(Base(o))'
  BY ONLY <1>1, <1>7 DEF Pinned
<1>9. Working(o)'
  BY ONLY <1>1, <1>7, SameChip
<1>10. Kept
  BY ONLY <1>7, Moving, QuietKept DEF Moving
<1>11. CASE todo' = todo
  <2>1. AtWait(o, n)'
    BY ONLY <1>1, <1>8, <1>9, <1>11 DEF AtWait
  <2> QED BY ONLY <1>10, <2>1
<1>12. CASE todo' = Tail(todo) /\ todo' # todo
  <2>1. todo' = r
    BY ONLY <1>5, <1>12
  <2>2. busy = "none" /\ o.kind # "none"
    BY <1>6, <1>12, Kinds
  <2>3. Did(o) /\ (o.kind = "read" => AtColumn(o, 0))
    BY ONLY <1>1, <2>2 DEF Working, AtWork
  <2>4. Did(o)' /\ (o.kind = "read" => AtColumn(o, 0)')
    BY ONLY <1>7, <2>3, SameChip
  <2>5. CASE o.kind = "read"
    <3>1. r = AfterStatus(o, n)
      BY <1>2, <2>5 DEF AfterWait
    <3>2. AtRead(o, n)'
      BY ONLY <1>8, <2>1, <2>4, <3>1 DEF AtRead
    <3> QED BY ONLY <1>10, <3>2
  <2>6. CASE o.kind # "read"
    <3>1. AtStatus(o, n)'
      BY ONLY <1>2, <1>8, <2>1, <2>4, <2>6 DEF AtStatus
    <3> QED BY ONLY <1>10, <3>1
  <2> QED BY ONLY <2>5, <2>6
<1> QED BY ONLY <1>6, <1>11, <1>12

LEMMA StatusCalls ==
  ASSUME NEW o \in Operations, NEW n \in Nat, Moving, AtStatus(o, n)
  PROVE  InStatus(o, n)' /\ Kept
<1>1. o.kind # "read" /\ todo = AfterWait(o, n) /\ Pinned(Base(o)) /\ Did(o)
  BY DEF AtStatus
<1>2. PICK r : r = AfterStatus(o, n)
  OBVIOUS
<1>3. IsSeq(r)
  BY <1>2, PlanIs
<1>4. PICK c : c = CMD_READSTATUS
  OBVIOUS
<1>5. PICK k : k = <<c>>
  OBVIOUS
<1>6. PICK s : s = latch_command(k)
  OBVIOUS
<1>7. IsSeq(s)
  BY <1>5, <1>6, CommandIs
<1>8. todo = First(Call("latch_command", k), r)
  BY <1>1, <1>2, <1>4, <1>5 DEF AfterWait
<1>9. PinSet(Base(o)) /\ Moves
  BY BasePins DEF Moving
<1>10. Lagging(Base(o))
  BY ONLY <1>1 DEF Lagging, Pinned
<1>11. InLatch(s, c, r, Base(o), 0)' /\ InBuf' = InBuf /\ UNCHANGED chip
  BY ONLY <1>3, <1>6, <1>7, <1>8, <1>9, <1>10, CommandCall
<1>12. Did(o)'
  BY ONLY <1>1, <1>11, SameChip
<1>13. Kept
  BY ONLY <1>11, Moving, QuietKept DEF Moving
<1>14. InLatch(latch_command(<<CMD_READSTATUS>>), CMD_READSTATUS, AfterStatus(o, n), Base(o), 0)'
  BY ONLY <1>2, <1>4, <1>5, <1>6, <1>11
<1>15. InStatus(o, n)'
  BY ONLY <1>1, <1>12, <1>14, 0 \in 0 .. 4 DEF InStatus
<1> QED BY ONLY <1>13, <1>15

LEMMA StatusMoves ==
  ASSUME NEW o \in Operations, NEW n \in Nat, Moving, InStatus(o, n)
  PROVE  (InStatus(o, n) \/ AtRead(o, n))' /\ Kept
<1>1. PICK r : r = AfterStatus(o, n)
  OBVIOUS
<1>2. IsSeq(r)
  BY <1>1, PlanIs
<1>3. PICK c : c = CMD_READSTATUS
  OBVIOUS
<1>4. PICK s : s = latch_command(<<c>>)
  OBVIOUS
<1>5. PICK S : S = Base(o)
  OBVIOUS
<1>6. IsSeq(s) /\ Len(s) = 5 /\ HasCommand(s, c)
  BY <1>4, CommandIs
<1>7. PICK j \in 0 .. 4 : InLatch(s, c, r, S, j)
  BY <1>1, <1>3, <1>4, <1>5 DEF InStatus
<1>8. o.kind # "read" /\ Did(o)
  BY DEF InStatus
<1>9. PinSet(S) /\ S \cup {"WE"} = S /\ Moves /\ c # -1
  BY <1>3, <1>5, BasePins, CommandDriven DEF Moving
<1>10. /\ j <= 3 => InLatch(s, c, r, S, j + 1)'
       /\ j = 4 => todo' = From(s, 5, r) /\ Pinned(S \cup {"WE"})'
       /\ j # 3 => UNCHANGED chip
       /\ j = 3 => LatchCommand(c) /\ pins \cup {"WE"} = S \cup {"CLE", "WE"}
       /\ InBuf' = InBuf
  BY ONLY <1>2, <1>6, <1>7, <1>9, j \in 0 .. 4, LatchMove
<1>11. Did(o)' /\ Kept
  <2>1. CASE j # 3
    <3>1. UNCHANGED chip
      BY ONLY <1>10, <2>1
    <3>2. Did(o)'
      BY ONLY <1>8, <3>1, SameChip
    <3>3. Kept
      BY ONLY <1>10, <3>1, Moving, QuietKept DEF Moving
    <3> QED BY ONLY <3>2, <3>3
  <2>2. CASE j = 3
    <3>1. LatchCommand(CMD_READSTATUS)
      BY ONLY <1>3, <1>10, <2>2
    <3>2. Did(o)' /\ op' = op /\ cells' = cells
      BY ONLY <1>8, <3>1, o \in Operations, StatusKeeps
    <3>3. reg' \in [Cols -> Byte]
      BY <3>1, CommandReg DEF Moving
    <3>4. Kept
      BY ONLY <1>10, <3>2, <3>3, Moving DEF Kept, Moving
    <3> QED BY ONLY <3>2, <3>4
  <2> QED BY ONLY <2>1, <2>2
<1>12. CASE j <= 3
  <2>1. j + 1 \in 0 .. 4
    BY ONLY <1>12, j \in 0 .. 4
  <2>2. InLatch(s, c, r, S, j + 1)'
    BY ONLY <1>10, <1>12
  <2>3. InStatus(o, n)'
    BY ONLY <1>1, <1>3, <1>4, <1>5, <1>8, <1>11, <2>1, <2>2 DEF InStatus
  <2> QED BY ONLY <1>11, <2>3
<1>13. CASE j = 4
  <2>1. todo' = From(s, 5, r) /\ Pinned(S)'
    BY ONLY <1>9, <1>10, <1>13
  <2>2. PICK k : k = 5
    OBVIOUS
  <2>3. From(s, k, r) = r
    BY ONLY <1>2, <1>6, <2>2, FromEnds
  <2>4. todo' = r
    BY ONLY <2>1, <2>2, <2>3
  <2>5. AtRead(o, n)'
    BY ONLY <1>1, <1>5, <1>8, <1>11, <2>1, <2>4 DEF AtRead
  <2> QED BY ONLY <1>11, <2>5
<1> QED BY ONLY <1>12, <1>13, j \in 0 .. 4

LEMMA ReadCalls ==
  ASSUME NEW o \in Operations, NEW n \in Nat, Moving, AtRead(o, n)
  PROVE  InRead(o, n)' /\ Kept
<1>1. /\ todo = AfterStatus(o, n) /\ Pinned(Base(o)) /\ Did(o)
      /\ o.kind = "read" => AtColumn(o, 0)
  BY DEF AtRead
<1>2. PICK r : r = AfterRead(o)
  OBVIOUS
<1>3. IsSeq(r)
  BY <1>2, PlanIs
<1>4. todo = First(Call("read_data", n), r)
  BY <1>1, <1>2 DEF AfterStatus
<1>5. PinSet(Base(o)) /\ "WE" \in Base(o) /\ "ALE" \notin Base(o) /\ Moves
  BY BasePins DEF Moving
<1>6. todo' = From(read_data(n), 0, r) /\ Pinned(Base(o))' /\ InBuf' = <<>> /\ UNCHANGED chip
  BY ONLY <1>1, <1>3, <1>4, <1>5, n \in Nat, ReadCall
<1>7. Did(o)' /\ (o.kind = "read" => AtColumn(o, 0)') /\ op' = op /\ cells' = cells /\ reg' = reg
  BY ONLY <1>1, <1>6, SameChip
<1>8. <<>> \in Seq(Byte) /\ Len(<<>>) = 0
  OBVIOUS
<1>9. Kept
  BY ONLY <1>6, <1>7, <1>8, Moving DEF Kept, Moving, Memory
<1>10. Gathered(o, 0)'
  BY ONLY <1>6, <1>8 DEF Gathered
<1>11. InRead(o, n)'
  BY ONLY <1>2, <1>6, <1>7, <1>10 DEF InRead
<1> QED BY ONLY <1>9, <1>11

LEMMA ReadMoves ==
  ASSUME NEW o \in Operations, NEW n \in Nat, Moving, out \in Byte \cup {-1}, Stales(n), InRead(o, n)
  PROVE  (InRead(o, n) \/ AtLower(o, n) \/ AtEnd(o, n))' /\ Kept
<1>1. PICK r : r = AfterRead(o)
  OBVIOUS
<1>2. PICK S : S = Base(o)
  OBVIOUS
<1>3. IsSeq(r) /\ Moves /\ PinSet(S) /\ "WE" \in S /\ Did(o) /\ Lasting
  BY <1>1, <1>2, PlanIs, BasePins DEF Moving, InRead
<1>4. CASE /\ todo = From(read_data(n), 0, r) /\ Pinned(S) /\ Gathered(o, 0)
           /\ o.kind = "read" => AtColumn(o, 0)
  <2>1. InByte(n, r, S, 0, 0)' /\ InBuf' = InBuf /\ UNCHANGED chip
    BY ONLY <1>3, <1>4, n \in Nat, ReadBegins
  <2>2. Did(o)' /\ (o.kind = "read" => AtColumn(o, 0)') /\ Gathered(o, 0)'
    BY ONLY <1>3, <1>4, <2>1, SameChip
  <2>3. Kept
    BY ONLY <2>1, Moving, QuietKept DEF Moving
  <2>4. 0 \in 0 .. n /\ 0 \in 0 .. 2 /\ (0 = n => 0 = 0) /\ 0 # 2 /\ 0 # 1
    BY ONLY n \in Nat
  <2>5. InRead(o, n)'
    BY ONLY <1>1, <1>2, <2>1, <2>2, <2>4 DEF InRead
  <2> QED BY ONLY <2>3, <2>5
<1>5. CASE \E i \in 0 .. n, t \in 0 .. 2 :
          /\ i = n => t = 0
          /\ InByte(n, r, S, i, t)
          /\ Gathered(o, IF t = 2 THEN i + 1 ELSE i)
          /\ t = 1 => out # -1 /\ Drives(o, i)
          /\ o.kind = "read" => AtColumn(o, IF t = 0 THEN i ELSE i + 1)
  <2>1. PICK i \in 0 .. n, t \in 0 .. 2 :
          /\ i = n => t = 0
          /\ InByte(n, r, S, i, t)
          /\ Gathered(o, IF t = 2 THEN i + 1 ELSE i)
          /\ t = 1 => out # -1 /\ Drives(o, i)
          /\ o.kind = "read" => AtColumn(o, IF t = 0 THEN i ELSE i + 1)
    BY <1>5
  <2>2. /\ i # n /\ t = 0 => InByte(n, r, S, i, 1)' /\ InBuf' = InBuf /\ ClockOut /\ out' \in Driven
        /\ t = 1 => InByte(n, r, S, i, 2)' /\ UNCHANGED chip /\ Head(todo).do = "sample"
        /\ t = 2 => InByte(n, r, S, i + 1, 0)' /\ UNCHANGED chip /\ InBuf' = InBuf
        /\ i = n => todo' = r /\ Pinned(S)' /\ UNCHANGED chip /\ InBuf' = InBuf
    BY ONLY <1>3, <2>1, n \in Nat, i \in 0 .. n, t \in 0 .. 2, ByteMove
  <2>3. i \in Nat /\ (t # 0 => i # n) /\ (i # n => i + 1 \in 0 .. n)
    BY ONLY <2>1, n \in Nat, i \in 0 .. n
  <2>4. CASE i # n /\ t = 0
    <3>1. ClockOut /\ out' \in Driven /\ InBuf' = InBuf /\ InByte(n, r, S, i, 1)'
      BY ONLY <2>2, <2>4
    <3>2. Gathered(o, i) /\ (o.kind = "read" => AtColumn(o, i)) /\ Memory
      BY ONLY <2>1, <2>4, Moving DEF Moving
    <3>3. /\ Did(o)' /\ op' = op /\ cells' = cells
          /\ out' # -1 /\ out' \in Byte /\ Drives(o, i)'
          /\ o.kind = "read" => AtColumn(o, i + 1)'
      BY ONLY <1>3, <2>3, <3>1, <3>2, o \in Operations, ReadClock
    <3>4. Gathered(o, i)'
      BY ONLY <1>3, <3>1, <3>2, <3>3 DEF Gathered, Lasting
    <3>5. reg' = reg
      BY ONLY <3>1 DEF ClockOut
    <3>6. Kept
      BY ONLY <3>1, <3>3, <3>5, Moving DEF Kept, Moving, Memory
    <3>7. 1 \in 0 .. 2 /\ (i = n => 1 = 0) /\ 1 # 2 /\ 1 # 0
      BY ONLY <2>4
    <3>8. InRead(o, n)'
      BY ONLY <1>1, <1>2, <3>1, <3>3, <3>4, <3>7, i \in 0 .. n DEF InRead
    <3> QED BY ONLY <3>6, <3>8
  <2>5. CASE t = 1
    <3>1. InByte(n, r, S, i, 2)' /\ UNCHANGED chip /\ Head(todo).do = "sample"
      BY ONLY <2>2, <2>5
    <3>2. Gathered(o, i) /\ (o.kind = "read" => AtColumn(o, i + 1)) /\ out # -1 /\ Drives(o, i)
      BY ONLY <2>1, <2>5
    <3>3. io = -1 /\ InBuf \in Seq(Byte) /\ Sampling /\ i < n
      <4>1. io = -1 /\ InBuf \in Seq(Byte) /\ Sampling
        BY ONLY <2>1, Moving DEF InByte, Moving
      <4>2. i < n
        BY ONLY <2>3, <2>5, n \in Nat, i \in 0 .. n
      <4> QED BY ONLY <4>1, <4>2
    <3>4. /\ Did(o)' /\ op' = op /\ cells' = cells /\ reg' = reg
          /\ o.kind = "read" => AtColumn(o, i + 1)'
      BY ONLY <1>3, <3>1, <3>2, SameChip
    <3>5. Gathered(o, i + 1)' /\ InBuf' \in Seq(Byte)
      BY ONLY <1>3, <2>3, <3>1, <3>2, <3>3, <3>4, o \in Operations, out \in Byte \cup {-1}, Stales(n),
         ByteGathered
    <3>6. Kept
      BY ONLY <3>4, <3>5, Moving DEF Kept, Moving, Memory
    <3>7. 2 \in 0 .. 2 /\ (i = n => 2 = 0) /\ 2 # 1 /\ 2 # 0
      BY ONLY <2>3, <2>5
    <3>8. InRead(o, n)'
      BY ONLY <1>1, <1>2, <3>1, <3>4, <3>5, <3>7, i \in 0 .. n DEF InRead
    <3> QED BY ONLY <3>6, <3>8
  <2>6. CASE t = 2
    <3>1. PICK k : k = i + 1
      OBVIOUS
    <3>2. InByte(n, r, S, k, 0)' /\ UNCHANGED chip /\ InBuf' = InBuf
      BY ONLY <2>2, <2>6, <3>1
    <3>3. Gathered(o, k) /\ (o.kind = "read" => AtColumn(o, k))
      BY ONLY <2>1, <2>6, <3>1
    <3>4. Did(o)' /\ (o.kind = "read" => AtColumn(o, k)') /\ Gathered(o, k)'
      BY ONLY <1>3, <3>2, <3>3, SameChip
    <3>5. Kept
      BY ONLY <3>2, Moving, QuietKept DEF Moving
    <3>6. k \in 0 .. n /\ 0 \in 0 .. 2 /\ (k = n => 0 = 0) /\ 0 # 1 /\ 0 # 2
      BY ONLY <2>3, <2>6, <3>1
    <3>7. InRead(o, n)'
      BY ONLY <1>1, <1>2, <3>2, <3>4, <3>6 DEF InRead
    <3> QED BY ONLY <3>5, <3>7
  <2>7. CASE i = n
    <3>1. todo' = r /\ Pinned(S)' /\ UNCHANGED chip /\ InBuf' = InBuf /\ t = 0
      BY ONLY <2>1, <2>2, <2>7
    <3>2. Gathered(o, n)
      BY ONLY <2>1, <2>7, <3>1
    <3>3. Did(o)' /\ Gathered(o, n)'
      BY ONLY <1>3, <3>1, <3>2, SameChip
    <3>4. Kept
      BY ONLY <3>1, Moving, QuietKept DEF Moving
    <3>5. CASE o.kind # "read"
      <4>1. AtLower(o, n)'
        BY ONLY <1>1, <1>2, <3>1, <3>3, <3>5 DEF AtLower
      <4> QED BY ONLY <3>4, <4>1
    <3>6. CASE o.kind = "read"
      <4>1. r = <<>> /\ S = Up
        BY <1>1, <1>2, <3>6 DEF AfterRead, Base
      <4>2. AtEnd(o, n)'
        BY ONLY <3>1, <3>3, <4>1 DEF AtEnd, Lagging, Pinned
      <4> QED BY ONLY <3>4, <4>2
    <3> QED BY ONLY <3>5, <3>6
  <2> QED BY ONLY <2>4, <2>5, <2>6, <2>7, t \in 0 .. 2
<1> QED BY <1>1, <1>2, <1>4, <1>5 DEF InRead

LEMMA LowerMoves ==
  ASSUME NEW o \in Operations, NEW n \in Nat, Moving, AtLower(o, n)
  PROVE  AtEnd(o, n)' /\ Kept
<1>1. o.kind # "read" /\ todo = AfterRead(o) /\ Pinned(Base(o)) /\ Did(o) /\ Gathered(o, n)
  BY DEF AtLower
<1>2. PICK r : r = <<>>
  OBVIOUS
<1>3. IsSeq(r)
  BY <1>2, EmptySequence
<1>4. todo = First(ShadowLow("WP"), r)
  BY ONLY <1>1, <1>2 DEF AfterRead
<1>5. Head(todo) = ShadowLow("WP") /\ Tail(todo) = r
  BY ONLY <1>3, <1>4, FirstStep
<1>6. PICK p : p = "WP"
  OBVIOUS
<1>7. Head(todo) = ShadowLow(p)
  BY ONLY <1>5, <1>6
<1>8. shadow' = shadow \ {p} /\ todo' = Tail(todo) /\ UNCHANGED <<pins, io, out, InBuf, chip>>
  BY ONLY <1>7, ShadowFall, Moving DEF Moving
<1>9. UNCHANGED chip /\ InBuf' = InBuf /\ pins' = pins /\ shadow' = shadow \ {"WP"} /\ todo' = <<>>
  BY ONLY <1>2, <1>5, <1>6, <1>8
<1>10. Base(o) = Up \cup {"WP"} /\ "WP" \notin Up
  BY <1>1 DEF Base, Up
<1>11. Lagging(Up)'
  BY ONLY <1>1, <1>9, <1>10 DEF Lagging, Pinned
<1>12. Did(o)' /\ Gathered(o, n)'
  BY ONLY <1>1, <1>9, Moving, SameChip DEF Moving
<1>13. Kept
  BY ONLY <1>9, Moving, QuietKept DEF Moving
<1> QED BY ONLY <1>9, <1>11, <1>12, <1>13 DEF AtEnd

LEMMA OperationMoves ==
  ASSUME NEW o \in Operations, NEW n \in Nat, Moving, out \in Byte \cup {-1}, Stales(n), Phase(o, n)
  PROVE  Phase(o, n)' /\ Kept
<1>1. ~AtEnd(o, n)
  BY DEF AtEnd, Moving, Moves
<1> QED BY <1>1, RaiseMoves, SetupCalls, SetupMoves, ColumnsCalls, ColumnsMoves, RowsCalls,
        RowsMoves, DataCalls, DataMove, ConfirmCalls, ConfirmMoves, WaitMoves, StatusCalls,
        StatusMoves, ReadCalls, ReadMoves, LowerMoves DEF Phase

-----------------------------------------------------------------------------
(***************************************************************************)
(* The moves of main before its options, and of set_ecc.                   *)
(***************************************************************************)
\* A chip with nothing to do sees an edge of its pins, or none.
IdleEdge ==
  \/ UNCHANGED chip
  \/ \E c \in Setup : LatchCommand(c)
  \/ \E S, b : b \in Byte /\ Clocks(S, b)
  \/ ClockOut

LEMMA IdleKept ==
  ASSUME Memory, Idle, InBuf' \in Seq(Byte), IdleEdge
  PROVE  Idle' /\ Kept
<1>1. busy = "none" /\ ~acted /\ ~stopped /\ op = NoOp
  BY DEF Idle, Resting
<1>2. CASE UNCHANGED chip
  <2>1. busy' = busy /\ acted' = acted /\ stopped' = stopped /\ op' = op /\ cells' = cells /\ reg' = reg
    BY ONLY <1>2 DEF chip
  <2> QED BY ONLY <1>1, <2>1, Memory, InBuf' \in Seq(Byte) DEF Idle, Resting, Kept, Memory
<1>3. CASE \E c \in Setup : LatchCommand(c)
  <2>1. PICK c \in Setup : LatchCommand(c)
    BY ONLY <1>3
  <2>2. c # CMD_RESET
    BY <2>1 DEF Setup, CMD_RESET, CMD_READ1, CMD_PAGEPROGRAM1, CMD_BLOCKERASE1, CMD_READID, CMD_EN_ECC
  <2>3. SetupCommand(c)
    BY ONLY <1>1, <2>1, <2>2 DEF LatchCommand, OtherCommand
  <2>4. busy' = busy /\ acted' = acted /\ stopped' = stopped /\ op' = op /\ cells' = cells
    BY ONLY <2>3 DEF SetupCommand
  <2>5. reg' \in [Cols -> Byte]
    BY ONLY <2>1, Memory, CommandReg
  <2> QED BY ONLY <1>1, <2>4, <2>5, InBuf' \in Seq(Byte) DEF Idle, Resting, Kept
<1>4. CASE \E S, b : b \in Byte /\ Clocks(S, b)
  <2>1. PICK S, b : b \in Byte /\ Clocks(S, b)
    BY ONLY <1>4
  <2>2. busy' = busy /\ acted' = acted /\ stopped' = stopped /\ op' = op /\ cells' = cells
    BY ONLY <2>1 DEF Clocks, LatchAddress, LatchData
  <2>3. reg' \in [Cols -> Byte]
    BY ONLY <2>1, Memory, ClockReg
  <2> QED BY ONLY <1>1, <2>2, <2>3, InBuf' \in Seq(Byte) DEF Idle, Resting, Kept
<1>5. CASE ClockOut
  <2>1. busy' = busy /\ acted' = acted /\ stopped' = stopped /\ op' = op /\ cells' = cells /\ reg' = reg
    BY ONLY <1>5 DEF ClockOut
  <2> QED BY ONLY <1>1, <2>1, Memory, InBuf' \in Seq(Byte) DEF Idle, Resting, Kept, Memory
<1> QED BY ONLY <1>2, <1>3, <1>4, <1>5, IdleEdge DEF IdleEdge

\* Bytes that are not addresses of an operation, or data.
PlainBytes(bs) == IsSeq(bs) /\ \A i \in 1 .. Len(bs) : bs[i] \in Byte

\* A command to an idle chip, with the pins Up around it.
LEMMA IdleLatch ==
  ASSUME Moving, Idle, NEW s, IsSeq(s), NEW c \in Setup, HasCommand(s, c), NEW r, IsSeq(r),
         NEW j \in 0 .. 4, InLatch(s, c, r, Up, j)
  PROVE  /\ Idle' /\ Kept
         /\ \/ \E k \in 0 .. 4 : InLatch(s, c, r, Up, k)'
            \/ todo' = From(s, 5, r) /\ Pinned(Up)'
<1>1. PinSet(Up) /\ Up \cup {"WE"} = Up
  BY BasePins
<1>2. PICK S : S = Up
  OBVIOUS
<1>3. /\ j <= 3 => InLatch(s, c, r, S, j + 1)'
      /\ j = 4 => todo' = From(s, 5, r) /\ Pinned(S \cup {"WE"})'
      /\ j # 3 => UNCHANGED chip
      /\ j = 3 => LatchCommand(c) /\ pins \cup {"WE"} = S \cup {"CLE", "WE"}
      /\ InBuf' = InBuf
  <2>1. Moves /\ PinSet(S) /\ InLatch(s, c, r, S, j)
    BY ONLY <1>1, <1>2, Moving, InLatch(s, c, r, Up, j) DEF Moving
  <2>2. c # -1
    BY DEF Setup, CMD_READ1, CMD_PAGEPROGRAM1, CMD_BLOCKERASE1, CMD_READID, CMD_EN_ECC
  <2> QED BY ONLY <2>1, <2>2, IsSeq(s), HasCommand(s, c), IsSeq(r), j \in 0 .. 4, LatchMove
<1>4. IdleEdge /\ InBuf' \in Seq(Byte) /\ Memory
  BY ONLY <1>3, Moving, c \in Setup DEF IdleEdge, Moving
<1>5. Idle' /\ Kept
  BY ONLY <1>4, Idle, IdleKept
<1>6. j <= 3 => j + 1 \in 0 .. 4 /\ InLatch(s, c, r, Up, j + 1)'
  BY ONLY <1>2, <1>3, j \in 0 .. 4
<1>7. j = 4 => todo' = From(s, 5, r) /\ Pinned(Up)'
  BY ONLY <1>1, <1>2, <1>3
<1> QED BY ONLY <1>5, <1>6, <1>7, j \in 0 .. 4

\* A byte clocked into an idle chip.
LEMMA IdleStrobe ==
  ASSUME Moving, Idle, NEW s, IsSeq(s), NEW d \in Nat, NEW bs, PlainBytes(bs), HasStrobes(s, d, bs),
         NEW r, IsSeq(r), NEW S, PinSet(S), "WE" \in S,
         NEW i \in Nat, i < Len(bs), NEW t \in 0 .. 2, InStrobe(s, d, bs, r, S, i, t)
  PROVE  /\ Idle' /\ Kept
         /\ t = 0 => InStrobe(s, d, bs, r, S, i, 1)'
         /\ t = 1 => InStrobe(s, d, bs, r, S, i, 2)'
         /\ t = 2 => InStrobe(s, d, bs, r, S, i + 1, 0)'
<1>1. IsSeq(bs) /\ Len(bs) \in Nat /\ Moves /\ bs[i + 1] # -1
  <2>1. IsSeq(bs) /\ Len(bs) \in Nat /\ Moves
    BY LengthOf DEF PlainBytes, Moving
  <2>2. PICK k : k = i + 1
    OBVIOUS
  <2>3. k \in 1 .. Len(bs)
    BY ONLY <2>1, <2>2, i \in Nat, i < Len(bs)
  <2>4. PICK b \in Byte : b = bs[k]
    BY ONLY <2>3, PlainBytes(bs) DEF PlainBytes
  <2>5. b # -1
    BY DEF Byte
  <2> QED BY ONLY <2>1, <2>2, <2>4, <2>5
<1>2. /\ t = 0 => InStrobe(s, d, bs, r, S, i, 1)'
      /\ t = 1 => InStrobe(s, d, bs, r, S, i, 2)'
      /\ t # 2 => UNCHANGED chip
      /\ t = 2 => InStrobe(s, d, bs, r, S, i + 1, 0)' /\ Clocks(S, bs[i + 1])
      /\ InBuf' = InBuf
  BY ONLY <1>1, IsSeq(s), d \in Nat, HasStrobes(s, d, bs), IsSeq(r), PinSet(S), "WE" \in S,
     i \in Nat, i < Len(bs), t \in 0 .. 2, InStrobe(s, d, bs, r, S, i, t), StrobeMove
<1>3. PICK k : k = i + 1
  OBVIOUS
<1>4. k \in 1 .. Len(bs)
  BY ONLY <1>1, <1>3, i \in Nat, i < Len(bs)
<1>5. PICK b : b = bs[k]
  OBVIOUS
<1>6. b \in Byte
  BY ONLY <1>4, <1>5, PlainBytes(bs) DEF PlainBytes
<1>7. t = 2 => Clocks(S, b)
  BY ONLY <1>2, <1>3, <1>5
<1>8. IdleEdge /\ InBuf' \in Seq(Byte) /\ Memory
  BY ONLY <1>2, <1>6, <1>7, Moving, t \in 0 .. 2 DEF IdleEdge, Moving
<1>9. Idle' /\ Kept
  BY ONLY <1>8, Idle, IdleKept
<1> QED BY ONLY <1>2, <1>9

LEMMA QuietIdle ==
  ASSUME Moving, Idle, UNCHANGED chip, InBuf' = InBuf \/ InBuf' = <<>>
  PROVE  Idle' /\ Kept
<1>1. InBuf' \in Seq(Byte)
  <2>1. PICK e : e = <<>>
    OBVIOUS
  <2>2. e \in Seq(Byte)
    BY <2>1, EmptySeq
  <2> QED BY ONLY <2>1, <2>2, Moving, InBuf' = InBuf \/ InBuf' = <<>> DEF Moving
<1>2. IdleEdge
  BY ONLY UNCHANGED chip DEF IdleEdge
<1>3. Memory
  BY ONLY Moving DEF Moving
<1> QED BY ONLY <1>1, <1>2, <1>3, Idle, IdleKept

\* set_ecc, up to what follows it.
LEMMA EccGoesOn ==
  ASSUME Moving, Idle, NEW bs, PlainBytes(bs), Len(bs) = 4, NEW rest, IsSeq(rest),
         EccPhase(bs, rest)
  PROVE  Idle' /\ Kept /\ (EccPhase(bs, rest)' \/ (todo' = rest /\ Pinned(Up)'))
<1>1. Moves /\ IsSeq(bs) /\ PinSet(Up) /\ "WE" \in Up /\ "ALE" \notin Up /\ PinSet(Up \cup {"ALE"})
  <2>1. Base([kind |-> "read"]) = Up
    BY DEF Base
  <2> QED BY <2>1, BasePins DEF Moving, PlainBytes
<1>2. PICK r1 : r1 = AfterEccTail(bs, rest)
  OBVIOUS
<1>3. PICK r2 : r2 = AfterEccCommand(bs, rest)
  OBVIOUS
<1>4. IsSeq(r1)
  BY ONLY <1>2, IsSeq(rest), FirstStep DEF AfterEccTail
<1>5. IsSeq(EccTail) /\ Len(EccTail) = 5 /\ EccTail[1] = PinHigh("ALE") /\ EccTail[5] = PinLow("ALE")
      /\ HasStrobes(EccTail, 1, <<144>>) /\ IsSeq(<<144>>) /\ Len(<<144>>) = 1
  BY EccTailIs
<1>6. r2 = From(EccTail, 0, r1)
  BY ONLY <1>2, <1>3 DEF AfterEccCommand
<1>7. IsSeq(r2)
  BY ONLY <1>4, <1>5, <1>6, FromEnds
<1>8. PICK c : c = CMD_EN_ECC
  OBVIOUS
<1>9. PICK s : s = latch_command(<<c>>)
  OBVIOUS
<1>10. IsSeq(s) /\ Len(s) = 5 /\ HasCommand(s, c) /\ c \in Setup
  BY <1>8, <1>9, CommandIs DEF Setup
<1>11. CASE todo = EccMoves(bs, rest) /\ Lagging(Up)
  <2>1. PICK k : k = <<c>>
    OBVIOUS
  <2>2. todo = First(Call("latch_command", k), r2)
    BY ONLY <1>3, <1>8, <1>11, <2>1 DEF EccMoves
  <2>3. s = latch_command(k)
    BY ONLY <1>9, <2>1
  <2>4. InLatch(s, c, r2, Up, 0)' /\ InBuf' = InBuf /\ UNCHANGED chip
    BY ONLY <1>1, <1>7, <1>10, <1>11, <2>2, <2>3, CommandCall
  <2>5. Idle' /\ Kept
    BY ONLY Moving, Idle, <2>4, QuietIdle
  <2>6. EccPhase(bs, rest)'
    BY ONLY <1>3, <1>8, <1>9, <2>4, 0 \in 0 .. 4 DEF EccPhase
  <2> QED BY ONLY <2>5, <2>6
<1>12. CASE \E j \in 0 .. 4 : InLatch(s, c, r2, Up, j)
  <2>1. PICK j \in 0 .. 4 : InLatch(s, c, r2, Up, j)
    BY ONLY <1>12
  <2>2. /\ Idle' /\ Kept
        /\ \/ \E k \in 0 .. 4 : InLatch(s, c, r2, Up, k)'
           \/ todo' = From(s, 5, r2) /\ Pinned(Up)'
    BY ONLY Moving, Idle, <1>7, <1>10, <2>1, j \in 0 .. 4, IdleLatch
  <2>3. CASE \E k \in 0 .. 4 : InLatch(s, c, r2, Up, k)'
    <3>1. EccPhase(bs, rest)'
      BY ONLY <1>3, <1>8, <1>9, <2>3 DEF EccPhase
    <3> QED BY ONLY <2>2, <3>1
  <2>4. CASE todo' = From(s, 5, r2) /\ Pinned(Up)'
    <3>1. PICK k : k = 5
      OBVIOUS
    <3>2. From(s, k, r2) = r2
      BY ONLY <1>7, <1>10, <3>1, FromEnds
    <3>3. todo' = r2
      BY ONLY <2>4, <3>1, <3>2
    <3>4. EccPhase(bs, rest)'
      BY ONLY <1>3, <2>4, <3>3 DEF EccPhase
    <3> QED BY ONLY <2>2, <3>4
  <2> QED BY ONLY <2>2, <2>3, <2>4
<1>13. CASE todo = r2 /\ Pinned(Up)
  <2>1. PICK w : w = <<144>>
    OBVIOUS
  <2>2. todo = From(EccTail, 0, r1) /\ 1 <= Len(EccTail)
    BY ONLY <1>5, <1>6, <1>13
  <2>3. InStrobe(EccTail, 1, w, r1, Up \cup {"ALE"}, 0, 0)' /\ UNCHANGED chip /\ InBuf' = InBuf
    BY ONLY <1>1, <1>4, <1>5, <1>13, <2>2, AddressBegins
  <2>4. Idle' /\ Kept
    BY ONLY Moving, Idle, <2>3, QuietIdle
  <2>5. 0 \in 0 .. 1 /\ 0 \in 0 .. 2 /\ (0 = 1 => 0 = 0)
    OBVIOUS
  <2>6. EccPhase(bs, rest)'
    BY ONLY <1>2, <2>1, <2>3, <2>5 DEF EccPhase
  <2> QED BY ONLY <2>4, <2>6
<1>14. CASE \E i \in 0 .. 1, t \in 0 .. 2 :
              (i = 1 => t = 0) /\ InStrobe(EccTail, 1, <<144>>, r1, Up \cup {"ALE"}, i, t)
  <2>1. PICK w : w = <<144>>
    OBVIOUS
  <2>2. PICK S : S = Up \cup {"ALE"}
    OBVIOUS
  <2>3. PICK i \in 0 .. 1, t \in 0 .. 2 : (i = 1 => t = 0) /\ InStrobe(EccTail, 1, w, r1, S, i, t)
    BY ONLY <1>14, <2>1, <2>2
  <2>4. CASE i = 0
    <3>1. PlainBytes(w) /\ HasStrobes(EccTail, 1, w) /\ Len(w) = 1
      <4>1. w[1] = 144 /\ 144 \in Byte
        BY <2>1 DEF Byte
      <4>2. \A x \in 1 .. 1 : w[x] \in Byte
        BY <4>1
      <4> QED BY ONLY <1>5, <2>1, <4>2 DEF PlainBytes
    <3>2. PinSet(S) /\ "WE" \in S /\ 0 \in Nat /\ 1 \in Nat /\ 0 < Len(w)
      BY ONLY <1>1, <2>2, <3>1
    <3>3. InStrobe(EccTail, 1, w, r1, S, 0, t)
      BY ONLY <2>3, <2>4
    <3>4. /\ Idle' /\ Kept
          /\ t = 0 => InStrobe(EccTail, 1, w, r1, S, 0, 1)'
          /\ t = 1 => InStrobe(EccTail, 1, w, r1, S, 0, 2)'
          /\ t = 2 => InStrobe(EccTail, 1, w, r1, S, 0 + 1, 0)'
      BY ONLY Moving, Idle, <1>4, <1>5, <3>1, <3>2, <3>3, t \in 0 .. 2, IdleStrobe
    <3>5. PICK k : k = 0 + 1
      OBVIOUS
    <3>6. \E x \in 0 .. 1, u \in 0 .. 2 : (x = 1 => u = 0) /\ InStrobe(EccTail, 1, w, r1, S, x, u)'
      <4>1. CASE t = 2
        <5>1. InStrobe(EccTail, 1, w, r1, S, k, 0)' /\ k \in 0 .. 1
          BY ONLY <3>4, <3>5, <4>1
        <5> QED BY ONLY <5>1, 0 \in 0 .. 2
      <4> QED BY ONLY <3>4, <4>1, t \in 0 .. 2
    <3>7. EccPhase(bs, rest)'
      BY ONLY <1>2, <2>1, <2>2, <3>6 DEF EccPhase
    <3> QED BY ONLY <3>4, <3>7
  <2>5. CASE i = 1
    <3>1. PICK n : n = 1
      OBVIOUS
    <3>2. InStrobe(EccTail, 1, w, r1, S, n, 0)
      BY ONLY <2>3, <2>5, <3>1
    <3>3. n \in Nat /\ 1 \in Nat /\ Len(EccTail) = 1 + 3 * n + 1 /\ EccTail[1 + 3 * n + 1] = PinLow("ALE")
      BY ONLY <1>5, <3>1
    <3>4. InStrobe(EccTail, 1, w, r1, Up \cup {"ALE"}, n, 0)
      BY ONLY <2>2, <3>2
    <3>5. todo' = r1 /\ Pinned(Up)' /\ UNCHANGED chip /\ InBuf' = InBuf
      BY ONLY <1>1, <1>4, <1>5, <3>3, <3>4, AddressEnds
    <3>6. Idle' /\ Kept
      BY ONLY Moving, Idle, <3>5, QuietIdle
    <3>7. EccPhase(bs, rest)'
      BY ONLY <1>2, <3>5 DEF EccPhase
    <3> QED BY ONLY <3>6, <3>7
  <2> QED BY ONLY <2>4, <2>5, i \in 0 .. 1
<1>15. CASE todo = r1 /\ Pinned(Up)
  <2>1. todo = First(Call("latch_data_out", bs), rest)
    BY ONLY <1>2, <1>15 DEF AfterEccTail
  <2>2. InStrobe(latch_data_out(bs), 0, bs, rest, Up, 0, 0)' /\ InBuf' = InBuf /\ UNCHANGED chip
    BY ONLY <1>1, <1>15, <2>1, IsSeq(rest), DataCall
  <2>3. Idle' /\ Kept
    BY ONLY Moving, Idle, <2>2, QuietIdle
  <2>4. 0 \in 0 .. 3 /\ 0 \in 0 .. 2
    OBVIOUS
  <2>5. EccPhase(bs, rest)'
    BY ONLY <2>2, <2>4 DEF EccPhase
  <2> QED BY ONLY <2>3, <2>5
<1>16. CASE \E i \in 0 .. 3, t \in 0 .. 2 : InStrobe(latch_data_out(bs), 0, bs, rest, Up, i, t)
  <2>1. PICK w : w = latch_data_out(bs)
    OBVIOUS
  <2>2. IsSeq(w) /\ Len(w) = 12 /\ HasStrobes(w, 0, bs)
    <3>1. IsSeq(w) /\ Len(w) = 3 * Len(bs) /\ HasStrobes(w, 0, bs)
      BY ONLY <1>1, <2>1, DataMoves
    <3> QED BY ONLY <3>1, Len(bs) = 4
  <2>3. PICK i \in 0 .. 3, t \in 0 .. 2 : InStrobe(w, 0, bs, rest, Up, i, t)
    BY ONLY <1>16, <2>1
  <2>4. i \in Nat /\ i < Len(bs) /\ 0 \in Nat
    BY ONLY i \in 0 .. 3, Len(bs) = 4
  <2>5. /\ Idle' /\ Kept
        /\ t = 0 => InStrobe(w, 0, bs, rest, Up, i, 1)'
        /\ t = 1 => InStrobe(w, 0, bs, rest, Up, i, 2)'
        /\ t = 2 => InStrobe(w, 0, bs, rest, Up, i + 1, 0)'
    BY ONLY Moving, Idle, PlainBytes(bs), <1>1, <2>2, <2>3, <2>4, IsSeq(rest), t \in 0 .. 2, IdleStrobe
  <2>6. PICK k : k = i + 1
    OBVIOUS
  <2>7. CASE t = 2 /\ i = 3
    <3>1. InStrobe(w, 0, bs, rest, Up, k, 0)'
      BY ONLY <2>5, <2>6, <2>7
    <3>2. Len(w) = 0 + 3 * k + 0
      BY ONLY <2>2, <2>6, <2>7
    <3>3. todo' = rest /\ Pinned(Up)'
      BY ONLY <2>2, <3>1, <3>2, IsSeq(rest), NoneLeftNext
    <3> QED BY ONLY <2>5, <3>3
  <2>8. CASE ~(t = 2 /\ i = 3)
    <3>1. \E x \in 0 .. 3, u \in 0 .. 2 : InStrobe(w, 0, bs, rest, Up, x, u)'
      <4>1. CASE t = 2
        <5>1. k \in 0 .. 3 /\ InStrobe(w, 0, bs, rest, Up, k, 0)'
          BY ONLY <2>5, <2>6, <2>8, <4>1, i \in 0 .. 3
        <5> QED BY ONLY <5>1, 0 \in 0 .. 2
      <4>2. CASE t = 1
        BY ONLY <2>5, <4>2, i \in 0 .. 3, 2 \in 0 .. 2
      <4>3. CASE t = 0
        BY ONLY <2>5, <4>3, i \in 0 .. 3, 1 \in 0 .. 2
      <4> QED BY ONLY <4>1, <4>2, <4>3, t \in 0 .. 2
    <3>2. EccPhase(bs, rest)'
      BY ONLY <2>1, <3>1 DEF EccPhase
    <3> QED BY ONLY <2>5, <3>2
  <2> QED BY ONLY <2>7, <2>8
<1> QED BY ONLY <1>2, <1>3, <1>8, <1>9, <1>11, <1>12, <1>13, <1>14, <1>15, <1>16, EccPhase(bs, rest)
        DEF EccPhase

\* The ID register is read.
LEMMA IdGoesOn ==
  ASSUME Moving, Idle, IdPhase, out \in Byte \cup {-1}, Stale \subseteq Byte
  PROVE  Idle' /\ Kept /\ IdPhase'
<1>1. Moves /\ PinSet(Up) /\ "WE" \in Up /\ "ALE" \notin Up /\ PinSet(Up \cup {"ALE"})
  <2>1. Base([kind |-> "read"]) = Up
    BY DEF Base
  <2> QED BY <2>1, BasePins DEF Moving
<1>2. PICK e : e = <<>>
  OBVIOUS
<1>3. IsSeq(e)
  BY ONLY <1>2, EmptySequence
<1>4. PICK r : r = AfterId
  OBVIOUS
<1>5. r = First(Call("read_data", 5), e)
  BY ONLY <1>2, <1>4 DEF AfterId
<1>6. IsSeq(r)
  BY ONLY <1>3, <1>5, FirstStep
<1>7. PICK s : s = IdMoves
  OBVIOUS
<1>8. /\ IsSeq(s) /\ Len(s) = 10 /\ HasCommand(s, CMD_READID)
      /\ s[6] = PinHigh("ALE") /\ s[10] = PinLow("ALE")
  BY <1>7, IdMovesAre
<1>9. CMD_READID \in Setup
  BY DEF Setup
<1>10. CASE todo = Identify /\ Pinned(Up)
  <2>1. PICK k : k = <<CMD_READID, 0>>
    OBVIOUS
  <2>2. todo = First(Call("latch_command", k), r)
    BY ONLY <1>4, <1>10, <2>1 DEF Identify
  <2>3. s = latch_command(k) /\ Lagging(Up)
    BY ONLY <1>7, <1>10, <2>1 DEF IdMoves, Lagging, Pinned
  <2>4. PICK c : c = CMD_READID
    OBVIOUS
  <2>5. InLatch(s, c, r, Up, 0)' /\ InBuf' = InBuf /\ UNCHANGED chip
    BY ONLY <1>1, <1>6, <1>8, <2>2, <2>3, CommandCall
  <2>6. Idle' /\ Kept
    BY ONLY Moving, Idle, <2>5, QuietIdle
  <2>7. IdPhase'
    BY ONLY <1>4, <1>7, <2>4, <2>5, 0 \in 0 .. 4 DEF IdPhase
  <2> QED BY ONLY <2>6, <2>7
<1>11. CASE \E j \in 0 .. 4 : InLatch(s, CMD_READID, r, Up, j)
  <2>1. PICK j \in 0 .. 4 : InLatch(s, CMD_READID, r, Up, j)
    BY ONLY <1>11
  <2>2. /\ Idle' /\ Kept
        /\ \/ \E k \in 0 .. 4 : InLatch(s, CMD_READID, r, Up, k)'
           \/ todo' = From(s, 5, r) /\ Pinned(Up)'
    BY ONLY Moving, Idle, <1>6, <1>8, <1>9, <2>1, j \in 0 .. 4, IdleLatch
  <2>3. IdPhase'
    BY ONLY <1>4, <1>7, <2>2 DEF IdPhase
  <2> QED BY ONLY <2>2, <2>3
<1>12. CASE todo = From(s, 5, r) /\ Pinned(Up)
  <2>1. PICK w : w = <<0>>
    OBVIOUS
  <2>2. PICK d : d = 5
    OBVIOUS
  <2>3. PICK h : h = 6
    OBVIOUS
  <2>4. d \in Nat /\ d < Len(s) /\ h = d + 1 /\ s[h] = PinHigh("ALE") /\ todo = From(s, d, r)
    BY ONLY <1>8, <1>12, <2>2, <2>3
  <2>5. InStrobe(s, h, w, r, Up \cup {"ALE"}, 0, 0)' /\ UNCHANGED chip /\ InBuf' = InBuf
    BY ONLY <1>1, <1>6, <1>8, <1>12, <2>4, AddressRises
  <2>6. Idle' /\ Kept
    BY ONLY Moving, Idle, <2>5, QuietIdle
  <2>7. 0 \in 0 .. 1 /\ 0 \in 0 .. 2 /\ (0 = 1 => 0 = 0)
    OBVIOUS
  <2>8. IdPhase'
    BY ONLY <1>4, <1>7, <2>1, <2>3, <2>5, <2>7 DEF IdPhase
  <2> QED BY ONLY <2>6, <2>8
<1>13. CASE \E i \in 0 .. 1, t \in 0 .. 2 :
              (i = 1 => t = 0) /\ InStrobe(s, 6, <<0>>, r, Up \cup {"ALE"}, i, t)
  <2>1. PICK w : w = <<0>>
    OBVIOUS
  <2>2. PICK S : S = Up \cup {"ALE"}
    OBVIOUS
  <2>3. PICK i \in 0 .. 1, t \in 0 .. 2 : (i = 1 => t = 0) /\ InStrobe(s, 6, w, r, S, i, t)
    BY ONLY <1>13, <2>1, <2>2
  <2>4. CASE i = 0
    <3>1. PlainBytes(w) /\ HasStrobes(s, 6, w) /\ Len(w) = 1
      <4>1. w[1] = 0 /\ 0 \in Byte
        BY <2>1 DEF Byte
      <4>2. \A x \in 1 .. 1 : w[x] \in Byte
        BY <4>1
      <4>3. HasStrobes(s, 6, w) /\ IsSeq(w) /\ Len(w) = 1
        BY <1>7, <2>1, IdMovesAre
      <4> QED BY ONLY <4>2, <4>3 DEF PlainBytes
    <3>2. PinSet(S) /\ "WE" \in S /\ 0 \in Nat /\ 6 \in Nat /\ 0 < Len(w)
      BY ONLY <1>1, <2>2, <3>1
    <3>3. InStrobe(s, 6, w, r, S, 0, t)
      BY ONLY <2>3, <2>4
    <3>4. /\ Idle' /\ Kept
          /\ t = 0 => InStrobe(s, 6, w, r, S, 0, 1)'
          /\ t = 1 => InStrobe(s, 6, w, r, S, 0, 2)'
          /\ t = 2 => InStrobe(s, 6, w, r, S, 0 + 1, 0)'
      BY ONLY Moving, Idle, <1>6, <1>8, <3>1, <3>2, <3>3, t \in 0 .. 2, IdleStrobe
    <3>5. PICK k : k = 0 + 1
      OBVIOUS
    <3>6. \E x \in 0 .. 1, u \in 0 .. 2 : (x = 1 => u = 0) /\ InStrobe(s, 6, w, r, S, x, u)'
      <4>1. CASE t = 2
        <5>1. InStrobe(s, 6, w, r, S, k, 0)' /\ k \in 0 .. 1
          BY ONLY <3>4, <3>5, <4>1
        <5> QED BY ONLY <5>1, 0 \in 0 .. 2
      <4> QED BY ONLY <3>4, <4>1, t \in 0 .. 2
    <3>7. IdPhase'
      BY ONLY <1>4, <1>7, <2>1, <2>2, <3>6 DEF IdPhase
    <3> QED BY ONLY <3>4, <3>7
  <2>5. CASE i = 1
    <3>1. PICK n : n = 1
      OBVIOUS
    <3>2. InStrobe(s, 6, w, r, S, n, 0)
      BY ONLY <2>3, <2>5, <3>1
    <3>3. n \in Nat /\ 6 \in Nat /\ Len(s) = 6 + 3 * n + 1 /\ s[6 + 3 * n + 1] = PinLow("ALE")
      BY ONLY <1>8, <3>1
    <3>4. InStrobe(s, 6, w, r, Up \cup {"ALE"}, n, 0)
      BY ONLY <2>2, <3>2
    <3>5. todo' = r /\ Pinned(Up)' /\ UNCHANGED chip /\ InBuf' = InBuf
      BY ONLY <1>1, <1>6, <1>8, <3>3, <3>4, AddressEnds
    <3>6. Idle' /\ Kept
      BY ONLY Moving, Idle, <3>5, QuietIdle
    <3>7. IdPhase'
      BY ONLY <1>4, <3>5 DEF IdPhase
    <3> QED BY ONLY <3>6, <3>7
  <2> QED BY ONLY <2>4, <2>5, i \in 0 .. 1
<1>14. CASE todo = r /\ Pinned(Up)
  <2>1. PICK n : n = 5
    OBVIOUS
  <2>2. n \in Nat /\ todo = First(Call("read_data", n), e)
    BY ONLY <1>5, <1>14, <2>1
  <2>3. todo' = From(read_data(n), 0, e) /\ Pinned(Up)' /\ InBuf' = <<>> /\ UNCHANGED chip
    BY ONLY <1>1, <1>3, <1>14, <2>2, ReadCall
  <2>4. Idle' /\ Kept
    BY ONLY Moving, Idle, <2>3, QuietIdle
  <2>5. IdPhase'
    BY ONLY <1>2, <2>1, <2>3 DEF IdPhase
  <2> QED BY ONLY <2>4, <2>5
<1>15. CASE todo = From(read_data(5), 0, e) /\ Pinned(Up)
  <2>1. PICK n : n = 5
    OBVIOUS
  <2>2. n \in Nat /\ todo = From(read_data(n), 0, e)
    BY ONLY <1>15, <2>1
  <2>3. InByte(n, e, Up, 0, 0)' /\ InBuf' = InBuf /\ UNCHANGED chip
    BY ONLY <1>1, <1>3, <1>15, <2>2, ReadBegins
  <2>4. Idle' /\ Kept
    BY ONLY Moving, Idle, <2>3, QuietIdle
  <2>5. 0 \in 0 .. 5 /\ 0 \in 0 .. 2 /\ (0 = 5 => 0 = 0)
    OBVIOUS
  <2>6. IdPhase'
    BY ONLY <1>2, <2>1, <2>3, <2>5 DEF IdPhase
  <2> QED BY ONLY <2>4, <2>6
<1>16. CASE \E i \in 0 .. 5, t \in 0 .. 2 : (i = 5 => t = 0) /\ InByte(5, e, Up, i, t)
  <2>1. PICK n : n = 5
    OBVIOUS
  <2>2. PICK i \in 0 .. n, t \in 0 .. 2 : (i = n => t = 0) /\ InByte(n, e, Up, i, t)
    BY ONLY <1>16, <2>1
  <2>3. n \in Nat
    BY ONLY <2>1
  <2>4. /\ i # n /\ t = 0 => InByte(n, e, Up, i, 1)' /\ InBuf' = InBuf /\ ClockOut /\ out' \in Driven
        /\ t = 1 => InByte(n, e, Up, i, 2)' /\ UNCHANGED chip /\ Head(todo).do = "sample"
        /\ t = 2 => InByte(n, e, Up, i + 1, 0)' /\ UNCHANGED chip /\ InBuf' = InBuf
        /\ i = n => todo' = e /\ Pinned(Up)' /\ UNCHANGED chip /\ InBuf' = InBuf
    BY ONLY <1>1, <1>3, <2>2, <2>3, i \in 0 .. n, t \in 0 .. 2, ByteMove
  <2>5. t = 1 => InBuf' \in Seq(Byte)
    <3>1. io = -1
      BY ONLY <2>2 DEF InByte
    <3>2. OnBus \subseteq Byte
      BY <3>1, PinAssumption DEF OnBus
    <3> QED BY <2>4, <3>2 DEF Moving, Sampling
  <2>6. IdleEdge /\ Memory /\ InBuf' \in Seq(Byte)
    BY ONLY <2>2, <2>4, <2>5, t \in 0 .. 2, Moving DEF IdleEdge, Moving
  <2>7. Idle' /\ Kept
    BY ONLY <2>6, Idle, IdleKept
  <2>8. CASE i = n
    <3>1. IdPhase'
      BY ONLY <1>2, <2>4, <2>8 DEF IdPhase
    <3> QED BY ONLY <2>7, <3>1
  <2>9. CASE i # n
    <3>1. PICK k : k = i + 1
      OBVIOUS
    <3>2. \E x \in 0 .. n, u \in 0 .. 2 : (x = n => u = 0) /\ InByte(n, e, Up, x, u)'
      <4>1. CASE t = 2
        <5>1. k \in 0 .. n /\ InByte(n, e, Up, k, 0)'
          BY ONLY <2>3, <2>4, <2>9, <3>1, <4>1, i \in 0 .. n
        <5> QED BY ONLY <5>1, 0 \in 0 .. 2
      <4>2. CASE t = 1
        BY ONLY <2>4, <2>9, <4>2, i \in 0 .. n, 2 \in 0 .. 2
      <4>3. CASE t = 0
        BY ONLY <2>4, <2>9, <4>3, i \in 0 .. n, 1 \in 0 .. 2
      <4> QED BY ONLY <4>1, <4>2, <4>3, t \in 0 .. 2
    <3>3. IdPhase'
      BY ONLY <1>2, <2>1, <3>2 DEF IdPhase
    <3> QED BY ONLY <2>7, <3>3
  <2> QED BY ONLY <2>8, <2>9
<1>17. CASE todo = e /\ Pinned(Up)
  BY ONLY <1>1, <1>2, <1>17 DEF Moves
<1> QED BY ONLY <1>2, <1>4, <1>7, <1>10, <1>11, <1>12, <1>13, <1>14, <1>15, <1>16, <1>17, IdPhase
        DEF IdPhase

-----------------------------------------------------------------------------
(***************************************************************************)
(* The reset.                                                              *)
(***************************************************************************)
Chips == [Rows -> [Cols -> Byte]]

LEMMA BitsAre ==
  ASSUME NEW z \in Byte
  PROVE  /\ Bit(z, 0) \in {0, 1} /\ Bit(z, 1) \in {0, 1} /\ Bit(z, 2) \in {0, 1}
         /\ Bit(z, 3) \in {0, 1} /\ Bit(z, 4) \in {0, 1} /\ Bit(z, 5) \in {0, 1}
         /\ Bit(z, 6) \in {0, 1} /\ Bit(z, 7) \in {0, 1}
<1>1. /\ Bit(z, 0) = z % 2 /\ Bit(z, 1) = (z \div 2) % 2 /\ Bit(z, 2) = (z \div 4) % 2
      /\ Bit(z, 3) = (z \div 8) % 2 /\ Bit(z, 4) = (z \div 16) % 2 /\ Bit(z, 5) = (z \div 32) % 2
      /\ Bit(z, 6) = (z \div 64) % 2 /\ Bit(z, 7) = (z \div 128) % 2
  BY DEF Bit, Byte
<1>2. \A d \in Int : d % 2 \in {0, 1}
  OBVIOUS
<1>3. /\ z \in Int /\ z \div 2 \in Int /\ z \div 4 \in Int /\ z \div 8 \in Int /\ z \div 16 \in Int
      /\ z \div 32 \in Int /\ z \div 64 \in Int /\ z \div 128 \in Int
  BY DEF Byte
<1> QED BY ONLY <1>1, <1>2, <1>3

LEMMA AndIs ==
  ASSUME NEW x \in Byte, NEW y \in Byte
  PROVE  And(x, y) \in Byte
<1>1. \A a, b \in {0, 1} : a * b \in {0, 1}
  OBVIOUS
<1>2. PICK a0, a1, a2, a3, a4, a5, a6, a7 \in {0, 1} :
        And(x, y) = a0 * 1 + a1 * 2 + a2 * 4 + a3 * 8 + a4 * 16 + a5 * 32 + a6 * 64 + a7 * 128
  <2>1. And(x, y) = Bit(x, 0) * Bit(y, 0) * 1 + Bit(x, 1) * Bit(y, 1) * 2 + Bit(x, 2) * Bit(y, 2) * 4
                    + Bit(x, 3) * Bit(y, 3) * 8 + Bit(x, 4) * Bit(y, 4) * 16
                    + Bit(x, 5) * Bit(y, 5) * 32 + Bit(x, 6) * Bit(y, 6) * 64
                    + Bit(x, 7) * Bit(y, 7) * 128
    BY DEF And
  <2>2. /\ Bit(x, 0) * Bit(y, 0) \in {0, 1} /\ Bit(x, 1) * Bit(y, 1) \in {0, 1}
        /\ Bit(x, 2) * Bit(y, 2) \in {0, 1} /\ Bit(x, 3) * Bit(y, 3) \in {0, 1}
        /\ Bit(x, 4) * Bit(y, 4) \in {0, 1} /\ Bit(x, 5) * Bit(y, 5) \in {0, 1}
        /\ Bit(x, 6) * Bit(y, 6) \in {0, 1} /\ Bit(x, 7) * Bit(y, 7) \in {0, 1}
    BY ONLY <1>1, x \in Byte, y \in Byte, BitsAre
  <2> QED BY ONLY <2>1, <2>2
<1> QED BY ONLY <1>2 DEF Byte

LEMMA EffectIs ==
  ASSUME NEW o \in Operations, NEW s \in Chips
  PROVE  Effect(s, o) \in Chips
<1>1. CASE o.kind = "program"
  <2>1. PICK r : r = RowAt(o.at)
    OBVIOUS
  <2>2. PICK c : c = ColAt(o.at)
    OBVIOUS
  <2>3. PICK d : d = o.data
    OBVIOUS
  <2>4. r \in Rows /\ d \in Seq(Byte)
    BY <2>1, <2>3, Kinds, RowIs
  <2>5. \A k \in Cols : s[r][k] \in Byte
    BY <2>4 DEF Chips
  <2>6. \A k : k \in DOMAIN d => d[k] \in Byte
    BY <2>4
  <2>7. [k \in Cols |-> IF k - c + 1 \in DOMAIN d THEN And(s[r][k], d[k - c + 1]) ELSE s[r][k]]
          \in [Cols -> Byte]
    BY ONLY <2>5, <2>6, AndIs
  <2>8. Effect(s, o)
          = [s EXCEPT ![r] = [k \in Cols |-> IF k - c + 1 \in DOMAIN d
                                             THEN And(s[r][k], d[k - c + 1]) ELSE s[r][k]]]
    BY <1>1, <2>1, <2>2, <2>3 DEF Effect, ProgramRow
  <2> QED BY ONLY <2>7, <2>8, s \in Chips DEF Chips
<1>2. CASE o.kind = "erase"
  <2>1. FF \in Byte
    BY DEF FF, Byte
  <2>2. Effect(s, o) = EraseBlock(s, RowAt(o.at))
    BY <1>2 DEF Effect
  <2> QED BY ONLY <2>1, <2>2, s \in Chips DEF Chips, EraseBlock
<1>3. CASE o.kind = "read"
  BY <1>3 DEF Effect
<1> QED BY <1>1, <1>2, <1>3, Kinds

\* What the chip is at is work for the operation.
LEMMA WorkedIs ==
  ASSUME Memory, Employed
  PROVE  /\ Worked \in Chips /\ cells \in Chips
         /\ busy # "none" => Worked = Effect(cells, op)
<1>1. cells \in Chips
  BY DEF Memory, Chips
<1>2. CASE busy = "none"
  BY <1>1, <1>2 DEF Worked
<1>3. CASE busy # "none"
  <2>1. PICK o \in Operations : o = op /\ AtWork(o)
    BY <1>3 DEF Employed
  <2>2. o \in Operations /\ AtWork(o)
    BY ONLY <2>1
  <2>3. Worked = Effect(cells, o)
    BY ONLY <2>2, Memory, WorkIs
  <2>4. Effect(cells, o) \in Chips
    BY ONLY <1>1, <2>2, EffectIs
  <2> QED BY ONLY <1>1, <2>1, <2>3, <2>4
<1> QED BY <1>2, <1>3

LEMMA ResetKeeps ==
  ASSUME Memory, Employed, Reset, op # NoOp => stopped
  PROVE  /\ Memory' /\ op' = NoOp /\ Idle' /\ Employed'
<1>1. /\ busy' = "none" /\ op' = NoOp /\ ~acted' /\ stopped' = FALSE /\ reg' = reg
      /\ \E K : cells' = [r \in Rows |-> [k \in Cols |-> IF k \in K THEN Worked[r][k] ELSE cells[r][k]]]
  BY DEF Reset, Employed
<1>2. cells' \in Chips
  BY ONLY <1>1, Memory, Employed, WorkedIs DEF Chips
<1>3. Memory'
  BY ONLY <1>1, <1>2, Memory DEF Memory, Chips
<1> QED BY ONLY <1>1, <1>3 DEF Idle, Resting, Employed

\* The reset is the one of the abstract chip, or changes nothing of it.
LEMMA ResetImplements ==
  ASSUME Memory, Employed, Reset, op # NoOp => stopped, acted \in BOOLEAN, stopped \in BOOLEAN
  PROVE  Linear!Reset \/ UNCHANGED <<cells, op, acted, stopped>>
<1>1. /\ busy' = "none" /\ op' = NoOp /\ acted' = FALSE /\ stopped' = FALSE
      /\ \E K \in IF busy \in {"program", "erase"} THEN SUBSET Cols ELSE {{}} :
           cells' = [r \in Rows |-> [k \in Cols |->
                      IF k \in K THEN Worked[r][k] ELSE cells[r][k]]]
  BY DEF Reset, Employed
<1>2. cells \in Chips
  BY DEF Memory, Chips
<1>3. Linear!Effect(cells, op) = Effect(cells, op) /\ Linear!Rows = Rows /\ Linear!Cols = Cols
      /\ Linear!NoOp = NoOp
  BY DEF Linear!Effect, Effect, Linear!Rows, Rows, Linear!Cols, Cols, Linear!NoOp, NoOp,
     Linear!ProgramRow, ProgramRow, Linear!EraseBlock, EraseBlock, Linear!RowAt, RowAt,
     Linear!ColAt, ColAt, Linear!And, And, Linear!Bit, Bit, Linear!FF, FF
<1>4. CASE busy = "none"
  <2>1. cells' = [r \in Rows |-> [k \in Cols |-> cells[r][k]]]
    BY ONLY <1>1, <1>4
  <2>2. cells' = cells
    BY ONLY <1>2, <2>1 DEF Chips
  <2>3. CASE stopped
    BY ONLY <1>1, <1>3, <2>2, <2>3 DEF Linear!Reset
  <2>4. CASE ~stopped
    <3>1. op = NoOp /\ acted = FALSE /\ stopped = FALSE
      BY <2>4 DEF Employed
    <3> QED BY ONLY <1>1, <2>2, <3>1
  <2> QED BY ONLY <2>3, <2>4
<1>5. CASE busy # "none"
  <2>1. PICK o \in Operations : o = op /\ AtWork(o)
    BY <1>5 DEF Employed
  <2>2. o \in Operations
    BY ONLY <2>1
  <2>3. op # NoOp
    BY ONLY <2>1, <2>2, Kinds
  <2>4. stopped /\ ~acted
    BY <2>1, <2>3 DEF AtWork
  <2>5. Worked = Effect(cells, op)
    BY ONLY <1>5, Memory, Employed, WorkedIs
  <2>6. \A r \in Rows, k \in Cols : cells'[r][k] \in {cells[r][k], Worked[r][k]}
    <3>1. PICK K : cells' = [r \in Rows |-> [k \in Cols |->
                              IF k \in K THEN Worked[r][k] ELSE cells[r][k]]]
      BY ONLY <1>1
    <3> QED BY ONLY <3>1
  <2>7. \A r \in Rows, k \in Cols : cells'[r][k] \in {cells[r][k], Effect(cells, op)[r][k]}
    BY ONLY <2>5, <2>6
  <2> QED BY ONLY <1>1, <1>3, <2>4, <2>7 DEF Linear!Reset
<1> QED BY <1>4, <1>5

LEMMA EmployedKept ==
  ASSUME Employed, UNCHANGED chip
  PROVE  Employed'
<1>1. op' = op /\ busy' = busy /\ acted' = acted
  BY DEF chip
<1>2. CASE busy = "none"
  BY ONLY <1>1, <1>2, Employed DEF Employed
<1>3. CASE busy # "none"
  <2>1. PICK o \in Operations : o = op /\ AtWork(o)
    BY <1>3 DEF Employed
  <2>2. AtWork(o)'
    BY ONLY <2>1, UNCHANGED chip, SameChip
  <2>3. o = op'
    BY ONLY <1>1, <2>1
  <2> QED BY ONLY <1>1, <2>2, <2>3, o \in Operations, Employed DEF Employed
<1> QED BY ONLY <1>2, <1>3

LEMMA ResetSequence ==
  /\ IsSeq(ResetMoves) /\ Len(ResetMoves) = 5
  /\ ResetMoves[1] = Input /\ ResetMoves[2] = ShadowHigh("RE") /\ ResetMoves[3] = ShadowLow("CE")
  /\ ResetMoves[4] = PinLow("WP") /\ ResetMoves[5] = Call("latch_command", <<CMD_RESET>>)
<1>1. ASSUME NEW u, NEW v, NEW w, NEW x, NEW y
      PROVE  IsSeq(<<u, v, w, x, y>>) /\ Len(<<u, v, w, x, y>>) = 5
  <2>1. <<u, v, w, x, y>> \in Seq({u, v, w, x, y})
    OBVIOUS
  <2> QED BY <2>1 DEF IsSeq
<1>2. IsSeq(ResetMoves) /\ Len(ResetMoves) = 5
  BY ONLY <1>1 DEF ResetMoves
<1>3. ShadowHigh("RE") = Shadow("RE", TRUE) /\ ShadowLow("CE") = Shadow("CE", FALSE)
      /\ PinLow("WP") = Pin("WP", FALSE)
  BY DEF ShadowHigh, ShadowLow, PinLow
<1> QED BY ONLY <1>2, <1>3, ResetMovesAre

LEMMA AfterResetIs ==
  IsSeq(Identify) /\ IsSeq(AfterReset) /\ PlainBytes(EccOff) /\ Len(EccOff) = 4
  /\ PlainBytes(EccOn) /\ Len(EccOn) = 4
<1>1. \A m, r : IsSeq(r) => IsSeq(First(m, r))
  BY ONLY FirstStep
<1>2. IsSeq(AfterId)
  BY ONLY <1>1, EmptySequence DEF AfterId
<1>3. IsSeq(Identify)
  BY ONLY <1>1, <1>2 DEF Identify
<1>4. IsSeq(AfterEccTail(EccOff, Identify))
  BY ONLY <1>1, <1>3 DEF AfterEccTail
<1>5. IsSeq(AfterEccCommand(EccOff, Identify))
  BY ONLY <1>4, EccTailIs, FromEnds DEF AfterEccCommand
<1>6. IsSeq(AfterReset)
  BY ONLY <1>1, <1>5 DEF AfterReset, EccMoves
<1>7. ASSUME NEW a \in Byte, NEW b \in Byte
      PROVE  PlainBytes(<<a, b, b, b>>) /\ Len(<<a, b, b, b>>) = 4
  <2>1. <<a, b, b, b>> \in Seq(Byte) /\ Len(<<a, b, b, b>>) = 4
    OBVIOUS
  <2>2. \A i \in 1 .. 4 : <<a, b, b, b>>[i] \in Byte
    OBVIOUS
  <2> QED BY ONLY <2>1, <2>2 DEF PlainBytes, IsSeq
<1>8. 8 \in Byte /\ 0 \in Byte
  BY DEF Byte
<1>9. PlainBytes(EccOff) /\ Len(EccOff) = 4
  BY ONLY <1>7, <1>8 DEF EccOff
<1>10. PlainBytes(EccOn) /\ Len(EccOn) = 4
  BY ONLY <1>7, <1>8 DEF EccOn
<1> QED BY ONLY <1>3, <1>6, <1>9, <1>10

\* The first moves of a process, up to the reset; the chip may still be at work.
LEMMA ResetGoesOn ==
  ASSUME Moving, ResetPhase
  PROVE  /\ InBuf' = InBuf
         /\ \/ UNCHANGED chip /\ ResetPhase'
            \/ Reset /\ InLatch(latch_command(<<CMD_RESET>>), CMD_RESET, AfterReset, {"RE"}, 4)'
<1>1. PICK s : s = ResetMoves
  OBVIOUS
<1>2. PICK r : r = AfterReset
  OBVIOUS
<1>3. /\ IsSeq(s) /\ Len(s) = 5 /\ s[1] = Input /\ s[2] = ShadowHigh("RE") /\ s[3] = ShadowLow("CE")
      /\ s[4] = PinLow("WP") /\ s[5] = Call("latch_command", <<CMD_RESET>>)
  BY ONLY <1>1, ResetSequence
<1>4. IsSeq(r) /\ Moves
  BY <1>2, AfterResetIs DEF Moving
<1>5. ASSUME NEW j \in 0 .. 4, todo = From(s, j, r), NEW h, h = j + 1
      PROVE  Head(todo) = s[h] /\ Tail(todo) = From(s, h, r)
  <2>1. j \in Nat /\ j < Len(s)
    BY ONLY <1>3, j \in 0 .. 4
  <2> QED BY ONLY <1>3, <1>4, <1>5, <2>1, NextMove
<1>6. PICK c : c = CMD_RESET
  OBVIOUS
<1>7. PICK k : k = <<c>>
  OBVIOUS
<1>8. PICK w : w = latch_command(k)
  OBVIOUS
<1>9. IsSeq(w) /\ Len(w) = 5 /\ HasCommand(w, c)
  BY ONLY <1>7, <1>8, CommandIs
<1>10. PICK S : S = {"RE"}
  OBVIOUS
<1>11. PinSet(S) /\ c # -1
  BY <1>6, <1>10 DEF PinSet, CMD_RESET
<1>12. CASE shadow = {} /\ todo = From(s, 0, r)
  <2>1. 0 \in 0 .. 4 /\ 1 = 0 + 1
    OBVIOUS
  <2>2. Head(todo) = Input /\ Tail(todo) = From(s, 1, r)
    BY ONLY <1>3, <1>5, <1>12, <2>1
  <2>3. io' = -1 /\ todo' = Tail(todo) /\ UNCHANGED <<shadow, pins, out, InBuf, chip>>
    BY ONLY <1>4, <2>2, InputMove
  <2>4. shadow' = {} /\ todo' = From(s, 1, r) /\ InBuf' = InBuf /\ UNCHANGED chip
    BY ONLY <1>12, <2>2, <2>3
  <2>5. ResetPhase'
    BY ONLY <1>1, <1>2, <2>4 DEF ResetPhase
  <2> QED BY ONLY <2>4, <2>5
<1>13. CASE shadow = {} /\ todo = From(s, 1, r)
  <2>1. 1 \in 0 .. 4 /\ 2 = 1 + 1
    OBVIOUS
  <2>2. Head(todo) = ShadowHigh("RE") /\ Tail(todo) = From(s, 2, r)
    BY ONLY <1>3, <1>5, <1>13, <2>1
  <2>3. PICK p : p = "RE"
    OBVIOUS
  <2>4. Head(todo) = ShadowHigh(p)
    BY ONLY <2>2, <2>3
  <2>5. shadow' = shadow \cup {p} /\ todo' = Tail(todo) /\ UNCHANGED <<pins, io, out, InBuf, chip>>
    BY ONLY <1>4, <2>4, ShadowRise
  <2>6. shadow' = {"RE"} /\ todo' = From(s, 2, r) /\ InBuf' = InBuf /\ UNCHANGED chip
    BY ONLY <1>13, <2>2, <2>3, <2>5
  <2>7. ResetPhase'
    BY ONLY <1>1, <1>2, <2>6 DEF ResetPhase
  <2> QED BY ONLY <2>6, <2>7
<1>14. CASE shadow = {"RE"} /\ todo = From(s, 2, r)
  <2>1. 2 \in 0 .. 4 /\ 3 = 2 + 1
    OBVIOUS
  <2>2. Head(todo) = ShadowLow("CE") /\ Tail(todo) = From(s, 3, r)
    BY ONLY <1>3, <1>5, <1>14, <2>1
  <2>3. PICK p : p = "CE"
    OBVIOUS
  <2>4. Head(todo) = ShadowLow(p)
    BY ONLY <2>2, <2>3
  <2>5. shadow' = shadow \ {p} /\ todo' = Tail(todo) /\ UNCHANGED <<pins, io, out, InBuf, chip>>
    BY ONLY <1>4, <2>4, ShadowFall
  <2>6. {"RE"} \ {"CE"} = {"RE"}
    OBVIOUS
  <2>7. shadow' = {"RE"} /\ todo' = From(s, 3, r) /\ InBuf' = InBuf /\ UNCHANGED chip
    BY ONLY <1>14, <2>2, <2>3, <2>5, <2>6
  <2>8. ResetPhase'
    BY ONLY <1>1, <1>2, <2>7 DEF ResetPhase
  <2> QED BY ONLY <2>7, <2>8
<1>15. CASE shadow = {"RE"} /\ todo = From(s, 3, r)
  <2>1. 3 \in 0 .. 4 /\ 4 = 3 + 1
    OBVIOUS
  <2>2. Head(todo) = PinLow("WP") /\ Tail(todo) = From(s, 4, r)
    BY ONLY <1>3, <1>5, <1>15, <2>1
  <2>3. PICK p : p = "WP"
    OBVIOUS
  <2>4. PICK T : T = shadow \ {p}
    OBVIOUS
  <2>5. Head(todo) = PinLow(p)
    BY ONLY <2>2, <2>3
  <2>6. PinsBecome(T)
    BY ONLY <1>4, <2>4, <2>5, FallMove
  <2>7. T = {"RE"} /\ "WE" \notin T /\ "RE" \in T
    BY ONLY <1>15, <2>3, <2>4
  <2>8. /\ shadow' = T /\ pins' = T /\ InBuf' = InBuf /\ todo' = Tail(todo)
        /\ UNCHANGED chip
    BY ONLY <2>6, <2>7 DEF PinsBecome
  <2>9. Pinned({"RE"})' /\ todo' = From(s, 4, r)
    BY ONLY <2>2, <2>7, <2>8 DEF Pinned
  <2>10. ResetPhase'
    BY ONLY <1>1, <1>2, <2>9 DEF ResetPhase
  <2> QED BY ONLY <2>8, <2>10
<1>16. CASE todo = From(s, 4, r) /\ Pinned({"RE"})
  <2>1. PICK n : n = 5
    OBVIOUS
  <2>2. 4 \in 0 .. 4 /\ n = 4 + 1
    BY <2>1
  <2>3. Head(todo) = s[n] /\ Tail(todo) = From(s, n, r)
    BY ONLY <1>5, <1>16, <2>2
  <2>4. From(s, n, r) = r
    BY ONLY <1>3, <1>4, <2>1, FromEnds
  <2>5. Head(todo) = Call("latch_command", k) /\ Tail(todo) = r
    BY ONLY <1>3, <1>6, <1>7, <2>1, <2>3, <2>4
  <2>6. Lagging(S)
    BY ONLY <1>10, <1>16 DEF Pinned, Lagging
  <2>7. InLatch(w, c, r, S, 0)' /\ InBuf' = InBuf /\ UNCHANGED chip
    BY ONLY <1>4, <1>8, <1>9, <1>11, <2>5, <2>6, CommandEnters
  <2>8. 0 \in 0 .. 3
    OBVIOUS
  <2>9. ResetPhase'
    BY ONLY <1>2, <1>6, <1>7, <1>8, <1>10, <2>7, <2>8 DEF ResetPhase
  <2> QED BY ONLY <2>7, <2>9
<1>17. CASE \E j \in 0 .. 3 : InLatch(w, c, r, S, j)
  <2>1. PICK j \in 0 .. 3 : InLatch(w, c, r, S, j)
    BY ONLY <1>17
  <2>2. j \in 0 .. 4
    BY ONLY j \in 0 .. 3
  <2>3. /\ j <= 3 => InLatch(w, c, r, S, j + 1)'
        /\ j = 4 => todo' = From(w, 5, r) /\ Pinned(S \cup {"WE"})'
        /\ j # 3 => UNCHANGED chip
        /\ j = 3 => LatchCommand(c) /\ pins \cup {"WE"} = S \cup {"CLE", "WE"}
        /\ InBuf' = InBuf
    BY ONLY <1>4, <1>9, <1>11, <2>1, <2>2, LatchMove
  <2>4. CASE j # 3
    <3>1. j + 1 \in 0 .. 3 /\ InLatch(w, c, r, S, j + 1)'
      BY ONLY <2>3, <2>4, j \in 0 .. 3
    <3>2. ResetPhase'
      BY ONLY <1>2, <1>6, <1>7, <1>8, <1>10, <3>1 DEF ResetPhase
    <3> QED BY ONLY <2>3, <2>4, <3>2
  <2>5. CASE j = 3
    <3>1. j + 1 = 4 /\ j <= 3
      BY ONLY <2>5
    <3>2. InLatch(w, c, r, S, 4)' /\ LatchCommand(c)
      BY ONLY <2>3, <2>5, <3>1
    <3>3. Reset
      <4>1. c \notin Setup
        BY <1>6 DEF Setup, CMD_RESET, CMD_READ1, CMD_PAGEPROGRAM1, CMD_BLOCKERASE1, CMD_READID, CMD_EN_ECC
      <4> QED BY ONLY <1>6, <3>2, <4>1 DEF LatchCommand, SetupCommand, OtherCommand
    <3> QED BY ONLY <1>2, <1>6, <1>7, <1>8, <1>10, <2>3, <3>2, <3>3
  <2> QED BY ONLY <2>4, <2>5
<1> QED BY ONLY <1>1, <1>2, <1>6, <1>7, <1>8, <1>10, <1>12, <1>13, <1>14, <1>15, <1>16, <1>17,
        ResetPhase DEF ResetPhase

\* The reset is over: CLE falls.
LEMMA ResetEnds ==
  ASSUME Moving, InLatch(latch_command(<<CMD_RESET>>), CMD_RESET, AfterReset, {"RE"}, 4)
  PROVE  EccPhase(EccOff, Identify)' /\ UNCHANGED chip /\ InBuf' = InBuf
<1>1. PICK r : r = AfterReset
  OBVIOUS
<1>2. IsSeq(r) /\ Moves
  BY <1>1, AfterResetIs DEF Moving
<1>3. PICK c : c = CMD_RESET
  OBVIOUS
<1>4. PICK w : w = latch_command(<<c>>)
  OBVIOUS
<1>5. IsSeq(w) /\ Len(w) = 5 /\ HasCommand(w, c)
  BY ONLY <1>4, CommandIs
<1>6. PICK S : S = {"RE"}
  OBVIOUS
<1>7. PinSet(S) /\ c # -1
  BY <1>3, <1>6 DEF PinSet, CMD_RESET
<1>8. PICK j : j = 4
  OBVIOUS
<1>9. j \in 0 .. 4 /\ InLatch(w, c, r, S, j)
  BY ONLY <1>1, <1>3, <1>4, <1>6, <1>8,
     InLatch(latch_command(<<CMD_RESET>>), CMD_RESET, AfterReset, {"RE"}, 4)
<1>10. /\ j = 4 => todo' = From(w, 5, r) /\ Pinned(S \cup {"WE"})'
       /\ j # 3 => UNCHANGED chip
       /\ InBuf' = InBuf
  BY ONLY <1>2, <1>5, <1>7, <1>9, LatchMove
<1>11. PICK n : n = 5
  OBVIOUS
<1>12. From(w, n, r) = r
  BY ONLY <1>2, <1>5, <1>11, FromEnds
<1>13. todo' = r /\ Pinned(S \cup {"WE"})' /\ UNCHANGED chip
  BY ONLY <1>8, <1>10, <1>11, <1>12
<1>14. S \cup {"WE"} = Up
  BY <1>6 DEF Up
<1>15. Lagging(Up)'
  BY ONLY <1>13, <1>14 DEF Lagging, Pinned
<1>16. todo' = EccMoves(EccOff, Identify)
  BY ONLY <1>1, <1>13 DEF AfterReset
<1>17. EccPhase(EccOff, Identify)'
  BY ONLY <1>15, <1>16 DEF EccPhase
<1> QED BY ONLY <1>10, <1>13, <1>17

LEMMA BootGoesOn ==
  ASSUME Moving, BootPhase, Employed, out \in Byte \cup {-1}, Stale \subseteq Byte
  PROVE  BootPhase' /\ Memory' /\ InBuf' \in Seq(Byte) /\ Employed'
<1>1. Memory /\ InBuf \in Seq(Byte)
  BY DEF Moving
<1>2. Idle' => Employed'
  BY ONLY DEF Idle, Resting, Employed
<1>3. Kept /\ cells \in Chips => Memory' /\ InBuf' \in Seq(Byte)
  BY ONLY DEF Kept, Memory, Chips
<1>4. cells \in Chips
  BY ONLY <1>1 DEF Memory, Chips
<1>5. CASE ResetPhase /\ (op # NoOp => stopped)
  <2>1. /\ InBuf' = InBuf
        /\ \/ UNCHANGED chip /\ ResetPhase'
           \/ Reset /\ InLatch(latch_command(<<CMD_RESET>>), CMD_RESET, AfterReset, {"RE"}, 4)'
    BY ONLY Moving, <1>5, ResetGoesOn
  <2>2. CASE UNCHANGED chip /\ ResetPhase'
    <3>1. op' = op /\ stopped' = stopped /\ acted' = acted /\ cells' = cells /\ reg' = reg
      BY ONLY <2>2 DEF chip
    <3>2. Employed'
      BY ONLY Employed, <2>2, EmployedKept
    <3>3. BootPhase'
      BY ONLY <1>5, <2>2, <3>1 DEF BootPhase
    <3> QED BY ONLY <1>1, <2>1, <3>1, <3>2, <3>3 DEF Memory
  <2>3. CASE Reset /\ InLatch(latch_command(<<CMD_RESET>>), CMD_RESET, AfterReset, {"RE"}, 4)'
    <3>1. Memory' /\ Idle' /\ Employed'
      BY ONLY <1>1, <1>5, <2>3, Employed, ResetKeeps
    <3>2. BootPhase'
      BY ONLY <2>3, <3>1 DEF BootPhase
    <3> QED BY ONLY <1>1, <2>1, <3>1, <3>2
  <2> QED BY ONLY <2>1, <2>2, <2>3
<1>6. CASE Idle /\ InLatch(latch_command(<<CMD_RESET>>), CMD_RESET, AfterReset, {"RE"}, 4)
  <2>1. EccPhase(EccOff, Identify)' /\ UNCHANGED chip /\ InBuf' = InBuf
    BY ONLY Moving, <1>6, ResetEnds
  <2>2. Idle' /\ Kept
    BY ONLY Moving, <1>6, <2>1, QuietIdle
  <2>3. BootPhase'
    BY ONLY <2>1, <2>2 DEF BootPhase
  <2> QED BY ONLY <1>2, <1>3, <1>4, <2>2, <2>3
<1>7. CASE Idle /\ EccPhase(EccOff, Identify)
  <2>1. Idle' /\ Kept /\ (EccPhase(EccOff, Identify)' \/ (todo' = Identify /\ Pinned(Up)'))
    <3>1. PICK bs : bs = EccOff
      OBVIOUS
    <3>2. PICK r : r = Identify
      OBVIOUS
    <3>3. PlainBytes(bs) /\ Len(bs) = 4 /\ IsSeq(r) /\ EccPhase(bs, r) /\ Idle
      BY ONLY <1>7, <3>1, <3>2, AfterResetIs
    <3>4. Idle' /\ Kept /\ (EccPhase(bs, r)' \/ (todo' = r /\ Pinned(Up)'))
      BY ONLY Moving, <3>3, EccGoesOn
    <3> QED BY ONLY <3>1, <3>2, <3>4
  <2>2. todo' = Identify /\ Pinned(Up)' => IdPhase'
    BY ONLY DEF IdPhase
  <2>3. BootPhase'
    BY ONLY <2>1, <2>2 DEF BootPhase
  <2> QED BY ONLY <1>2, <1>3, <1>4, <2>1, <2>3
<1>8. CASE Idle /\ IdPhase
  <2>1. Idle' /\ Kept /\ IdPhase'
    BY ONLY Moving, <1>8, out \in Byte \cup {-1}, Stale \subseteq Byte, IdGoesOn
  <2>2. BootPhase'
    BY ONLY <2>1 DEF BootPhase
  <2> QED BY ONLY <1>2, <1>3, <1>4, <2>1, <2>2
<1> QED BY ONLY <1>5, <1>6, <1>7, <1>8, BootPhase DEF BootPhase

-----------------------------------------------------------------------------
(***************************************************************************)
(* Steps of the bus and of the chip.                                       *)
(***************************************************************************)
LEMMA MoveOut ==
  ASSUME Moves, Memory, out \in Byte \cup {-1}
  PROVE  out' \in Byte \cup {-1}
<1>1. Driven \subseteq Byte
  BY PinAssumption DEF Driven, Memory
<1>2. CASE SetPin
  BY <1>1, <1>2 DEF SetPin
<1>3. CASE Enter \/ SetShadow \/ Drive \/ Release \/ Samples \/ Look
  BY <1>3 DEF Enter, SetShadow, Drive, Release, Samples, Store, Look
<1> QED BY <1>2, <1>3 DEF Moves

\* A move changes nothing of the abstract chip, or is the reset.
LEMMA MoveHistory ==
  ASSUME Moves
  PROVE  UNCHANGED <<cells, op, acted, stopped>> \/ Reset
<1>1. CASE SetPin
  <2> DEFINE new == Set(shadow, Head(todo).pin, Head(todo).val)
  <2>1. (\E b \in OnBus : Latch(new, b)) \/ ClockOut \/ UNCHANGED chip
    BY <1>1 DEF SetPin
  <2>2. CASE \E b \in OnBus : Latch(new, b)
    <3>1. PICK b : LatchCommand(b) \/ LatchAddress(b) \/ LatchData(b)
      BY <2>2 DEF Latch
    <3> QED BY <3>1 DEF LatchCommand, SetupCommand, OtherCommand, LatchAddress, LatchData
  <2> QED BY <2>1, <2>2 DEF ClockOut, chip
<1>2. CASE Enter \/ SetShadow \/ Drive \/ Release \/ Samples \/ Look
  BY <1>2 DEF Enter, SetShadow, Drive, Release, Samples, Store, Look, chip
<1> QED BY <1>1, <1>2 DEF Moves

\* The chip works from the confirm command on, and until the busy wait is over.
LEMMA PhaseWork ==
  ASSUME NEW o \in Operations, NEW n \in Nat, Phase(o, n), busy # "none"
  PROVE  /\ AtWork(o) /\ ~stopped /\ Working(o)
         /\ \/ AtWait(o, n)
            \/ InLatch(latch_command(<<Confirm(o)>>), Confirm(o), AfterConfirm(o, n), Base(o), 4)
<1>1. ~Resting /\ ~Did(o) /\ \A m, q : ~Seen(o, m, q)
  BY DEF Resting, Did, Seen
<1>2. AtWait(o, n) \/ InConfirm(o, n)
  BY ONLY <1>1, Phase(o, n) DEF Phase, AtRaise, AtSetup, InSetup, AtColumns, InColumns, AtRows, InRows,
     AtData, InData, AtConfirm, AtStatus, InStatus, AtRead, InRead, AtLower, AtEnd
<1>3. CASE AtWait(o, n)
  BY ONLY <1>1, <1>3 DEF AtWait, Working
<1>4. CASE InConfirm(o, n)
  <2>1. PICK j \in 0 .. 4 :
          /\ InLatch(latch_command(<<Confirm(o)>>), Confirm(o), AfterConfirm(o, n), Base(o), j)
          /\ IF j <= 3 THEN Seen(o, Len(Address(o)), Len(o.data)) ELSE Working(o)
    BY <1>4 DEF InConfirm
  <2>2. ~(j <= 3)
    BY ONLY <1>1, <2>1
  <2>3. j = 4
    BY ONLY <2>2, j \in 0 .. 4
  <2>4. InLatch(latch_command(<<Confirm(o)>>), Confirm(o), AfterConfirm(o, n), Base(o), 4)
    BY ONLY <2>1, <2>3
  <2>5. Working(o)
    BY ONLY <2>1, <2>2
  <2> QED BY ONLY <1>1, <2>4, <2>5 DEF Working
<1> QED BY ONLY <1>2, <1>3, <1>4

LEMMA PhaseWorkNext ==
  ASSUME NEW o \in Operations, NEW n \in Nat
  PROVE  (Phase(o, n) /\ busy # "none")' => AtWork(o)'
<1>1. Phase(o, n) /\ busy # "none" => AtWork(o)
  BY ONLY o \in Operations, n \in Nat, PhaseWork
<1> QED BY <1>1, PTL

LEMMA SameBusPins ==
  ASSUME UNCHANGED bus, NEW s, NEW c, NEW r, NEW S, NEW j
  PROVE  InLatch(s, c, r, S, j) => InLatch(s, c, r, S, j)'
<1>1. todo' = todo /\ shadow' = shadow /\ pins' = pins /\ io' = io
  BY DEF bus
<1> QED BY ONLY <1>1 DEF InLatch, Lagging, Pinned

\* The chip finishes what an operation made it do.
LEMMA ChipInOperation ==
  ASSUME NEW o \in Operations, NEW n \in Nat, Phase(o, n), Memory, ChipFinishes
  PROVE  Phase(o, n)'
<1>1. busy # "none" /\ UNCHANGED bus
  BY DEF ChipFinishes
<1>2. /\ AtWork(o) /\ ~stopped /\ Working(o)
      /\ \/ AtWait(o, n)
         \/ InLatch(latch_command(<<Confirm(o)>>), Confirm(o), AfterConfirm(o, n), Base(o), 4)
  BY ONLY <1>1, Phase(o, n), o \in Operations, n \in Nat, PhaseWork
<1>3. Did(o)' /\ (AtColumn(o, 0) => AtColumn(o, 0)') /\ stopped' = stopped
  BY ONLY <1>2, o \in Operations, Memory, ChipFinishes, WorkDone
<1>4. Working(o)'
  BY ONLY <1>2, <1>3 DEF Working
<1>5. CASE AtWait(o, n)
  <2>1. todo' = todo /\ shadow' = shadow /\ pins' = pins
    BY ONLY <1>1 DEF bus
  <2>2. AtWait(o, n)'
    BY ONLY <1>4, <1>5, <2>1 DEF AtWait, Pinned
  <2> QED BY ONLY <2>2 DEF Phase
<1>6. CASE InLatch(latch_command(<<Confirm(o)>>), Confirm(o), AfterConfirm(o, n), Base(o), 4)
  <2>1. InLatch(latch_command(<<Confirm(o)>>), Confirm(o), AfterConfirm(o, n), Base(o), 4)'
    BY ONLY <1>1, <1>6, SameBusPins
  <2>2. 4 \in 0 .. 4 /\ ~(4 <= 3)
    OBVIOUS
  <2>3. InConfirm(o, n)'
    BY ONLY <1>4, <2>1, <2>2 DEF InConfirm
  <2> QED BY ONLY <2>3 DEF Phase
<1> QED BY ONLY <1>2, <1>5, <1>6

\* Whether the program has a phase to be in or not.
LEMMA ChipAtWork ==
  ASSUME Employed, Memory, ChipFinishes
  PROVE  Employed' /\ Memory' /\ op' = op /\ stopped' = stopped /\ busy' = "none" /\ op # NoOp
<1>1. busy # "none"
  BY DEF ChipFinishes
<1>2. PICK o \in Operations : o = op /\ AtWork(o)
  BY <1>1 DEF Employed
<1>3. /\ op' = op /\ stopped' = stopped /\ busy' = "none" /\ cells' = Effect(cells, o)
  BY ONLY <1>2, o \in Operations, Memory, ChipFinishes, WorkDone
<1>4. cells \in Chips /\ o # NoOp
  BY Kinds DEF Memory, Chips
<1>5. cells' \in Chips
  BY ONLY <1>3, <1>4, o \in Operations, EffectIs
<1>6. AddressedRow \in Rows
  <2>1. AddressedRow = RowAt(o.at)
    BY ONLY <1>2, o \in Operations, Memory, WorkIs
  <2> QED BY <2>1, Kinds, RowIs
<1>7. reg' \in [Cols -> Byte]
  <2>1. reg' = IF busy = "read" THEN cells[AddressedRow] ELSE reg
    BY DEF ChipFinishes
  <2> QED BY ONLY <1>4, <1>6, <2>1, Memory DEF Chips, Memory
<1>8. Memory'
  BY ONLY <1>5, <1>7 DEF Memory, Chips
<1>9. Employed'
  BY ONLY <1>2, <1>3, <1>4 DEF Employed
<1> QED BY ONLY <1>2, <1>3, <1>4, <1>8, <1>9

LEMMA ChipStep ==
  ASSUME OpInv, Chip
  PROVE  OpInv'
<1>1. /\ ChipFinishes /\ UNCHANGED bus /\ pc' = pc /\ UNCHANGED main /\ busy # "none"
  BY DEF Chip, ChipFinishes
<1>2. Where /\ Employed /\ Typed /\ Memory
  BY DEF OpInv, Typed
<1>3. Employed' /\ Memory' /\ op' = op /\ stopped' = stopped /\ busy' = "none" /\ op # NoOp
  BY ONLY <1>1, <1>2, ChipAtWork
<1>4. ~Idle
  BY ONLY <1>1 DEF Idle, Resting
<1>5. /\ todo' = todo /\ shadow' = shadow /\ pins' = pins /\ io' = io /\ out' = out /\ InBuf' = InBuf
  BY ONLY <1>1 DEF bus
<1>6. acted' \in BOOLEAN
  BY ONLY <1>1 DEF ChipFinishes
<1>7. Typed'
  <2>1. /\ starting_erasepage' = starting_erasepage /\ startingpage' = startingpage
        /\ file' = file /\ data' = data /\ nPage' = nPage
    BY ONLY <1>1 DEF main
  <2> QED BY ONLY <1>1, <1>2, <1>3, <1>5, <1>6, <2>1 DEF Typed
<1>8. pc = "boot" => BootPhase'
  <2> SUFFICES ASSUME pc = "boot"
               PROVE  BootPhase'
    OBVIOUS
  <2>1. ResetPhase /\ (op # NoOp => stopped)
    BY ONLY <1>2, <1>4, pc = "boot" DEF Where, BootPhase
  <2>2. ResetPhase'
    <3>1. \A j \in 0 .. 3 :
            InLatch(latch_command(<<CMD_RESET>>), CMD_RESET, AfterReset, {"RE"}, j) =>
              InLatch(latch_command(<<CMD_RESET>>), CMD_RESET, AfterReset, {"RE"}, j)'
      BY ONLY <1>1, SameBusPins
    <3>2. Pinned({"RE"}) => Pinned({"RE"})'
      BY ONLY <1>5 DEF Pinned
    <3> QED BY ONLY <1>5, <2>1, <3>1, <3>2 DEF ResetPhase
  <2> QED BY ONLY <1>3, <2>1, <2>2 DEF BootPhase
<1>9. pc \in Loops => \E o \in Operations, n \in Nat : (o = op /\ Fits(o, n) /\ Phase(o, n))'
  <2> SUFFICES ASSUME pc \in Loops
               PROVE  \E o \in Operations, n \in Nat : (o = op /\ Fits(o, n) /\ Phase(o, n))'
    OBVIOUS
  <2>1. PICK o \in Operations, n \in Nat : o = op /\ Fits(o, n) /\ Phase(o, n)
    BY ONLY <1>2, <1>4, pc \in Loops DEF Where
  <2>2. Phase(o, n)'
    BY ONLY <1>1, <1>2, <2>1, o \in Operations, n \in Nat, ChipInOperation
  <2>3. Fits(o, n)'
    BY ONLY <1>1, <2>1 DEF Fits, ChunkSize
  <2> QED BY ONLY <1>3, <2>1, <2>2, <2>3, o \in Operations, n \in Nat
<1>10. pc \notin {"ecc", "options", "done"}
  BY ONLY <1>2, <1>4 DEF Where
<1>11. Where'
  BY ONLY <1>1, <1>8, <1>9, <1>10 DEF Where
<1> QED BY ONLY <1>3, <1>7, <1>11 DEF OpInv

\* The buffers hold bytes, those of a page read before too.
LEMMA StaleBytes ==
  ASSUME Typed, Filed, NEW n, pc \in {"r", "R"} => n = ChunkSize
  PROVE  Stales(n)
<1>1. CASE pc \in {"r", "R"} /\ nPage > startingpage
  <2>1. /\ startingpage \in Nat /\ nPage \in Nat /\ nPage > startingpage /\ file \in Seq(Byte)
        /\ Len(file) = (nPage - startingpage) * ChunkSize
    BY <1>1 DEF Typed, Filed, Loops
  <2>2. PICK C \in Nat : C = ChunkSize
    BY Sizes
  <2>3. PICK k \in Nat : nPage - startingpage = k + 1
    <3>1. nPage - startingpage - 1 \in Nat /\ nPage - startingpage = (nPage - startingpage - 1) + 1
      BY ONLY <2>1
    <3> QED BY ONLY <3>1
  <2>4. PICK m \in Nat : m = k * C
    OBVIOUS
  <2>5. Len(file) = m + C
    <3>1. (k + 1) * C = k * C + C
      BY ONLY k \in Nat, C \in Nat
    <3> QED BY ONLY <2>1, <2>2, <2>3, <2>4, <3>1
  <2>6. ASSUME Len(InBuf) < n
        PROVE  Stale \subseteq Byte
    <3>1. PICK i : i = Len(file) - ChunkSize + Len(InBuf) + 1
      OBVIOUS
    <3>2. PICK l \in Nat : l = Len(InBuf)
      BY LengthOf DEF Typed, IsSeq
    <3>3. i = m + l + 1 /\ l < C
      BY ONLY <1>1, <2>2, <2>5, <2>6, <3>1, <3>2, m \in Nat, C \in Nat, l \in Nat,
         pc \in {"r", "R"} => n = ChunkSize
    <3>4. i \in 1 .. Len(file)
      BY ONLY <2>5, <3>3, m \in Nat, C \in Nat, l \in Nat
    <3>5. file[i] \in Byte
      BY ONLY <2>1, <3>4
    <3>6. Stale = {file[i]}
      BY <1>1, <3>1 DEF Stale
    <3> QED BY ONLY <3>5, <3>6
  <2> QED BY ONLY <2>6 DEF Stales
<1>2. CASE ~(pc \in {"r", "R"} /\ nPage > startingpage)
  BY <1>2, ReaderAssumption DEF Stales, Stale
<1> QED BY <1>1, <1>2

\* A step of the bus that leaves the chip in step, whatever else goes wrong.
LEMMA Pushes ==
  ASSUME IsSeq(mishaps), Typed, Bus \/ Failure, InStep'
  PROVE  Moving
<1>1. Moves /\ Memory /\ InBuf \in Seq(Byte)
  BY Failing DEF InStep, Typed
<1>2. ~Mishap("write") /\ ~Mishap("early") /\ (\A k : Mishap(k) => mishaps' # <<>>)
  BY MishapNoted DEF InStep
<1>3. Sampling /\ Lasting /\ (Head(todo).do = "wait" /\ busy # "none" => todo' = todo)
  <2>1. CASE Bus
    BY <2>1 DEF Bus, Move, Enter, SetShadow, SetPin, Drive, Release, TakeSample, Store, Wait,
      Look, Sampling, Lasting
  <2>2. CASE Failure
    <3>1. CASE SampleFails(Stale)
      BY <1>2, <3>1 DEF SampleFails, Store, Sampling, Lasting
    <3>2. CASE WaitFails
      BY <1>2, <3>2 DEF WaitFails, Look, Sampling, Lasting
    <3> QED BY <1>2, <2>2, <3>1, <3>2 DEF Failure, WriteFails, WaitEndsEarly
  <2> QED BY <2>1, <2>2
<1> QED BY ONLY <1>1, <1>3 DEF Moving

LEMMA BusStep ==
  ASSUME IsSeq(mishaps), OpInv, Filed, Bus \/ Failure, InStep'
  PROVE  OpInv'
<1>1. pc # "dead" /\ pc' = pc /\ UNCHANGED main /\ todo # <<>>
  BY DEF Bus, Move, Failure
<1>2. Where /\ Employed /\ Typed /\ Memory /\ InBuf \in Seq(Byte) /\ out \in Byte \cup {-1}
  BY DEF OpInv, Typed
<1>3. Moving /\ Moves
  BY <1>2, Pushes DEF Moving
<1>4. out' \in Byte \cup {-1}
  BY ONLY <1>2, <1>3, MoveOut
<1>5. acted' \in BOOLEAN /\ stopped' \in BOOLEAN
  <2>1. UNCHANGED <<cells, op, acted, stopped>> \/ Reset
    BY ONLY <1>3, MoveHistory
  <2> QED BY ONLY <1>2, <2>1 DEF Typed, Reset
<1>6. Memory' /\ InBuf' \in Seq(Byte) => Typed'
  <2>1. /\ starting_erasepage' = starting_erasepage /\ startingpage' = startingpage
        /\ file' = file /\ data' = data /\ nPage' = nPage
    BY ONLY <1>1 DEF main
  <2> QED BY ONLY <1>1, <1>2, <1>4, <1>5, <2>1 DEF Typed
<1>7. Kept => Memory' /\ InBuf' \in Seq(Byte)
  BY ONLY <1>2 DEF Kept, Memory
<1>8. Idle' => Employed'
  BY ONLY DEF Idle, Resting, Employed
<1>9. CASE pc = "boot"
  <2>1. BootPhase
    BY ONLY <1>2, <1>9 DEF Where
  <2>5. Stale \subseteq Byte
    BY <1>9, ReaderAssumption DEF Stale
  <2>2. BootPhase' /\ Memory' /\ InBuf' \in Seq(Byte) /\ Employed'
    BY ONLY <1>2, <1>3, <2>1, <2>5, BootGoesOn
  <2>3. pc' = "boot" /\ "boot" \notin Loops
    BY <1>1, <1>9 DEF Loops
  <2>4. Where'
    BY ONLY <2>2, <2>3 DEF Where
  <2> QED BY ONLY <1>6, <2>2, <2>4 DEF OpInv
<1>10. CASE pc = "ecc"
  <2>1. Idle /\ ((\E bs \in {EccOn, EccOff} : EccPhase(bs, <<>>)) \/ (todo = <<>> /\ Pinned(Up)))
    BY ONLY <1>2, <1>10 DEF Where
  <2>2. PICK bs \in {EccOn, EccOff} : EccPhase(bs, <<>>)
    BY ONLY <1>1, <2>1
  <2>3. PICK r : r = <<>>
    OBVIOUS
  <2>4. PlainBytes(bs) /\ Len(bs) = 4 /\ EccPhase(bs, r) /\ IsSeq(r)
    <3>1. CASE bs = EccOn
      BY ONLY <2>2, <2>3, <3>1, AfterResetIs, EmptySequence
    <3>2. CASE bs = EccOff
      BY ONLY <2>2, <2>3, <3>2, AfterResetIs, EmptySequence
    <3> QED BY ONLY <3>1, <3>2, bs \in {EccOn, EccOff}
  <2>5. Idle' /\ Kept /\ (EccPhase(bs, r)' \/ (todo' = r /\ Pinned(Up)'))
    BY ONLY <1>3, <2>1, <2>4, EccGoesOn
  <2>6. pc' = "ecc" /\ "ecc" \notin Loops
    BY <1>1, <1>10 DEF Loops
  <2>7. Where'
    BY ONLY <2>3, <2>5, <2>6, bs \in {EccOn, EccOff} DEF Where
  <2> QED BY ONLY <1>6, <1>7, <1>8, <2>5, <2>7 DEF OpInv
<1>11. CASE pc \in Loops
  <2>1. PICK o \in Operations, n \in Nat : o = op /\ Fits(o, n) /\ Phase(o, n)
    BY ONLY <1>1, <1>2, <1>11 DEF Where
  <2>2. Phase(o, n)' /\ Kept
    <3>1. Stales(n)
      BY ONLY <1>2, <2>1, Filed, StaleBytes DEF Fits
    <3> QED BY ONLY <1>2, <1>3, <2>1, <3>1, o \in Operations, n \in Nat, OperationMoves
  <2>3. Fits(o, n)'
    BY ONLY <1>1, <2>1 DEF Fits, ChunkSize
  <2>4. o = op'
    BY ONLY <2>1, <2>2 DEF Kept
  <2>5. pc' \in Loops /\ pc' \notin {"boot", "ecc", "options", "done"}
    BY <1>1, <1>11 DEF Loops
  <2>6. Where'
    BY ONLY <2>2, <2>3, <2>4, <2>5, o \in Operations, n \in Nat DEF Where
  <2>7. Employed'
    <3>1. busy' # "none" => AtWork(o)'
      BY ONLY <2>2, o \in Operations, n \in Nat, PhaseWorkNext
    <3>2. op' # NoOp
      BY ONLY <2>4, o \in Operations, Kinds
    <3> QED BY ONLY <2>4, <3>1, <3>2, o \in Operations DEF Employed
  <2> QED BY ONLY <1>6, <1>7, <2>2, <2>6, <2>7 DEF OpInv
<1>12. CASE pc \in {"options", "done"}
  BY ONLY <1>1, <1>2, <1>12 DEF Where
<1>13. pc \in Loops \cup {"boot", "ecc", "options", "done"}
  BY ONLY <1>1, <1>2 DEF Typed
<1> QED BY ONLY <1>9, <1>10, <1>11, <1>12, <1>13

-----------------------------------------------------------------------------
(***************************************************************************)
(* The operations as sequences of what is left.                            *)
(***************************************************************************)
LEMMA FromFirst ==
  ASSUME NEW s, NEW r, IsSeq(s), IsSeq(r), NEW j \in Nat, j < Len(s), NEW h, h = j + 1
  PROVE  From(s, j, r) = First(s[h], From(s, h, r))
<1>1. PICK u : u = From(s, j, r)
  OBVIOUS
<1>2. PICK w : w = From(s, h, r)
  OBVIOUS
<1>3. u # <<>> /\ IsSeq(u) /\ Head(u) = s[h] /\ Tail(u) = w
  BY ONLY <1>1, <1>2, IsSeq(s), IsSeq(r), j \in Nat, j < Len(s), h = j + 1, FromStep
<1>4. /\ Len(u) \in Nat /\ 1 <= Len(u) /\ u[1] = s[h] /\ IsSeq(w) /\ Len(w) = Len(u) - 1
      /\ \A i \in 1 .. Len(u) - 1 : w[i] = u[i + 1]
  BY ONLY <1>3, TailOf
<1>5. PICK v : v = First(s[h], w)
  OBVIOUS
<1>6. v # <<>> /\ IsSeq(v) /\ Head(v) = s[h] /\ Tail(v) = w
  BY ONLY <1>4, <1>5, FirstStep
<1>7. /\ Len(v) \in Nat /\ 1 <= Len(v) /\ v[1] = s[h] /\ Len(w) = Len(v) - 1
      /\ \A i \in 1 .. Len(v) - 1 : w[i] = v[i + 1]
  BY ONLY <1>6, TailOf
<1>8. ASSUME NEW i \in 1 .. Len(u)
      PROVE  u[i] = v[i]
  <2>1. CASE i = 1
    BY ONLY <1>4, <1>7, <2>1
  <2>2. CASE i # 1
    <3>1. PICK k : k = i - 1
      OBVIOUS
    <3>2. k \in 1 .. Len(u) - 1 /\ k \in 1 .. Len(v) - 1 /\ k + 1 = i
      BY ONLY <1>4, <1>7, <2>2, <3>1, i \in 1 .. Len(u)
    <3> QED BY ONLY <1>4, <1>7, <3>2
  <2> QED BY ONLY <2>1, <2>2
<1>9. Len(u) = Len(v)
  BY ONLY <1>4, <1>7
<1>10. u = v
  BY ONLY <1>3, <1>6, <1>8, <1>9, SameSequence
<1> QED BY ONLY <1>1, <1>2, <1>5, <1>10

\* Sequences put together.
Join(s, t) == s \o t

LEMMA JoinJoin ==
  ASSUME NEW s, NEW t, NEW r, IsSeq(s), IsSeq(t), IsSeq(r)
  PROVE  Join(Join(s, t), r) = Join(s, Join(t, r)) /\ IsSeq(Join(t, r))
<1>1. PICK S : s \in Seq(S)
  BY DEF IsSeq
<1>2. PICK T : t \in Seq(T)
  BY DEF IsSeq
<1>3. PICK R : r \in Seq(R)
  BY DEF IsSeq
<1>4. PICK U : U = S \cup T \cup R
  OBVIOUS
<1>5. s \in Seq(U) /\ t \in Seq(U) /\ r \in Seq(U)
  BY <1>1, <1>2, <1>3, <1>4
<1>6. (s \o t) \o r = s \o (t \o r)
  BY ONLY <1>5, ConcatAssociative
<1>7. IsSeq(t \o r)
  BY ONLY IsSeq(t), IsSeq(r), JoinOf
<1> QED BY ONLY <1>6, <1>7 DEF Join

LEMMA JoinFrom ==
  ASSUME NEW s, NEW r, IsSeq(s), IsSeq(r)
  PROVE  From(s, 0, r) = Join(s, r) /\ Join(s, <<>>) = s
BY ONLY IsSeq(s), IsSeq(r), FromEnds, NoneBefore DEF Join

\* The first moves of a sequence.
LEMMA OneFirst ==
  ASSUME NEW a, NEW s, s = <<a>>
  PROVE  IsSeq(s) /\ s = First(a, <<>>) /\ \A r : Join(s, r) = First(a, r)
<1>1. IsSeq(s)
  BY OneMove
<1>2. Join(s, <<>>) = s
  BY ONLY <1>1, EmptySequence, JoinFrom
<1>3. \A r : Join(s, r) = First(a, r)
  BY DEF Join, First
<1> QED BY ONLY <1>1, <1>2, <1>3

LEMMA TwoFirst ==
  ASSUME NEW a, NEW b, NEW s, s = <<a, b>>
  PROVE  /\ IsSeq(s)
         /\ \A r : IsSeq(r) => Join(s, r) = First(a, First(b, r))
<1>1. IsSeq(s) /\ Len(s) = 2 /\ s[1] = a /\ s[2] = b
  <2>1. s \in Seq({a, b}) /\ Len(s) = 2 /\ s[1] = a /\ s[2] = b
    OBVIOUS
  <2> QED BY ONLY <2>1 DEF IsSeq
<1>2. ASSUME NEW r, IsSeq(r)
      PROVE  Join(s, r) = First(a, First(b, r))
  <2>1. PICK n : n = 2
    OBVIOUS
  <2>2. /\ From(s, 0, r) = First(s[1], From(s, 1, r))
        /\ From(s, 1, r) = First(s[n], From(s, n, r))
    <3>1. /\ 0 \in Nat /\ 0 < Len(s) /\ 1 = 0 + 1
          /\ 1 \in Nat /\ 1 < Len(s) /\ n = 1 + 1
      BY ONLY <1>1, <2>1
    <3> QED BY ONLY <1>1, <1>2, <3>1, FromFirst
  <2>3. From(s, 0, r) = Join(s, r) /\ From(s, n, r) = r
    BY ONLY <1>1, <1>2, <2>1, FromEnds, JoinFrom
  <2> QED BY ONLY <1>1, <2>1, <2>2, <2>3
<1> QED BY ONLY <1>1, <1>2

LEMMA ThreeFirst ==
  ASSUME NEW a, NEW b, NEW c, NEW s, s = <<a, b, c>>
  PROVE  /\ IsSeq(s)
         /\ \A r : IsSeq(r) => Join(s, r) = First(a, First(b, First(c, r)))
<1>1. IsSeq(s) /\ Len(s) = 3 /\ s[1] = a /\ s[2] = b /\ s[3] = c
  <2>1. s \in Seq({a, b, c}) /\ Len(s) = 3 /\ s[1] = a /\ s[2] = b /\ s[3] = c
    OBVIOUS
  <2> QED BY ONLY <2>1 DEF IsSeq
<1>2. ASSUME NEW r, IsSeq(r)
      PROVE  Join(s, r) = First(a, First(b, First(c, r)))
  <2>1. PICK n : n = 3
    OBVIOUS
  <2>2. /\ From(s, 0, r) = First(s[1], From(s, 1, r))
        /\ From(s, 1, r) = First(s[2], From(s, 2, r))
        /\ From(s, 2, r) = First(s[n], From(s, n, r))
    <3>1. /\ 0 \in Nat /\ 0 < Len(s) /\ 1 = 0 + 1
          /\ 1 \in Nat /\ 1 < Len(s) /\ 2 = 1 + 1
          /\ 2 \in Nat /\ 2 < Len(s) /\ n = 2 + 1
      BY ONLY <1>1, <2>1
    <3> QED BY ONLY <1>1, <1>2, <3>1, FromFirst
  <2>3. From(s, 0, r) = Join(s, r) /\ From(s, n, r) = r
    BY ONLY <1>1, <1>2, <2>1, FromEnds, JoinFrom
  <2> QED BY ONLY <1>1, <2>1, <2>2, <2>3
<1> QED BY ONLY <1>1, <1>2

LEMMA FourFirst ==
  ASSUME NEW a, NEW b, NEW c, NEW d, NEW s, s = <<a, b, c, d>>
  PROVE  /\ IsSeq(s)
         /\ \A r : IsSeq(r) => Join(s, r) = First(a, First(b, First(c, First(d, r))))
<1>1. IsSeq(s) /\ Len(s) = 4 /\ s[1] = a /\ s[2] = b /\ s[3] = c /\ s[4] = d
  <2>1. s \in Seq({a, b, c, d}) /\ Len(s) = 4 /\ s[1] = a /\ s[2] = b /\ s[3] = c /\ s[4] = d
    OBVIOUS
  <2> QED BY ONLY <2>1 DEF IsSeq
<1>2. ASSUME NEW r, IsSeq(r)
      PROVE  Join(s, r) = First(a, First(b, First(c, First(d, r))))
  <2>1. PICK n : n = 4
    OBVIOUS
  <2>2. /\ From(s, 0, r) = First(s[1], From(s, 1, r))
        /\ From(s, 1, r) = First(s[2], From(s, 2, r))
        /\ From(s, 2, r) = First(s[3], From(s, 3, r))
        /\ From(s, 3, r) = First(s[n], From(s, n, r))
    <3>1. IsSeq(s) /\ IsSeq(r)
      BY ONLY <1>1, <1>2
    <3>2. 0 \in Nat /\ 0 < Len(s) /\ 1 = 0 + 1
      BY ONLY <1>1, <2>1
    <3>3. From(s, 0, r) = First(s[1], From(s, 1, r))
      BY ONLY <3>1, <3>2, FromFirst
    <3>4. 1 \in Nat /\ 1 < Len(s) /\ 2 = 1 + 1
      BY ONLY <1>1, <2>1
    <3>5. From(s, 1, r) = First(s[2], From(s, 2, r))
      BY ONLY <3>1, <3>4, FromFirst
    <3>6. 2 \in Nat /\ 2 < Len(s) /\ 3 = 2 + 1
      BY ONLY <1>1, <2>1
    <3>7. From(s, 2, r) = First(s[3], From(s, 3, r))
      BY ONLY <3>1, <3>6, FromFirst
    <3>8. 3 \in Nat /\ 3 < Len(s) /\ n = 3 + 1
      BY ONLY <1>1, <2>1
    <3>9. From(s, 3, r) = First(s[n], From(s, n, r))
      BY ONLY <3>1, <3>8, FromFirst
    <3> QED BY ONLY <3>3, <3>5, <3>7, <3>9
  <2>3. From(s, 0, r) = Join(s, r) /\ From(s, n, r) = r
    BY ONLY <1>1, <1>2, <2>1, FromEnds, JoinFrom
  <2> QED BY ONLY <1>1, <2>1, <2>2, <2>3
<1> QED BY ONLY <1>1, <1>2

LEMMA SixFirst ==
  ASSUME NEW a, NEW b, NEW c, NEW d, NEW e, NEW f, NEW s, s = <<a, b, c, d, e, f>>
  PROVE  /\ IsSeq(s)
         /\ \A r : IsSeq(r) => Join(s, r) = First(a, First(b, First(c, First(d, First(e, First(f, r))))))
<1>1. IsSeq(s) /\ Len(s) = 6 /\ s[1] = a /\ s[2] = b /\ s[3] = c /\ s[4] = d /\ s[5] = e /\ s[6] = f
  <2>1. s \in Seq({a, b, c, d, e, f}) /\ Len(s) = 6 /\ s[1] = a /\ s[2] = b /\ s[3] = c /\ s[4] = d /\ s[5] = e /\ s[6] = f
    OBVIOUS
  <2> QED BY ONLY <2>1 DEF IsSeq
<1>2. ASSUME NEW r, IsSeq(r)
      PROVE  Join(s, r) = First(a, First(b, First(c, First(d, First(e, First(f, r))))))
  <2>1. PICK n : n = 6
    OBVIOUS
  <2>2. /\ From(s, 0, r) = First(s[1], From(s, 1, r))
        /\ From(s, 1, r) = First(s[2], From(s, 2, r))
        /\ From(s, 2, r) = First(s[3], From(s, 3, r))
        /\ From(s, 3, r) = First(s[4], From(s, 4, r))
        /\ From(s, 4, r) = First(s[5], From(s, 5, r))
        /\ From(s, 5, r) = First(s[n], From(s, n, r))
    <3>1. IsSeq(s) /\ IsSeq(r)
      BY ONLY <1>1, <1>2
    <3>2. 0 \in Nat /\ 0 < Len(s) /\ 1 = 0 + 1
      BY ONLY <1>1, <2>1
    <3>3. From(s, 0, r) = First(s[1], From(s, 1, r))
      BY ONLY <3>1, <3>2, FromFirst
    <3>4. 1 \in Nat /\ 1 < Len(s) /\ 2 = 1 + 1
      BY ONLY <1>1, <2>1
    <3>5. From(s, 1, r) = First(s[2], From(s, 2, r))
      BY ONLY <3>1, <3>4, FromFirst
    <3>6. 2 \in Nat /\ 2 < Len(s) /\ 3 = 2 + 1
      BY ONLY <1>1, <2>1
    <3>7. From(s, 2, r) = First(s[3], From(s, 3, r))
      BY ONLY <3>1, <3>6, FromFirst
    <3>8. 3 \in Nat /\ 3 < Len(s) /\ 4 = 3 + 1
      BY ONLY <1>1, <2>1
    <3>9. From(s, 3, r) = First(s[4], From(s, 4, r))
      BY ONLY <3>1, <3>8, FromFirst
    <3>10. 4 \in Nat /\ 4 < Len(s) /\ 5 = 4 + 1
      BY ONLY <1>1, <2>1
    <3>11. From(s, 4, r) = First(s[5], From(s, 5, r))
      BY ONLY <3>1, <3>10, FromFirst
    <3>12. 5 \in Nat /\ 5 < Len(s) /\ n = 5 + 1
      BY ONLY <1>1, <2>1
    <3>13. From(s, 5, r) = First(s[n], From(s, n, r))
      BY ONLY <3>1, <3>12, FromFirst
    <3> QED BY ONLY <3>3, <3>5, <3>7, <3>9, <3>11, <3>13
  <2>3. From(s, 0, r) = Join(s, r) /\ From(s, n, r) = r
    BY ONLY <1>1, <1>2, <2>1, FromEnds, JoinFrom
  <2> QED BY ONLY <1>1, <2>1, <2>2, <2>3
<1> QED BY ONLY <1>1, <1>2

LEMMA ErasePlan ==
  ASSUME NEW o \in Operations, o.kind = "erase"
  PROVE  erase_page(o.at) = Plan(o, 1)
<1>1. PICK p, q, c, x, l :
        /\ p = ShadowHigh("WP") /\ q = Call("latch_command", <<CMD_BLOCKERASE1>>)
        /\ c = Call("setrows", o.at) /\ x = Call("latch_command", <<CMD_BLOCKERASE2>>)
        /\ l = ShadowLow("WP")
  OBVIOUS
<1>2. PICK w, y, z : w = WaitRdy /\ y = Call("latch_command", <<CMD_READSTATUS>>) /\ z = Call("read_data", 1)
  OBVIOUS
<1>3. PICK s : s = <<p, q, c, x>>
  OBVIOUS
<1>4. PICK t : t = <<w, y, z>>
  OBVIOUS
<1>5. PICK r : r = <<l>>
  OBVIOUS
<1>6. erase_page(o.at) = Join(Join(s, t), r)
  BY <1>1, <1>2, <1>3, <1>4, <1>5 DEF erase_page, ReadStatus, ShadowHigh, ShadowLow, Join
<1>7. IsSeq(s) /\ \A u : IsSeq(u) => Join(s, u) = First(p, First(q, First(c, First(x, u))))
  BY ONLY <1>3, FourFirst
<1>8. IsSeq(t) /\ \A u : IsSeq(u) => Join(t, u) = First(w, First(y, First(z, u)))
  BY ONLY <1>4, ThreeFirst
<1>9. IsSeq(r) /\ r = First(l, <<>>)
  BY ONLY <1>5, OneFirst
<1>10. erase_page(o.at) = First(p, First(q, First(c, First(x, First(w, First(y, First(z, First(l, <<>>))))))))
  BY ONLY <1>6, <1>7, <1>8, <1>9, JoinJoin
<1>11. /\ AfterRead(o) = First(l, <<>>) /\ Starts(o) = CMD_BLOCKERASE1 /\ Confirm(o) = CMD_BLOCKERASE2
  BY <1>1, o.kind = "erase" DEF AfterRead, Starts, Confirm
<1>12. AfterConfirm(o, 1) = First(w, First(y, First(z, First(l, <<>>))))
  BY <1>2, <1>11, o.kind = "erase" DEF AfterConfirm, AfterWait, AfterStatus
<1>13. AfterSetup(o, 1) = First(c, First(x, AfterConfirm(o, 1)))
  BY <1>1, <1>11, o.kind = "erase" DEF AfterSetup, AfterColumns, AfterRows, AfterData
<1>14. Plan(o, 1) = First(p, First(q, AfterSetup(o, 1)))
  BY <1>1, <1>11, o.kind = "erase" DEF Plan, AfterRaise
<1> QED BY ONLY <1>10, <1>12, <1>13, <1>14

LEMMA ProgramPlan ==
  ASSUME NEW o \in Operations, o.kind = "program", "RE" \in shadow
  PROVE  program_page(o.at, o.data) = Plan(o, 1)
<1>1. PICK p, q, b, c, d, x, l :
        /\ p = ShadowHigh("WP") /\ q = Call("latch_command", <<CMD_PAGEPROGRAM1>>)
        /\ b = Call("setcolumns", o.at) /\ c = Call("setrows", o.at)
        /\ d = Call("latch_data_out", o.data) /\ x = Call("latch_command", <<CMD_PAGEPROGRAM2>>)
        /\ l = ShadowLow("WP")
  OBVIOUS
<1>2. PICK w, y, z : w = WaitRdy /\ y = Call("latch_command", <<CMD_READSTATUS>>) /\ z = Call("read_data", 1)
  OBVIOUS
<1>3. PICK s : s = <<p, q, b, c, d, x>>
  OBVIOUS
<1>4. PICK t : t = <<w, y, z>>
  OBVIOUS
<1>5. PICK r : r = <<l>>
  OBVIOUS
<1>6. program_page(o.at, o.data) = Join(Join(s, t), r)
  BY <1>1, <1>2, <1>3, <1>4, <1>5 DEF program_page, ReadStatus, ShadowHigh, ShadowLow, Join
<1>7. IsSeq(s) /\ \A u : IsSeq(u) =>
        Join(s, u) = First(p, First(q, First(b, First(c, First(d, First(x, u))))))
  BY ONLY <1>3, SixFirst
<1>8. IsSeq(t) /\ \A u : IsSeq(u) => Join(t, u) = First(w, First(y, First(z, u)))
  BY ONLY <1>4, ThreeFirst
<1>9. IsSeq(r) /\ r = First(l, <<>>)
  BY ONLY <1>5, OneFirst
<1>10. program_page(o.at, o.data)
         = First(p, First(q, First(b, First(c, First(d, First(x,
             First(w, First(y, First(z, First(l, <<>>))))))))))
  BY ONLY <1>6, <1>7, <1>8, <1>9, JoinJoin
<1>11. /\ AfterRead(o) = First(l, <<>>) /\ Starts(o) = CMD_PAGEPROGRAM1 /\ Confirm(o) = CMD_PAGEPROGRAM2
  BY <1>1, o.kind = "program" DEF AfterRead, Starts, Confirm
<1>12. AfterConfirm(o, 1) = First(w, First(y, First(z, First(l, <<>>))))
  BY <1>2, <1>11, o.kind = "program" DEF AfterConfirm, AfterWait, AfterStatus
<1>13. AfterSetup(o, 1) = First(b, First(c, First(d, First(x, AfterConfirm(o, 1)))))
  BY <1>1, <1>11, o.kind = "program" DEF AfterSetup, AfterColumns, AfterRows, AfterData
<1>14. Plan(o, 1) = First(p, First(q, AfterSetup(o, 1)))
  BY <1>1, <1>11, o.kind = "program" DEF Plan, AfterRaise
<1> QED BY ONLY <1>10, <1>12, <1>13, <1>14

LEMMA ReadPlan ==
  ASSUME NEW o \in Operations, o.kind = "read", NEW n
  PROVE  read_memory(o.at, n) = Plan(o, n) /\ Plan(o, n) = AfterRaise(o, n)
<1>1. PICK q, b, c, x, w, z :
        /\ q = Call("latch_command", <<CMD_READ1>>)
        /\ b = Call("setcolumns", o.at) /\ c = Call("setrows", o.at)
        /\ x = Call("latch_command", <<CMD_READ2>>)
        /\ w = WaitRdy /\ z = Call("read_data", n)
  OBVIOUS
<1>2. PICK s : s = <<q, b, c, x, w, z>>
  OBVIOUS
<1>3. read_memory(o.at, n) = s
  BY <1>1, <1>2 DEF read_memory
<1>4. IsSeq(s) /\ \A u : IsSeq(u) =>
        Join(s, u) = First(q, First(b, First(c, First(x, First(w, First(z, u))))))
  BY ONLY <1>2, SixFirst
<1>5. PICK u : u = <<>> /\ IsSeq(u)
  BY EmptySequence
<1>6. Join(s, u) = s
  BY ONLY <1>4, <1>5, JoinFrom
<1>7. /\ AfterRead(o) = u /\ Starts(o) = CMD_READ1 /\ Confirm(o) = CMD_READ2
  BY <1>5, o.kind = "read" DEF AfterRead, Starts, Confirm
<1>8. AfterConfirm(o, n) = First(w, First(z, u))
  BY <1>1, <1>7, o.kind = "read" DEF AfterConfirm, AfterWait, AfterStatus
<1>9. AfterRaise(o, n) = First(q, First(b, First(c, First(x, AfterConfirm(o, n)))))
  BY <1>1, <1>7, o.kind = "read" DEF AfterRaise, AfterSetup, AfterColumns, AfterRows, AfterData
<1>10. Plan(o, n) = AfterRaise(o, n)
  BY o.kind = "read" DEF Plan
<1> QED BY ONLY <1>3, <1>4, <1>5, <1>6, <1>8, <1>9, <1>10

LEMMA EccPlan ==
  ASSUME NEW e, NEW bs, bs = <<IF e THEN 8 ELSE 0, 0, 0, 0>>
  PROVE  /\ IsSeq(set_ecc(e)) /\ set_ecc(e) = EccMoves(bs, <<>>)
         /\ \A r : IsSeq(r) => Join(set_ecc(e), r) = EccMoves(bs, r)
<1>1. PICK x, y, z, v :
        /\ x = Call("latch_command", <<CMD_EN_ECC>>) /\ y = PinHigh("ALE") /\ z = PinLow("ALE")
        /\ v = Call("latch_data_out", bs)
  OBVIOUS
<1>2. PICK t : t = Strobe(144) /\ IsSeq(t)
  BY StrobeIs
<1>3. PICK g : g = <<x, y>>
  OBVIOUS
<1>4. PICK h : h = <<z, v>>
  OBVIOUS
<1>5. set_ecc(e) = Join(Join(g, t), h)
  BY <1>1, <1>2, <1>3, <1>4, bs = <<IF e THEN 8 ELSE 0, 0, 0, 0>> DEF set_ecc, PinHigh, PinLow, Join
<1>6. IsSeq(g) /\ \A u : IsSeq(u) => Join(g, u) = First(x, First(y, u))
  BY ONLY <1>3, TwoFirst
<1>7. IsSeq(h) /\ \A u : IsSeq(u) => Join(h, u) = First(z, First(v, u))
  BY ONLY <1>4, TwoFirst
<1>8. PICK s : s = set_ecc(e)
  OBVIOUS
<1>9. IsSeq(Join(g, t)) /\ IsSeq(s)
  BY ONLY <1>2, <1>5, <1>6, <1>7, <1>8, JoinJoin
<1>10. PICK a : a = <<y>>
  OBVIOUS
<1>11. PICK c : c = <<z>>
  OBVIOUS
<1>12. IsSeq(a) /\ \A u : Join(a, u) = First(y, u)
  BY ONLY <1>10, OneFirst
<1>13. IsSeq(c) /\ \A u : Join(c, u) = First(z, u)
  BY ONLY <1>11, OneFirst
<1>14. EccTail = Join(Join(a, t), c)
  BY <1>1, <1>2, <1>10, <1>11 DEF EccTail, Around, Join
<1>15. ASSUME NEW r, IsSeq(r)
       PROVE  Join(s, r) = EccMoves(bs, r)
  <2>1. PICK w : w = First(v, r)
    OBVIOUS
  <2>2. IsSeq(w)
    BY ONLY <1>15, <2>1, FirstStep
  <2>3. PICK u : u = Join(h, r)
    OBVIOUS
  <2>4. IsSeq(u) /\ u = First(z, w) /\ Join(c, w) = u
    BY ONLY <1>7, <1>13, <1>15, <2>1, <2>3, JoinJoin
  <2>5. Join(s, r) = First(x, First(y, Join(t, u)))
    <3>1. Join(s, r) = Join(Join(g, t), u)
      BY ONLY <1>5, <1>7, <1>8, <1>9, <1>15, <2>3, JoinJoin
    <3>2. Join(Join(g, t), u) = Join(g, Join(t, u)) /\ IsSeq(Join(t, u))
      BY ONLY <1>2, <1>6, <2>4, JoinJoin
    <3> QED BY ONLY <1>6, <3>1, <3>2
  <2>6. From(EccTail, 0, w) = First(y, Join(t, u))
    <3>1. From(EccTail, 0, w) = Join(EccTail, w)
      BY ONLY <2>2, EccTailIs, JoinFrom
    <3>2. IsSeq(Join(a, t))
      BY ONLY <1>2, <1>12, JoinJoin
    <3>3. Join(EccTail, w) = Join(Join(a, t), u)
      BY ONLY <1>13, <1>14, <2>2, <2>4, <3>2, JoinJoin
    <3>4. Join(Join(a, t), u) = Join(a, Join(t, u))
      BY ONLY <1>2, <1>12, <2>4, JoinJoin
    <3> QED BY ONLY <1>12, <3>1, <3>3, <3>4
  <2>7. EccMoves(bs, r) = First(x, From(EccTail, 0, w))
    BY ONLY <1>1, <2>1 DEF EccMoves, AfterEccCommand, AfterEccTail
  <2> QED BY ONLY <2>5, <2>6, <2>7
<1>16. PICK n : n = <<>> /\ IsSeq(n)
  BY EmptySequence
<1>17. Join(s, n) = s
  BY ONLY <1>9, <1>16, JoinFrom
<1> QED BY ONLY <1>8, <1>9, <1>15, <1>16, <1>17

LEMMA BootPlan == Boot = From(ResetMoves, 0, AfterReset)
<1>1. PICK s, e, y, z :
        /\ s = ResetMoves /\ e = set_ecc(FALSE)
        /\ y = Call("latch_command", <<CMD_READID, 0>>) /\ z = Call("read_data", 5)
  OBVIOUS
<1>2. PICK h : h = <<y, z>>
  OBVIOUS
<1>3. Boot = Join(Join(s, e), h)
  BY <1>1, <1>2 DEF Boot, ResetMoves, Join
<1>4. PICK n : n = <<>> /\ IsSeq(n)
  BY EmptySequence
<1>5. IsSeq(h) /\ Join(h, n) = First(y, First(z, n))
  BY ONLY <1>2, <1>4, TwoFirst
<1>6. Join(h, n) = h
  BY ONLY <1>4, <1>5, JoinFrom
<1>7. h = Identify
  BY ONLY <1>1, <1>4, <1>5, <1>6 DEF Identify, AfterId
<1>8. IsSeq(e) /\ Join(e, h) = EccMoves(EccOff, h)
  <2>1. PICK f : f = FALSE
    OBVIOUS
  <2>2. PICK bs : bs = EccOff
    OBVIOUS
  <2>3. bs = <<IF f THEN 8 ELSE 0, 0, 0, 0>>
    BY <2>1, <2>2 DEF EccOff
  <2>4. IsSeq(set_ecc(f)) /\ \A r : IsSeq(r) => Join(set_ecc(f), r) = EccMoves(bs, r)
    BY ONLY <2>3, EccPlan
  <2>5. e = set_ecc(f)
    BY <1>1, <2>1
  <2> QED BY ONLY <1>5, <2>2, <2>4, <2>5
<1>9. IsSeq(s)
  BY ONLY <1>1, ResetSequence
<1>10. Join(Join(s, e), h) = Join(s, Join(e, h))
  BY ONLY <1>5, <1>8, <1>9, JoinJoin
<1>11. Join(e, h) = AfterReset
  BY ONLY <1>7, <1>8 DEF AfterReset
<1>12. From(s, 0, AfterReset) = Join(s, AfterReset)
  BY ONLY <1>9, AfterResetIs, JoinFrom
<1> QED BY ONLY <1>1, <1>3, <1>10, <1>11, <1>12

-----------------------------------------------------------------------------
(***************************************************************************)
(* A phase that is not the last has moves left.                            *)
(***************************************************************************)
LEMMA LatchLeft ==
  ASSUME NEW s, IsSeq(s), 5 <= Len(s), NEW c, NEW r, IsSeq(r), NEW S, NEW j \in 0 .. 4,
         InLatch(s, c, r, S, j)
  PROVE  todo # <<>>
<1>1. j \in Nat /\ j < Len(s)
  BY ONLY 5 <= Len(s), IsSeq(s), j \in 0 .. 4, LengthOf
<1>2. From(s, j, r) # <<>>
  BY ONLY <1>1, IsSeq(s), IsSeq(r), FromStep
<1> QED BY ONLY <1>2, InLatch(s, c, r, S, j) DEF InLatch

LEMMA StrobeLeft ==
  ASSUME NEW s, IsSeq(s), NEW d \in Nat, NEW bs, NEW r, IsSeq(r), NEW S,
         NEW i \in Nat, NEW t \in Nat, InStrobe(s, d, bs, r, S, i, t),
         d + 3 * i + t < Len(s) \/ (d + 3 * i + t <= Len(s) /\ r # <<>>)
  PROVE  todo # <<>>
<1>1. PICK k : k = d + 3 * i + t
  OBVIOUS
<1>2. k \in Nat /\ Len(s) \in Nat
  BY <1>1, LengthOf
<1>3. todo = From(s, k, r)
  BY ONLY <1>1, InStrobe(s, d, bs, r, S, i, t) DEF InStrobe
<1>4. k < Len(s) \/ (k <= Len(s) /\ r # <<>>)
  BY ONLY <1>1, d + 3 * i + t < Len(s) \/ (d + 3 * i + t <= Len(s) /\ r # <<>>)
<1>5. CASE k < Len(s)
  <2>1. From(s, k, r) # <<>>
    BY ONLY <1>2, <1>5, IsSeq(s), IsSeq(r), FromStep
  <2> QED BY ONLY <1>3, <2>1
<1>6. CASE ~(k < Len(s))
  <2>1. k = Len(s) /\ r # <<>>
    BY ONLY <1>2, <1>4, <1>6
  <2>2. From(s, k, r) = r
    BY ONLY <2>1, IsSeq(s), IsSeq(r), FromEnds
  <2> QED BY ONLY <1>3, <2>1, <2>2
<1> QED BY ONLY <1>5, <1>6

LEMMA ByteLeft ==
  ASSUME NEW n \in Nat, NEW r, IsSeq(r), NEW S, NEW i \in 0 .. n, NEW t \in 0 .. 2,
         i = n => t = 0, InByte(n, r, S, i, t)
  PROVE  todo # <<>>
<1>1. PICK s : s = read_data(n)
  OBVIOUS
<1>2. IsSeq(s) /\ Len(s) = 3 * n + 2
  BY ONLY <1>1, n \in Nat, ReadIs
<1>3. PICK k : k = 1 + 3 * i + t
  OBVIOUS
<1>4. k \in Nat /\ k < Len(s)
  BY ONLY <1>2, <1>3, n \in Nat, i \in 0 .. n, t \in 0 .. 2, i = n => t = 0
<1>5. From(s, k, r) # <<>>
  BY ONLY <1>2, <1>4, IsSeq(r), FromStep
<1> QED BY ONLY <1>1, <1>3, <1>5, InByte(n, r, S, i, t) DEF InByte

LEMMA ReadLeft ==
  ASSUME NEW n \in Nat, NEW r, IsSeq(r)
  PROVE  From(read_data(n), 0, r) # <<>>
<1>1. PICK s : s = read_data(n)
  OBVIOUS
<1>2. IsSeq(s) /\ Len(s) = 3 * n + 2
  BY ONLY <1>1, n \in Nat, ReadIs
<1>3. 0 \in Nat /\ 0 < Len(s)
  BY ONLY <1>2, n \in Nat
<1> QED BY ONLY <1>1, <1>2, <1>3, IsSeq(r), FromStep

LEMMA PlanLeft ==
  ASSUME NEW o \in Operations, NEW n
  PROVE  /\ AfterStatus(o, n) # <<>> /\ AfterWait(o, n) # <<>>
         /\ AfterConfirm(o, n) # <<>> /\ AfterData(o, n) # <<>> /\ AfterRows(o, n) # <<>>
         /\ AfterColumns(o, n) # <<>> /\ AfterSetup(o, n) # <<>> /\ AfterRaise(o, n) # <<>>
         /\ Plan(o, n) # <<>> /\ (o.kind # "read" => AfterRead(o) # <<>>)
<1>1. \A m, r : IsSeq(r) => First(m, r) # <<>>
  BY ONLY FirstStep
<1>2. /\ IsSeq(AfterRead(o)) /\ IsSeq(AfterStatus(o, n)) /\ IsSeq(AfterWait(o, n))
      /\ IsSeq(AfterConfirm(o, n)) /\ IsSeq(AfterData(o, n)) /\ IsSeq(AfterRows(o, n))
      /\ IsSeq(AfterColumns(o, n)) /\ IsSeq(AfterSetup(o, n)) /\ IsSeq(AfterRaise(o, n))
  BY PlanIs
<1>3. AfterStatus(o, n) # <<>>
  BY ONLY <1>1, <1>2 DEF AfterStatus
<1>4. AfterWait(o, n) # <<>>
  BY ONLY <1>1, <1>2, <1>3 DEF AfterWait
<1>5. AfterConfirm(o, n) # <<>> /\ AfterData(o, n) # <<>>
  BY ONLY <1>1, <1>2 DEF AfterConfirm, AfterData
<1>6. AfterRows(o, n) # <<>> /\ AfterColumns(o, n) # <<>>
  BY ONLY <1>1, <1>2, <1>5 DEF AfterRows, AfterColumns
<1>7. AfterSetup(o, n) # <<>> /\ AfterRaise(o, n) # <<>>
  BY ONLY <1>1, <1>2, <1>6 DEF AfterSetup, AfterRaise
<1>8. Plan(o, n) # <<>>
  BY ONLY <1>1, <1>2, <1>7 DEF Plan
<1>9. o.kind # "read" => AfterRead(o) # <<>>
  BY ONLY <1>1, EmptySequence DEF AfterRead
<1> QED BY ONLY <1>3, <1>4, <1>5, <1>6, <1>7, <1>8, <1>9

LEMMA PhaseLeft ==
  ASSUME NEW o \in Operations, NEW n \in Nat, Phase(o, n), todo = <<>>
  PROVE  AtEnd(o, n)
<1>1. /\ IsSeq(AfterRead(o)) /\ IsSeq(AfterStatus(o, n)) /\ IsSeq(AfterWait(o, n))
      /\ IsSeq(AfterConfirm(o, n)) /\ IsSeq(AfterData(o, n)) /\ IsSeq(AfterRows(o, n))
      /\ IsSeq(AfterColumns(o, n)) /\ IsSeq(AfterSetup(o, n)) /\ IsSeq(AfterRaise(o, n))
  BY PlanIs
<1>2. /\ AfterStatus(o, n) # <<>> /\ AfterWait(o, n) # <<>>
      /\ AfterConfirm(o, n) # <<>> /\ AfterData(o, n) # <<>> /\ AfterRows(o, n) # <<>>
      /\ AfterColumns(o, n) # <<>> /\ AfterSetup(o, n) # <<>> /\ AfterRaise(o, n) # <<>>
      /\ Plan(o, n) # <<>> /\ (o.kind # "read" => AfterRead(o) # <<>>)
  BY PlanLeft
<1>3. /\ ~AtRaise(o, n) /\ ~AtSetup(o, n) /\ ~AtColumns(o, n) /\ ~AtRows(o, n) /\ ~AtData(o, n)
      /\ ~AtConfirm(o, n) /\ ~AtWait(o, n) /\ ~AtStatus(o, n) /\ ~AtRead(o, n) /\ ~AtLower(o, n)
  BY ONLY <1>2, todo = <<>>
     DEF AtRaise, AtSetup, AtColumns, AtRows, AtData, AtConfirm, AtWait, AtStatus, AtRead, AtLower
<1>4. ASSUME NEW c, NEW r, IsSeq(r), NEW S, NEW j \in 0 .. 4
      PROVE  ~InLatch(latch_command(<<c>>), c, r, S, j)
  <2>1. PICK s : s = latch_command(<<c>>)
    OBVIOUS
  <2>2. IsSeq(s) /\ Len(s) = 5
    BY ONLY <2>1, CommandIs
  <2> QED BY ONLY <1>4, <2>1, <2>2, 5 <= 5, todo = <<>>, LatchLeft
<1>5. ~InSetup(o, n) /\ ~InConfirm(o, n) /\ ~InStatus(o, n)
  BY ONLY <1>1, <1>4 DEF InSetup, InConfirm, InStatus
<1>6. ~InColumns(o, n)
  <2>1. PICK s, r, x, S : s = setcolumns(o.at) /\ r = AfterColumns(o, n) /\ x = ColumnBytes(o.at)
                       /\ S = Base(o) \cup {"ALE"}
    OBVIOUS
  <2>2. IsSeq(s) /\ Len(s) = 7 /\ IsSeq(r) /\ r # <<>>
    BY ONLY <1>1, <1>2, <2>1, o \in Operations, Kinds, ColumnMoves
  <2>3. From(s, 0, r) # <<>>
    <3>1. 0 \in Nat /\ 0 < Len(s)
      BY ONLY <2>2
    <3> QED BY ONLY <2>2, <3>1, FromStep
  <2>4. ASSUME NEW i \in 0 .. 1, NEW t \in 0 .. 2
        PROVE  ~InStrobe(s, 1, x, r, S, i, t)
    <3>1. i \in Nat /\ t \in Nat /\ 1 \in Nat /\ 1 + 3 * i + t <= Len(s)
      BY ONLY <2>2, i \in 0 .. 1, t \in 0 .. 2
    <3> QED BY ONLY <2>2, <3>1, todo = <<>>, StrobeLeft
  <2> QED BY ONLY <2>1, <2>3, <2>4, todo = <<>> DEF InColumns
<1>7. ~InRows(o, n)
  <2>1. PICK s, r, x, S : s = setrows(o.at) /\ r = AfterRows(o, n) /\ x = RowBytes(o.at)
                       /\ S = Base(o) \cup {"ALE"}
    OBVIOUS
  <2>2. IsSeq(s) /\ Len(s) = 3 * Len(x) + 2 /\ IsSeq(r) /\ r # <<>>
    BY ONLY <1>1, <1>2, <2>1, o \in Operations, Kinds, RowMoves
  <2>3. Len(x) \in 2 .. 3
    BY ONLY <2>1, o \in Operations, Kinds, RowBytesAre
  <2>4. From(s, 0, r) # <<>>
    <3>1. 0 \in Nat /\ 0 < Len(s)
      BY ONLY <2>2, <2>3
    <3> QED BY ONLY <2>2, <3>1, FromStep
  <2>5. ASSUME NEW i \in 0 .. Len(x), NEW t \in 0 .. 2, i = Len(x) => t = 0
        PROVE  ~InStrobe(s, 1, x, r, S, i, t)
    <3>1. i \in Nat /\ t \in Nat /\ 1 \in Nat /\ 1 + 3 * i + t <= Len(s)
      BY ONLY <2>2, <2>3, <2>5, i \in 0 .. Len(x), t \in 0 .. 2
    <3> QED BY ONLY <2>2, <3>1, todo = <<>>, StrobeLeft
  <2> QED BY ONLY <2>1, <2>4, <2>5, todo = <<>> DEF InRows
<1>8. ~InData(o, n)
  <2>1. PICK s, r, x, S : s = latch_data_out(o.data) /\ r = AfterData(o, n) /\ x = o.data /\ S = Base(o)
    OBVIOUS
  <2>2. IsSeq(s) /\ Len(s) = 3 * Len(x) /\ IsSeq(r) /\ r # <<>> /\ Len(x) \in Nat
    BY ONLY <1>1, <1>2, <2>1, o \in Operations, Kinds, DataMoves
  <2>3. ASSUME NEW i \in 0 .. Len(x) - 1, NEW t \in 0 .. 2
        PROVE  ~InStrobe(s, 0, x, r, S, i, t)
    <3>1. i \in Nat /\ t \in Nat /\ 0 \in Nat /\ 0 + 3 * i + t <= Len(s)
      BY ONLY <2>2, i \in 0 .. Len(x) - 1, t \in 0 .. 2
    <3> QED BY ONLY <2>2, <3>1, todo = <<>>, StrobeLeft
  <2> QED BY ONLY <2>1, <2>3 DEF InData
<1>9. ~InRead(o, n)
  <2>1. PICK r : r = AfterRead(o)
    OBVIOUS
  <2>2. From(read_data(n), 0, r) # <<>>
    BY ONLY <1>1, <2>1, n \in Nat, ReadLeft
  <2>3. ASSUME NEW i \in 0 .. n, NEW t \in 0 .. 2, i = n => t = 0
        PROVE  ~InByte(n, r, Base(o), i, t)
    BY ONLY <1>1, <2>1, <2>3, n \in Nat, todo = <<>>, ByteLeft
  <2> QED BY ONLY <2>1, <2>2, <2>3, todo = <<>> DEF InRead
<1> QED BY ONLY <1>3, <1>5, <1>6, <1>7, <1>8, <1>9, Phase(o, n) DEF Phase

LEMMA EccLeft ==
  ASSUME NEW bs, PlainBytes(bs), Len(bs) = 4, NEW r, IsSeq(r), EccPhase(bs, r)
  PROVE  todo # <<>>
<1>1. PICK a, b : a = AfterEccTail(bs, r) /\ b = AfterEccCommand(bs, r)
  OBVIOUS
<1>2. IsSeq(a) /\ a # <<>>
  BY ONLY <1>1, IsSeq(r), FirstStep DEF AfterEccTail
<1>3. IsSeq(b) /\ b # <<>>
  <2>1. 0 \in Nat /\ 0 < Len(EccTail)
    BY ONLY EccTailIs
  <2>2. b = From(EccTail, 0, a)
    BY ONLY <1>1 DEF AfterEccCommand
  <2> QED BY ONLY <1>2, <2>1, <2>2, EccTailIs, FromStep
<1>4. EccMoves(bs, r) # <<>>
  BY ONLY <1>1, <1>3, FirstStep DEF EccMoves
<1>5. \A j \in 0 .. 4 : InLatch(latch_command(<<CMD_EN_ECC>>), CMD_EN_ECC, b, Up, j) => todo # <<>>
  <2>1. PICK s : s = latch_command(<<CMD_EN_ECC>>)
    OBVIOUS
  <2>2. IsSeq(s) /\ Len(s) = 5
    BY ONLY <2>1, CommandIs
  <2> QED BY ONLY <1>3, <2>1, <2>2, 5 <= 5, LatchLeft
<1>6. ASSUME NEW i \in 0 .. 1, NEW t \in 0 .. 2, i = 1 => t = 0,
             InStrobe(EccTail, 1, << 144 >>, a, Up \cup {"ALE"}, i, t)
      PROVE  todo # <<>>
  <2>1. PICK s, x, S : s = EccTail /\ x = <<144>> /\ S = Up \cup {"ALE"}
    OBVIOUS
  <2>2. IsSeq(s) /\ Len(s) = 5
    BY ONLY <2>1, EccTailIs
  <2>3. i \in Nat /\ t \in Nat /\ 1 \in Nat /\ 1 + 3 * i + t <= Len(s)
    BY ONLY <1>6, <2>2, i \in 0 .. 1, t \in 0 .. 2
  <2>4. InStrobe(s, 1, x, a, S, i, t)
    BY ONLY <1>6, <2>1
  <2> QED BY ONLY <1>2, <2>2, <2>3, <2>4, StrobeLeft
<1>7. ASSUME NEW i \in 0 .. 3, NEW t \in 0 .. 2, InStrobe(latch_data_out(bs), 0, bs, r, Up, i, t)
      PROVE  todo # <<>>
  <2>1. PICK s : s = latch_data_out(bs)
    OBVIOUS
  <2>2. IsSeq(s) /\ Len(s) = 12
    <3>1. IsSeq(bs)
      BY ONLY PlainBytes(bs) DEF PlainBytes
    <3>2. IsSeq(s) /\ Len(s) = 3 * Len(bs)
      BY ONLY <2>1, <3>1, DataMoves
    <3> QED BY ONLY <3>2, Len(bs) = 4
  <2>3. i \in Nat /\ t \in Nat /\ 0 \in Nat /\ 0 + 3 * i + t < Len(s)
    BY ONLY <2>2, i \in 0 .. 3, t \in 0 .. 2
  <2>4. InStrobe(s, 0, bs, r, Up, i, t)
    BY ONLY <1>7, <2>1
  <2> QED BY ONLY <2>2, <2>3, <2>4, IsSeq(r), StrobeLeft
<1> QED BY ONLY <1>1, <1>2, <1>3, <1>4, <1>5, <1>6, <1>7, EccPhase(bs, r) DEF EccPhase

LEMMA IdLeft ==
  ASSUME IdPhase, todo = <<>>
  PROVE  Pinned(Up)
<1>1. PICK a, s, x, S : a = AfterId /\ s = IdMoves /\ x = <<0>> /\ S = Up \cup {"ALE"}
  OBVIOUS
<1>2. IsSeq(a) /\ a # <<>>
  BY ONLY <1>1, EmptySequence, FirstStep DEF AfterId
<1>3. IsSeq(s) /\ Len(s) = 10
  BY ONLY <1>1, IdMovesAre
<1>4. todo # Identify
  BY ONLY <1>1, <1>2, todo = <<>>, FirstStep DEF Identify
<1>5. \A j \in 0 .. 4 : ~InLatch(s, CMD_READID, a, Up, j)
  <2>1. 5 <= Len(s)
    BY ONLY <1>3
  <2> QED BY ONLY <1>2, <1>3, <2>1, todo = <<>>, LatchLeft
<1>6. From(s, 5, a) # <<>>
  <2>1. 5 \in Nat /\ 5 < Len(s)
    BY ONLY <1>3
  <2> QED BY ONLY <1>2, <1>3, <2>1, FromStep
<1>7. ASSUME NEW i \in 0 .. 1, NEW t \in 0 .. 2, i = 1 => t = 0
      PROVE  ~InStrobe(s, 6, x, a, S, i, t)
  <2>1. i \in Nat /\ t \in Nat /\ 6 \in Nat /\ 6 + 3 * i + t <= Len(s)
    BY ONLY <1>3, <1>7, i \in 0 .. 1, t \in 0 .. 2
  <2> QED BY ONLY <1>2, <1>3, <2>1, todo = <<>>, StrobeLeft
<1>8. PICK r : r = <<>> /\ IsSeq(r)
  BY EmptySequence
<1>9. PICK n : n = 5
  OBVIOUS
<1>10. n \in Nat
  BY <1>9
<1>11. From(read_data(n), 0, r) # <<>>
  BY ONLY <1>8, <1>10, ReadLeft
<1>12. ASSUME NEW i \in 0 .. n, NEW t \in 0 .. 2, i = n => t = 0
       PROVE  ~InByte(n, r, Up, i, t)
  BY ONLY <1>8, <1>10, <1>12, todo = <<>>, ByteLeft
<1>13. ASSUME NEW i \in 0 .. 5, NEW t \in 0 .. 2, i = 5 => t = 0
       PROVE  ~InByte(5, <<>>, Up, i, t)
  BY ONLY <1>8, <1>9, <1>12, <1>13
<1>14. From(read_data(5), 0, <<>>) # <<>>
  BY ONLY <1>8, <1>9, <1>11
<1>15. /\ \A j \in 0 .. 4 : ~InLatch(IdMoves, CMD_READID, AfterId, Up, j)
       /\ \A i \in 0 .. 1, t \in 0 .. 2 :
            (i = 1 => t = 0) => ~InStrobe(IdMoves, 6, <<0>>, AfterId, Up \cup {"ALE"}, i, t)
  BY ONLY <1>1, <1>5, <1>7
<1> QED BY ONLY <1>1, <1>2, <1>4, <1>6, <1>13, <1>14, <1>15, todo = <<>>, IdPhase DEF IdPhase

LEMMA BootLeft ==
  ASSUME BootPhase, todo = <<>>
  PROVE  Idle /\ Pinned(Up)
<1>1. PICK s, r : s = ResetMoves /\ r = AfterReset
  OBVIOUS
<1>2. IsSeq(s) /\ Len(s) = 5 /\ IsSeq(r)
  BY ONLY <1>1, ResetSequence, AfterResetIs
<1>3. \A j \in 0 .. 4 : From(s, j, r) # <<>>
  <2>1. \A j \in 0 .. 4 : j \in Nat /\ j < Len(s)
    BY ONLY <1>2
  <2> QED BY ONLY <1>2, <2>1, FromStep
<1>4. From(s, 0, r) # <<>> /\ From(s, 1, r) # <<>> /\ From(s, 2, r) # <<>> /\ From(s, 3, r) # <<>>
      /\ From(s, 4, r) # <<>>
  BY ONLY <1>3
<1>5. ASSUME NEW j \in 0 .. 4
      PROVE  ~InLatch(latch_command(<<CMD_RESET>>), CMD_RESET, r, {"RE"}, j)
  <2>1. PICK w : w = latch_command(<<CMD_RESET>>)
    OBVIOUS
  <2>2. IsSeq(w) /\ Len(w) = 5
    BY ONLY <2>1, CommandIs
  <2>3. PICK S : S = {"RE"}
    OBVIOUS
  <2>4. ~InLatch(w, CMD_RESET, r, S, j)
    BY ONLY <1>2, <2>2, 5 <= 5, todo = <<>>, j \in 0 .. 4, LatchLeft
  <2> QED BY ONLY <2>1, <2>3, <2>4
<1>6. ~ResetPhase
  <2>1. \A j \in 0 .. 3 : j \in 0 .. 4
    OBVIOUS
  <2> QED BY ONLY <1>1, <1>4, <1>5, <2>1, todo = <<>> DEF ResetPhase
<1>7. ~EccPhase(EccOff, Identify)
  BY ONLY todo = <<>>, AfterResetIs, EccLeft
<1>8. 4 \in 0 .. 4
  OBVIOUS
<1> QED BY ONLY <1>1, <1>5, <1>6, <1>7, <1>8, todo = <<>>, BootPhase, IdLeft DEF BootPhase

-----------------------------------------------------------------------------
(***************************************************************************)
(* Steps between the operations.                                           *)
(***************************************************************************)
LEMMA EmployedStays ==
  ASSUME Employed, UNCHANGED <<mode, addr, reg, busy, op, acted>>
  PROVE  Employed'
<1>1. busy' = busy /\ op' = op /\ acted' = acted /\ mode' = mode /\ addr' = addr /\ reg' = reg
  OBVIOUS
<1>2. ASSUME NEW o, AtWork(o)
      PROVE  AtWork(o)'
  <2>1. Clocked(o, Len(Address(o)))'
    BY ONLY <1>1, <1>2 DEF AtWork, Clocked
  <2>2. o.kind = "program" => Filled(o, Len(o.data))'
    BY ONLY <1>1, <1>2 DEF AtWork, Filled
  <2> QED BY ONLY <1>1, <1>2, <2>1, <2>2 DEF AtWork
<1> QED BY ONLY <1>1, <1>2, Employed DEF Employed

LEMMA Rests ==
  ASSUME Idle', todo' = <<>>, Lagging(Up)' \/ pc' = "done",
         pc' \in Loops \cup {"options", "done", "dead"}
  PROVE  Where' /\ Employed'
<1>1. "boot" \notin Loops /\ "ecc" \notin Loops /\ "done" \notin Loops
  BY DEF Loops
<1>2. Employed'
  BY ONLY Idle' DEF Employed, Idle, Resting
<1>3. pc' # "boot" /\ pc' # "ecc" /\ (pc' \in Loops \cup {"options"} => Lagging(Up)')
  BY <1>1
<1>4. Where'
  BY ONLY <1>3, Idle', todo' = <<>> DEF Where
<1> QED BY ONLY <1>2, <1>4

LEMMA IdleStays ==
  ASSUME Idle, UNCHANGED <<busy, acted, stopped, op>>
  PROVE  Idle'
BY DEF Idle, Resting

LEMMA LagStays ==
  ASSUME NEW S, Lagging(S), UNCHANGED <<shadow, pins>>
  PROVE  Lagging(S)'
BY DEF Lagging

\* Between operations a loop has an idle chip and low write protection.
LEMMA LoopIdle ==
  ASSUME Where, pc \in Loops, op = NoOp
  PROVE  Idle /\ todo = <<>> /\ Lagging(Up)
<1>1. \A o \in Operations : o # op
  BY ONLY op = NoOp, Kinds
<1> QED BY ONLY <1>1, Where, pc \in Loops DEF Where

\* The operation has come to its end.
LEMMA LoopEnd ==
  ASSUME Where, pc \in Loops, op # NoOp, todo = <<>>
  PROVE  \E o \in Operations, n \in Nat : o = op /\ Fits(o, n) /\ AtEnd(o, n)
<1>1. ~Idle
  BY ONLY op # NoOp DEF Idle
<1>2. PICK o \in Operations, n \in Nat : o = op /\ Fits(o, n) /\ Phase(o, n)
  BY ONLY <1>1, Where, pc \in Loops DEF Where
<1>3. AtEnd(o, n)
  BY ONLY <1>2, o \in Operations, n \in Nat, todo = <<>>, PhaseLeft
<1> QED BY ONLY <1>2, <1>3, o \in Operations, n \in Nat

LEMMA Begun ==
  ASSUME NEW o \in Operations, NEW n \in Nat, Idle, Lagging(Up), Begins(o, Plan(o, n)),
         pc' \in Loops, Fits(o, n)'
  PROVE  Where' /\ Employed'
<1>1. /\ op' = o /\ todo' = Plan(o, n)
      /\ UNCHANGED <<shadow, pins, busy, acted, stopped>>
  BY ONLY Begins(o, Plan(o, n)) DEF Begins
<1>2. Resting' /\ busy' = "none"
  BY ONLY <1>1, Idle DEF Idle, Resting
<1>3. Lagging(Up)'
  BY ONLY <1>1, Lagging(Up), LagStays
<1>4. Phase(o, n)'
  <2>1. CASE o.kind = "read"
    <3>1. todo' = AfterRaise(o, n)
      BY ONLY <1>1, <2>1, o \in Operations, ReadPlan
    <3>2. Base(o) = Up
      BY <2>1 DEF Base
    <3>3. AtSetup(o, n)'
      BY ONLY <1>2, <1>3, <3>1, <3>2 DEF AtSetup
    <3> QED BY ONLY <3>3 DEF Phase
  <2>2. CASE o.kind # "read"
    <3>1. AtRaise(o, n)'
      BY ONLY <1>1, <1>2, <1>3, <2>2 DEF AtRaise
    <3> QED BY ONLY <3>1 DEF Phase
  <2> QED BY ONLY <2>1, <2>2
<1>5. pc' \notin {"boot", "ecc", "options", "done"}
  BY DEF Loops
<1>6. Where'
  BY ONLY <1>1, <1>4, <1>5, o \in Operations, n \in Nat, Fits(o, n)' DEF Where
<1>7. op' # NoOp
  BY ONLY <1>1, o \in Operations, Kinds
<1>8. Employed'
  BY ONLY <1>2, <1>7 DEF Employed
<1> QED BY ONLY <1>6, <1>8

LEMMA Ended ==
  ASSUME Where, pc \in Loops, Returned, UNCHANGED bus, pc' = pc
  PROVE  Where' /\ Employed' /\ UNCHANGED <<cells, reg, out, stopped, InBuf>> /\ acted' = FALSE
<1>1. /\ op # NoOp /\ todo = <<>> /\ op' = NoOp /\ acted' = FALSE
      /\ UNCHANGED <<busy, stopped, cells, reg>>
  BY ONLY Returned DEF Returned
<1>2. PICK o \in Operations, n \in Nat : o = op /\ Fits(o, n) /\ AtEnd(o, n)
  BY ONLY <1>1, Where, pc \in Loops, LoopEnd
<1>3. Lagging(Up) /\ busy = "none" /\ ~stopped
  BY ONLY <1>2 DEF AtEnd, Did
<1>4. Idle'
  BY ONLY <1>1, <1>3 DEF Idle, Resting
<1>5. UNCHANGED <<shadow, pins, todo, out, InBuf>>
  BY ONLY UNCHANGED bus DEF bus
<1>6. Lagging(Up)'
  BY ONLY <1>3, <1>5, LagStays
<1>7. todo' = <<>> /\ pc' \in Loops \cup {"options", "done", "dead"}
  BY ONLY <1>1, <1>5, pc \in Loops, pc' = pc
<1> QED BY ONLY <1>1, <1>4, <1>5, <1>6, <1>7, Rests

\* The buffers.
LEMMA MallocBytes ==
  ASSUME NEW n \in Nat, Mallocs(n)
  PROVE  data' \in Seq(Byte) /\ Len(data') = n
<1>1. PICK b \in Heap : data' = [i \in 1 .. n |-> b]
  BY DEF Mallocs
<1>2. b \in Byte
  BY ReaderAssumption
<1>3. data' \in [1 .. n -> Byte]
  BY ONLY <1>1, <1>2
<1> QED BY ONLY <1>3, n \in Nat

LEMMA FreadBytes ==
  ASSUME Fread, at \in Nat, at <= Len(file), file \in Seq(Byte), data \in Seq(Byte),
         Len(data) = ChunkSize
  PROVE  data' \in Seq(Byte) /\ Len(data') = ChunkSize
<1>1. PICK n : n = ChunkSize
  OBVIOUS
<1>2. n \in Nat
  BY <1>1, Sizes
<1>3. PICK got : got = IF Len(file) - at < n THEN Len(file) - at ELSE n
  OBVIOUS
<1>4. data' = [i \in 1 .. n |-> IF i <= got THEN file[at + i] ELSE data[i]]
  BY <1>1, <1>3 DEF Fread
<1>5. Len(file) \in Nat /\ got <= Len(file) - at /\ got \in Int
  BY ONLY <1>2, <1>3, at \in Nat, file \in Seq(Byte)
<1>6. ASSUME NEW i \in 1 .. n
      PROVE  (IF i <= got THEN file[at + i] ELSE data[i]) \in Byte
  <2>1. CASE i <= got
    <3>1. at + i \in 1 .. Len(file)
      BY ONLY <1>2, <1>5, <2>1, at \in Nat, i \in 1 .. n
    <3>2. file[at + i] \in Byte
      BY ONLY <3>1, file \in Seq(Byte)
    <3> QED BY ONLY <2>1, <3>2
  <2>2. CASE ~(i <= got)
    <3>1. i \in 1 .. Len(data)
      BY ONLY <1>1, Len(data) = ChunkSize, i \in 1 .. n
    <3>2. data[i] \in Byte
      BY ONLY <3>1, data \in Seq(Byte)
    <3> QED BY ONLY <2>2, <3>2
  <2> QED BY ONLY <2>1, <2>2
<1>7. data' \in [1 .. n -> Byte]
  BY ONLY <1>4, <1>6
<1>8. data' \in Seq(Byte) /\ Len(data') = n
  BY ONLY <1>2, <1>7
<1> QED BY ONLY <1>1, <1>8

LEMMA JoinBytes ==
  ASSUME NEW s \in Seq(Byte), NEW t \in Seq(Byte)
  PROVE  s \o t \in Seq(Byte)
OBVIOUS

LEMMA NoBytes == <<>> \in Seq(Byte)
<1>1. PICK e : e = <<>>
  OBVIOUS
<1>2. e \in Seq(Byte)
  BY ONLY <1>1, EmptySeq
<1> QED BY ONLY <1>1, <1>2

\* The variables of main whose types matter.
LEMMA TypedStays ==
  ASSUME Typed, UNCHANGED <<cells, reg, out, stopped>>, acted' \in BOOLEAN,
         InBuf' \in Seq(Byte), file' \in Seq(Byte), data' \in Seq(Byte),
         starting_erasepage' \in Nat, startingpage' \in Nat,
         pc' \in Loops \cup {"options", "ecc", "done", "dead"}, pc' \in Loops => nPage' \in Nat
  PROVE  Typed'
BY DEF Typed, Memory

-----------------------------------------------------------------------------
LEMMA IdentifiedStep ==
  ASSUME OpInv, Identified
  PROVE  OpInv' /\ Buffered'
<1>1. /\ pc = "boot" /\ todo = <<>> /\ pc' = "options"
      /\ UNCHANGED main /\ UNCHANGED bus /\ UNCHANGED <<busy, cells, reg>>
      /\ op' = NoOp /\ acted' = FALSE /\ stopped' = FALSE
  BY DEF Identified
<1>2. Where /\ Typed
  BY DEF OpInv
<1>3. Idle /\ Pinned(Up)
  BY ONLY <1>1, <1>2, BootLeft DEF Where
<1>4. /\ stopped' = stopped /\ acted' \in BOOLEAN
      /\ UNCHANGED <<shadow, pins, out, todo, InBuf>>
      /\ UNCHANGED <<file, data, starting_erasepage, startingpage>>
  <2>1. /\ UNCHANGED <<shadow, pins, out, todo, InBuf>>
        /\ UNCHANGED <<file, data, starting_erasepage, startingpage>>
    BY ONLY <1>1 DEF main, bus
  <2>2. ~stopped /\ stopped \in BOOLEAN
    BY ONLY <1>2, <1>3 DEF Idle, Resting, Typed
  <2>3. stopped' = stopped /\ acted' \in BOOLEAN
    BY ONLY <1>1, <2>2
  <2> QED BY ONLY <2>1, <2>3
<1>5. Idle'
  BY ONLY <1>1, <1>3 DEF Idle, Resting
<1>6. Lagging(Up)'
  BY ONLY <1>3, <1>4 DEF Pinned, Lagging
<1>7. "options" \notin Loops
  BY DEF Loops
<1>8. Where' /\ Employed'
  BY ONLY <1>1, <1>4, <1>5, <1>6, Rests
<1>9. Typed'
  BY ONLY <1>1, <1>2, <1>4, <1>7, TypedStays DEF Typed
<1>10. Buffered'
  BY ONLY <1>1 DEF Buffered
<1> QED BY ONLY <1>8, <1>9, <1>10 DEF OpInv

LEMMA OptionStep ==
  ASSUME OpInv, Option
  PROVE  OpInv' /\ Buffered'
<1>1. pc = "options"
  BY DEF Option, TakesOption, SetErasePage, SetPage, EraseOption, ReadOption, WriteOption,
         EccOption, EndOfLine
<1>2. Where /\ Typed
  BY DEF OpInv
<1>3. Idle /\ todo = <<>> /\ Lagging(Up)
  BY ONLY <1>1, <1>2 DEF Where
<1>4. /\ InBuf \in Seq(Byte) /\ file \in Seq(Byte) /\ data \in Seq(Byte)
      /\ starting_erasepage \in Nat /\ startingpage \in Nat /\ acted \in BOOLEAN
  BY ONLY <1>2 DEF Typed
<1>5. ASSUME Quiet
      PROVE  /\ Idle' /\ Lagging(Up)' /\ todo' = <<>> /\ InBuf' = InBuf /\ acted' = acted
             /\ UNCHANGED <<cells, reg, out, stopped>>
  <2>1. /\ UNCHANGED <<busy, acted, stopped, op, cells, reg>>
        /\ UNCHANGED <<shadow, pins, out, todo, InBuf>>
    BY ONLY <1>5 DEF Quiet, bus, chip
  <2> QED BY ONLY <1>3, <2>1, IdleStays, LagStays
<1>6. ASSUME Quiet, pc' \in Loops \cup {"options"}, pc' \in Loops => nPage' \in Nat,
             file' \in Seq(Byte), data' \in Seq(Byte), starting_erasepage' \in Nat, startingpage' \in Nat
      PROVE  OpInv'
  <2>1. /\ Idle' /\ Lagging(Up)' /\ todo' = <<>> /\ InBuf' = InBuf /\ acted' = acted
        /\ UNCHANGED <<cells, reg, out, stopped>>
    BY ONLY <1>5, <1>6
  <2>2. pc' \in Loops \cup {"options", "done", "dead"} /\ pc' \in Loops \cup {"options", "ecc", "done", "dead"}
    BY ONLY <1>6
  <2>3. Where' /\ Employed'
    BY ONLY <2>1, <2>2, Rests
  <2>4. Typed'
    BY ONLY <1>2, <1>4, <1>6, <2>1, <2>2, TypedStays
  <2> QED BY ONLY <2>3, <2>4 DEF OpInv
<1>7. "options" \notin Loops /\ "ecc" \notin Loops /\ "done" \notin Loops
      /\ {"erase", "r", "R", "w", "W"} \subseteq Loops
  BY DEF Loops
<1>8. Pages \subseteq Nat
  BY ReaderAssumption
<1>9. ASSUME NEW p \in Pages, SetErasePage(p) \/ SetPage(p)
      PROVE  OpInv' /\ Buffered'
  <2>1. /\ Quiet /\ pc' = "options" /\ file' = file /\ data' = data
        /\ starting_erasepage' \in {p, starting_erasepage} /\ startingpage' \in {p, startingpage}
    BY <1>1, <1>9 DEF SetErasePage, SetPage
  <2>2. OpInv'
    BY ONLY <1>4, <1>6, <1>7, <1>8, <2>1, p \in Pages
  <2>3. Buffered'
    BY ONLY <2>1 DEF Buffered
  <2> QED BY ONLY <2>2, <2>3
<1>10. ASSUME NEW n \in Counts, EraseOption(n)
       PROVE  OpInv' /\ Buffered'
  <2>1. /\ Quiet /\ pc' = "erase" /\ file' = file /\ data' = data /\ nPage' = starting_erasepage
        /\ starting_erasepage' = starting_erasepage /\ startingpage' = startingpage
    BY <1>10 DEF EraseOption
  <2>2. OpInv'
    BY ONLY <1>4, <1>6, <1>7, <2>1
  <2>3. Buffered'
    BY ONLY <2>1 DEF Buffered
  <2> QED BY ONLY <2>2, <2>3
<1>11. ASSUME NEW n \in Counts, NEW k \in {"r", "R"}, ReadOption(k, n)
       PROVE  OpInv' /\ Buffered'
  <2>1. /\ Quiet /\ pc' \in {"r", "R"} /\ file' = <<>> /\ data' = data /\ nPage' = startingpage
        /\ starting_erasepage' = starting_erasepage /\ startingpage' = startingpage
    BY <1>11 DEF ReadOption
  <2>2. OpInv'
    BY ONLY <1>4, <1>6, <1>7, <2>1, NoBytes
  <2>3. Buffered'
    BY ONLY <2>1 DEF Buffered
  <2> QED BY ONLY <2>2, <2>3
<1>12. ASSUME NEW n \in Counts, NEW k \in {"w", "W"}, WriteOption(k, n)
       PROVE  OpInv' /\ Buffered'
  <2>1. /\ Quiet /\ pc' = k /\ file' = file /\ nPage' = startingpage
        /\ starting_erasepage' = starting_erasepage /\ startingpage' = startingpage
        /\ Mallocs(IF k = "w" THEN Nand.page_size ELSE Full)
    BY <1>12 DEF WriteOption
  <2>2. PICK m \in Nat : m = (IF k = "w" THEN Nand.page_size ELSE Full)
    BY Sizes
  <2>3. data' \in Seq(Byte) /\ Len(data') = m
    BY ONLY <2>1, <2>2, m \in Nat, MallocBytes
  <2>4. OpInv'
    BY ONLY <1>4, <1>6, <1>7, <2>1, <2>3, k \in {"w", "W"}
  <2>5. Buffered'
    BY ONLY <2>1, <2>2, <2>3, k \in {"w", "W"} DEF Buffered, ChunkSize
  <2> QED BY ONLY <2>4, <2>5
<1>13. ASSUME NEW b \in BOOLEAN, EccOption(b)
       PROVE  OpInv' /\ Buffered'
  <2>1. /\ pc' = "ecc" /\ todo' = set_ecc(b) /\ UNCHANGED main /\ UNCHANGED chip
        /\ UNCHANGED <<shadow, pins, out, InBuf>>
    BY <1>13 DEF EccOption
  <2>2. PICK bs : bs = <<IF b THEN 8 ELSE 0, 0, 0, 0>>
    OBVIOUS
  <2>3. bs \in {EccOn, EccOff}
    BY <2>2 DEF EccOn, EccOff
  <2>4. todo' = EccMoves(bs, <<>>)
    BY ONLY <2>1, <2>2, EccPlan
  <2>5. /\ UNCHANGED <<busy, acted, stopped, op, cells, reg>>
        /\ UNCHANGED <<file, data, starting_erasepage, startingpage>>
    BY ONLY <2>1 DEF main, chip
  <2>6. Idle' /\ Lagging(Up)'
    BY ONLY <1>3, <2>1, <2>5, IdleStays, LagStays
  <2>7. EccPhase(bs, <<>>)'
    BY ONLY <2>4, <2>6 DEF EccPhase
  <2>8. Where'
    BY ONLY <1>7, <2>1, <2>3, <2>6, <2>7 DEF Where
  <2>9. Employed'
    BY ONLY <2>6 DEF Employed, Idle, Resting
  <2>10. Typed'
    BY ONLY <1>2, <1>4, <1>7, <2>1, <2>5, TypedStays
  <2>11. Buffered'
    BY ONLY <2>1 DEF Buffered
  <2> QED BY ONLY <2>8, <2>9, <2>10, <2>11 DEF OpInv
<1>14. ASSUME EndOfLine
       PROVE  OpInv' /\ Buffered'
  <2>1. pc' = "done" /\ UNCHANGED main /\ UNCHANGED chip /\ UNCHANGED <<out, todo, InBuf>>
    BY <1>14 DEF EndOfLine
  <2>2. /\ UNCHANGED <<busy, acted, stopped, op, cells, reg>>
        /\ UNCHANGED <<file, data, starting_erasepage, startingpage>>
    BY ONLY <2>1 DEF main, chip
  <2>3. Idle' /\ todo' = <<>>
    BY ONLY <1>3, <2>1, <2>2, IdleStays
  <2>4. Where' /\ Employed'
    BY ONLY <2>1, <2>3, Rests
  <2>5. Typed'
    BY ONLY <1>2, <1>4, <1>7, <2>1, <2>2, TypedStays
  <2>6. Buffered'
    BY ONLY <2>1 DEF Buffered
  <2> QED BY ONLY <2>4, <2>5, <2>6 DEF OpInv
<1> QED BY ONLY <1>9, <1>10, <1>11, <1>12, <1>13, <1>14, Option DEF Option

-----------------------------------------------------------------------------
LEMMA EraseStep ==
  ASSUME OpInv, Erase
  PROVE  OpInv' /\ Buffered'
<1>1. /\ pc = "erase" /\ pc' = pc /\ todo = <<>> /\ UNCHANGED main
      /\ Begins([kind |-> "erase", at |-> EraseAddress(nPage), data |-> <<>>],
                erase_page(EraseAddress(nPage)))
  BY DEF Erase, Ready
<1>2. PICK a : a = EraseAddress(nPage)
  OBVIOUS
<1>3. PICK o : o = [kind |-> "erase", at |-> a, data |-> <<>>]
  OBVIOUS
<1>4. Where /\ Typed /\ pc \in Loops /\ nPage \in Nat
  BY <1>1 DEF OpInv, Typed, Loops
<1>5. a \in Nat
  BY <1>2, <1>4, PinAssumption DEF EraseAddress
<1>6. o \in Operations /\ o.kind = "erase" /\ o.at = a
  BY <1>3, <1>5, NoBytes DEF Operations
<1>7. erase_page(a) = Plan(o, 1)
  BY ONLY <1>6, ErasePlan
<1>8. Begins(o, Plan(o, 1))
  BY ONLY <1>1, <1>2, <1>3, <1>7
<1>9. /\ op = NoOp /\ InBuf' = <<>> /\ UNCHANGED <<cells, reg, out, acted, stopped>>
  BY ONLY <1>8 DEF Begins
<1>10. Idle /\ Lagging(Up)
  BY ONLY <1>4, <1>9, LoopIdle
<1>11. pc' \in Loops /\ Fits(o, 1)' /\ 1 \in Nat
  BY ONLY <1>1, <1>4, <1>6 DEF Fits
<1>12. Where' /\ Employed'
  BY ONLY <1>6, <1>8, <1>10, <1>11, Begun
<1>13. /\ UNCHANGED <<file, data, starting_erasepage, startingpage, nPage>>
  BY ONLY <1>1 DEF main
<1>14. /\ file \in Seq(Byte) /\ data \in Seq(Byte) /\ starting_erasepage \in Nat
       /\ startingpage \in Nat /\ acted \in BOOLEAN
  BY ONLY <1>4 DEF Typed
<1>15. Typed'
  BY ONLY <1>1, <1>4, <1>9, <1>13, <1>14, NoBytes, TypedStays
<1>16. Buffered'
  BY ONLY <1>1 DEF Buffered
<1> QED BY ONLY <1>12, <1>15, <1>16 DEF OpInv

LEMMA ReadStep ==
  ASSUME OpInv, Read
  PROVE  OpInv' /\ Buffered'
<1>1. /\ pc \in {"r", "R"} /\ pc' = pc /\ UNCHANGED main
      /\ Begins([kind |-> "read", at |-> PageAddress(nPage), data |-> <<>>],
                read_memory(PageAddress(nPage), ChunkSize))
  BY DEF Read
<1>2. PICK a : a = PageAddress(nPage)
  OBVIOUS
<1>3. PICK o : o = [kind |-> "read", at |-> a, data |-> <<>>]
  OBVIOUS
<1>4. PICK n \in Nat : n = ChunkSize
  BY Sizes
<1>5. Where /\ Typed /\ pc \in Loops /\ nPage \in Nat
  BY <1>1 DEF OpInv, Typed, Loops
<1>6. a \in Nat
  BY <1>2, <1>5, Sizes DEF PageAddress
<1>7. o \in Operations /\ o.kind = "read" /\ o.at = a
  BY <1>3, <1>6, NoBytes DEF Operations
<1>8. read_memory(a, n) = Plan(o, n)
  BY ONLY <1>7, ReadPlan
<1>9. Begins(o, Plan(o, n))
  BY ONLY <1>1, <1>2, <1>3, <1>4, <1>8
<1>10. /\ op = NoOp /\ InBuf' = <<>> /\ UNCHANGED <<cells, reg, out, acted, stopped>>
  BY ONLY <1>9 DEF Begins
<1>11. Idle /\ Lagging(Up)
  BY ONLY <1>5, <1>10, LoopIdle
<1>12. pc' \in Loops /\ Fits(o, n)'
  BY ONLY <1>1, <1>4, <1>5, <1>7 DEF Fits, ChunkSize
<1>13. Where' /\ Employed'
  BY ONLY <1>7, <1>9, <1>11, <1>12, n \in Nat, Begun
<1>14. /\ UNCHANGED <<file, data, starting_erasepage, startingpage, nPage>>
  BY ONLY <1>1 DEF main
<1>15. /\ file \in Seq(Byte) /\ data \in Seq(Byte) /\ starting_erasepage \in Nat
       /\ startingpage \in Nat /\ acted \in BOOLEAN
  BY ONLY <1>5 DEF Typed
<1>16. Typed'
  BY ONLY <1>5, <1>10, <1>12, <1>14, <1>15, NoBytes, TypedStays
<1>17. Buffered'
  BY ONLY <1>1 DEF Buffered
<1> QED BY ONLY <1>13, <1>16, <1>17 DEF OpInv

LEMMA ProgramStep ==
  ASSUME EccInPlace, FileHeld, OpInv, Buffered, Program
  PROVE  OpInv' /\ Buffered'
<1>1. /\ pc \in {"w", "W"} /\ pc' = pc /\ Fread /\ file' = file /\ nPage' = nPage
      /\ starting_erasepage' = starting_erasepage /\ startingpage' = startingpage
      /\ Begins([kind |-> "program", at |-> PageAddress(nPage), data |-> Chunk],
                program_page(PageAddress(nPage), Chunk))
  BY DEF Program, Writing
<1>2. PICK a : a = PageAddress(nPage)
  OBVIOUS
<1>3. Where /\ Typed /\ pc \in Loops /\ nPage \in Nat
  BY <1>1 DEF OpInv, Typed, Loops
<1>4. /\ file \in Seq(Byte) /\ data \in Seq(Byte) /\ starting_erasepage \in Nat
      /\ startingpage \in Nat /\ acted \in BOOLEAN
  BY ONLY <1>3 DEF Typed
<1>5. at \in Nat /\ at <= Len(file) /\ Len(data) = ChunkSize
  BY ONLY <1>1, FileHeld, Buffered DEF FileHeld, Buffered
<1>6. data' \in Seq(Byte) /\ Len(data') = ChunkSize
  BY ONLY <1>1, <1>4, <1>5, FreadBytes
<1>7. PICK d \in Seq(Byte) : d = Chunk
  BY ONLY <1>6, EccInPlace DEF EccInPlace, Chunk
<1>8. PICK o : o = [kind |-> "program", at |-> a, data |-> d]
  OBVIOUS
<1>9. a \in Nat
  BY <1>2, <1>3, Sizes DEF PageAddress
<1>10. o \in Operations /\ o.kind = "program" /\ o.at = a /\ o.data = d
  BY <1>8, <1>9 DEF Operations
<1>11. /\ op = NoOp /\ InBuf' = <<>> /\ UNCHANGED <<cells, reg, out, acted, stopped>>
  BY ONLY <1>1 DEF Begins
<1>12. Idle /\ Lagging(Up)
  BY ONLY <1>3, <1>11, LoopIdle
<1>13. program_page(a, d) = Plan(o, 1)
  <2>1. "RE" \in shadow
    BY ONLY <1>12 DEF Lagging, Up
  <2> QED BY ONLY <1>10, <2>1, ProgramPlan
<1>14. Begins(o, Plan(o, 1))
  BY ONLY <1>1, <1>2, <1>7, <1>8, <1>13
<1>15. pc' \in Loops /\ Fits(o, 1)' /\ 1 \in Nat
  BY ONLY <1>1, <1>3, <1>10 DEF Fits
<1>16. Where' /\ Employed'
  BY ONLY <1>10, <1>12, <1>14, <1>15, Begun
<1>17. Typed'
  BY ONLY <1>1, <1>3, <1>4, <1>6, <1>11, <1>15, NoBytes, TypedStays
<1>18. ChunkSize' = ChunkSize
  BY ONLY <1>1 DEF ChunkSize
<1>19. Buffered'
  BY ONLY <1>6, <1>18 DEF Buffered
<1> QED BY ONLY <1>16, <1>17, <1>19 DEF OpInv

LEMMA SkipStep ==
  ASSUME FileHeld, OpInv, Buffered, SkipPage
  PROVE  OpInv' /\ Buffered'
<1>1. /\ pc \in {"w", "W"} /\ pc' = pc /\ op = NoOp /\ Fread /\ file' = file /\ nPage' = nPage + 1
      /\ starting_erasepage' = starting_erasepage /\ startingpage' = startingpage
      /\ UNCHANGED bus /\ UNCHANGED chip
  BY DEF SkipPage, Writing, Quiet
<1>2. Where /\ Typed /\ pc \in Loops /\ nPage \in Nat
  BY <1>1 DEF OpInv, Typed, Loops
<1>3. /\ file \in Seq(Byte) /\ data \in Seq(Byte) /\ starting_erasepage \in Nat
      /\ startingpage \in Nat /\ acted \in BOOLEAN /\ InBuf \in Seq(Byte)
  BY ONLY <1>2 DEF Typed
<1>4. at \in Nat /\ at <= Len(file) /\ Len(data) = ChunkSize
  BY ONLY <1>1, FileHeld, Buffered DEF FileHeld, Buffered
<1>5. data' \in Seq(Byte) /\ Len(data') = ChunkSize
  BY ONLY <1>1, <1>3, <1>4, FreadBytes
<1>6. /\ UNCHANGED <<busy, acted, stopped, op, cells, reg>>
      /\ UNCHANGED <<shadow, pins, out, todo, InBuf>>
  BY ONLY <1>1 DEF bus, chip
<1>7. Idle /\ todo = <<>> /\ Lagging(Up)
  BY ONLY <1>1, <1>2, LoopIdle
<1>8. Idle' /\ Lagging(Up)' /\ todo' = <<>> /\ pc' \in Loops \cup {"options", "done", "dead"}
  BY ONLY <1>1, <1>2, <1>6, <1>7, IdleStays, LagStays
<1>9. Where' /\ Employed'
  BY ONLY <1>8, Rests
<1>10. nPage' \in Nat
  BY ONLY <1>1, <1>2
<1>11. Typed'
  BY ONLY <1>1, <1>2, <1>3, <1>5, <1>6, <1>10, TypedStays
<1>12. ChunkSize' = ChunkSize
  BY ONLY <1>1 DEF ChunkSize
<1>13. Buffered'
  BY ONLY <1>5, <1>12 DEF Buffered
<1> QED BY ONLY <1>9, <1>11, <1>13 DEF OpInv

\* The operation returns.
LEMMA DoneStep ==
  ASSUME EccInPlace, OpInv, Buffered, EraseDone \/ ProgramDone \/ ReadDone
  PROVE  OpInv' /\ Buffered'
<1>1. /\ pc \in {"erase", "w", "W", "r", "R"} /\ pc' = pc /\ Returned /\ UNCHANGED bus
      /\ starting_erasepage' = starting_erasepage /\ startingpage' = startingpage
      /\ nPage' = nPage + 1 /\ data' \in {data, Ecc(data)} /\ file' \in {file, file \o InBuf}
  BY DEF EraseDone, ProgramDone, ReadDone
<1>2. Where /\ Typed /\ pc \in Loops /\ nPage \in Nat
  BY <1>1 DEF OpInv, Typed, Loops
<1>3. Where' /\ Employed' /\ UNCHANGED <<cells, reg, out, stopped, InBuf>> /\ acted' = FALSE
  BY ONLY <1>1, <1>2, Ended
<1>4. /\ file \in Seq(Byte) /\ data \in Seq(Byte) /\ starting_erasepage \in Nat
      /\ startingpage \in Nat /\ InBuf \in Seq(Byte)
  BY ONLY <1>2 DEF Typed
<1>5. data' \in Seq(Byte) /\ Len(data') = Len(data)
  BY ONLY <1>1, <1>4, EccInPlace DEF EccInPlace
<1>6. file' \in Seq(Byte)
  BY ONLY <1>1, <1>4, JoinBytes
<1>7. nPage' \in Nat /\ acted' \in BOOLEAN
  <2>1. nPage' \in Nat
    <3>1. nPage' = nPage + 1 /\ nPage \in Nat
      BY ONLY <1>1, <1>2
    <3> QED BY ONLY <3>1
  <2>2. acted' \in BOOLEAN
    <3>1. acted' = FALSE
      BY ONLY <1>3
    <3> QED BY ONLY <3>1
  <2> QED BY ONLY <2>1, <2>2
<1>8. Typed'
  BY ONLY <1>1, <1>2, <1>3, <1>4, <1>5, <1>6, <1>7, TypedStays
<1>9. ChunkSize' = ChunkSize
  BY ONLY <1>1 DEF ChunkSize
<1>10. Buffered'
  BY ONLY <1>1, <1>5, <1>9, Buffered DEF Buffered
<1> QED BY ONLY <1>3, <1>8, <1>10 DEF OpInv

LEMMA LoopDoneStep ==
  ASSUME OpInv, LoopDone
  PROVE  OpInv' /\ Buffered'
<1>1. /\ pc \in {"erase", "r", "R", "w", "W", "ecc"} /\ todo = <<>> /\ op = NoOp
      /\ pc' = "options" /\ data' = <<>> /\ UNCHANGED chip
      /\ UNCHANGED <<starting_erasepage, startingpage, file, shadow, pins, out, todo, InBuf>>
  BY DEF LoopDone
<1>2. Where /\ Typed /\ (pc \in Loops \/ pc = "ecc")
  BY <1>1 DEF OpInv, Loops
<1>3. ASSUME pc = "ecc"
      PROVE  Idle /\ Lagging(Up)
  <2>1. Idle /\ ((\E bs \in {EccOn, EccOff} : EccPhase(bs, <<>>)) \/ (todo = <<>> /\ Pinned(Up)))
    BY ONLY <1>2, <1>3 DEF Where
  <2>2. PICK r : r = <<>>
    OBVIOUS
  <2>3. \A bs \in {EccOn, EccOff} : ~EccPhase(bs, r)
    <3>1. PlainBytes(EccOff) /\ Len(EccOff) = 4 /\ PlainBytes(EccOn) /\ Len(EccOn) = 4 /\ IsSeq(r)
      BY ONLY <2>2, AfterResetIs, EmptySequence
    <3>2. ~EccPhase(EccOff, r) /\ ~EccPhase(EccOn, r)
      BY ONLY <1>1, <3>1, EccLeft
    <3> QED BY ONLY <3>2
  <2>4. Pinned(Up)
    BY ONLY <2>1, <2>2, <2>3
  <2>5. Lagging(Up)
    BY ONLY <2>4 DEF Pinned, Lagging
  <2> QED BY ONLY <2>1, <2>5
<1>4. Idle /\ Lagging(Up)
  <2>1. CASE pc \in Loops
    BY ONLY <1>1, <1>2, <2>1, LoopIdle
  <2>2. CASE pc = "ecc"
    BY ONLY <1>3, <2>2
  <2> QED BY ONLY <1>2, <2>1, <2>2
<1>5. UNCHANGED <<busy, acted, stopped, op, cells, reg>>
  BY ONLY <1>1 DEF chip
<1>6. Idle' /\ Lagging(Up)' /\ todo' = <<>> /\ pc' \in Loops \cup {"options", "done", "dead"}
  BY ONLY <1>1, <1>4, <1>5, IdleStays, LagStays
<1>7. Where' /\ Employed'
  BY ONLY <1>6, Rests
<1>8. /\ file \in Seq(Byte) /\ starting_erasepage \in Nat
      /\ startingpage \in Nat /\ InBuf \in Seq(Byte) /\ acted \in BOOLEAN
  BY ONLY <1>2 DEF Typed
<1>9. "options" \notin Loops
  BY DEF Loops
<1>10. Typed'
  BY ONLY <1>1, <1>2, <1>5, <1>8, <1>9, NoBytes, TypedStays
<1>11. Buffered'
  BY ONLY <1>1 DEF Buffered
<1> QED BY ONLY <1>7, <1>10, <1>11 DEF OpInv

\* The program is gone.
LEMMA Dies ==
  ASSUME OpInv, pc' = "dead", UNCHANGED <<main, bus, mode, addr, reg, col, busy, cells, op, acted>>,
         stopped' \in BOOLEAN
  PROVE  OpInv' /\ Buffered'
<1>1. UNCHANGED <<mode, addr, reg, busy, cells, op, acted>>
  OBVIOUS
<1>2. UNCHANGED <<file, data, starting_erasepage, startingpage, out, InBuf>>
  BY DEF main, bus
<1>3. "dead" \notin Loops
  BY DEF Loops
<1>4. Where'
  BY ONLY <1>3, pc' = "dead" DEF Where
<1>5. Employed'
  BY ONLY <1>1, OpInv, EmployedStays DEF OpInv
<1>6. Typed'
  BY ONLY <1>1, <1>2, <1>3, OpInv, pc' = "dead", stopped' \in BOOLEAN DEF OpInv, Typed, Memory
<1>7. Buffered'
  BY ONLY pc' = "dead" DEF Buffered
<1> QED BY ONLY <1>4, <1>5, <1>6, <1>7 DEF OpInv

LEMMA LoopStep ==
  ASSUME EccInPlace, FileHeld, OpInv, Buffered, Loop
  PROVE  OpInv' /\ Buffered'
<1>1. CASE Overrun
  <2>1. /\ pc' = "dead" /\ UNCHANGED <<main, bus, mode, addr, reg, col, busy, cells, op, acted>>
        /\ stopped' = stopped
    BY <1>1 DEF Overrun, chip
  <2>2. stopped' \in BOOLEAN
    BY ONLY <2>1, OpInv DEF OpInv, Typed
  <2> QED BY ONLY <2>1, <2>2, OpInv, Dies
<1> QED BY ONLY <1>1, EccInPlace, FileHeld, OpInv, Buffered, Loop, EraseStep, ReadStep, ProgramStep,
        SkipStep, DoneStep, LoopDoneStep DEF Loop

\* A process begins.
LEMMA BootStarts ==
  ASSUME todo = Boot, shadow = {}, op # NoOp => stopped
  PROVE  BootPhase
<1>1. todo = From(ResetMoves, 0, AfterReset)
  BY ONLY todo = Boot, BootPlan
<1> QED BY ONLY <1>1, shadow = {}, op # NoOp => stopped DEF BootPhase, ResetPhase

LEMMA BootStartsNext ==
  (todo = Boot /\ shadow = {} /\ (op # NoOp => stopped))' => BootPhase'
<1>1. todo = Boot /\ shadow = {} /\ (op # NoOp => stopped) => BootPhase
  BY ONLY BootStarts
<1> QED BY <1>1, PTL

LEMMA RestartStep ==
  ASSUME OpInv, Restart
  PROVE  OpInv' /\ Buffered'
<1>1. /\ pc' = "boot" /\ todo' = Boot /\ shadow' = {} /\ stopped' = TRUE
      /\ starting_erasepage' = Unset /\ startingpage' = Unset /\ data' = <<>> /\ InBuf' = <<>>
      /\ UNCHANGED <<file, out, mode, addr, reg, busy, cells, op, acted>>
  BY DEF Restart, StartsProcess
<1>2. BootPhase'
  BY ONLY <1>1, BootStartsNext
<1>3. "boot" \notin Loops /\ Unset \in Nat
  BY DEF Loops, Unset
<1>4. Where'
  BY ONLY <1>1, <1>2, <1>3 DEF Where
<1>5. Employed'
  BY ONLY <1>1, OpInv, EmployedStays DEF OpInv
<1>6. PICK e \in Seq(Byte) : e = <<>>
  BY NoBytes
<1>7. data' = e /\ InBuf' = e
  BY ONLY <1>1, <1>6
<1>8. Typed'
  BY ONLY <1>1, <1>3, <1>7, e \in Seq(Byte), OpInv DEF OpInv, Typed, Memory
<1>9. Buffered'
  BY ONLY <1>1 DEF Buffered
<1> QED BY ONLY <1>4, <1>5, <1>8, <1>9 DEF OpInv

\* Nothing changes.
LEMMA BusStays ==
  ASSUME UNCHANGED bus, NEW n, NEW s, NEW bs, NEW d, NEW r, NEW S, NEW i, NEW t
  PROVE  /\ todo' = todo /\ shadow' = shadow /\ out' = out
         /\ Lagging(S) => Lagging(S)'
         /\ Pinned(S) => Pinned(S)'
         /\ InStrobe(s, d, bs, r, S, i, t) => InStrobe(s, d, bs, r, S, i, t)'
         /\ InByte(n, r, S, i, t) => InByte(n, r, S, i, t)'
<1>1. todo' = todo /\ shadow' = shadow /\ pins' = pins /\ io' = io /\ out' = out
  BY DEF bus
<1> QED BY ONLY <1>1 DEF Lagging, Pinned, InStrobe, InByte

LEMMA BusStaysAll ==
  ASSUME UNCHANGED bus
  PROVE  /\ todo' = todo /\ shadow' = shadow /\ out' = out
         /\ \A S : (Lagging(S) => Lagging(S)') /\ (Pinned(S) => Pinned(S)')
         /\ \A s, d, bs, r, S, i, t : InStrobe(s, d, bs, r, S, i, t) => InStrobe(s, d, bs, r, S, i, t)'
         /\ \A n, r, S, i, t : InByte(n, r, S, i, t) => InByte(n, r, S, i, t)'
         /\ \A s, c, r, S, j : InLatch(s, c, r, S, j) => InLatch(s, c, r, S, j)'
<1>1. todo' = todo /\ shadow' = shadow /\ out' = out
  BY DEF bus
<1>2. \A S : (Lagging(S) => Lagging(S)') /\ (Pinned(S) => Pinned(S)')
  BY ONLY UNCHANGED bus, BusStays
<1>3. \A s, d, bs, r, S, i, t : InStrobe(s, d, bs, r, S, i, t) => InStrobe(s, d, bs, r, S, i, t)'
  BY ONLY UNCHANGED bus, BusStays
<1>4. \A n, r, S, i, t : InByte(n, r, S, i, t) => InByte(n, r, S, i, t)'
  BY ONLY UNCHANGED bus, BusStays
<1>5. \A s, c, r, S, j : InLatch(s, c, r, S, j) => InLatch(s, c, r, S, j)'
  BY ONLY UNCHANGED bus, SameBusPins
<1> QED BY ONLY <1>1, <1>2, <1>3, <1>4, <1>5

LEMMA ChipStays ==
  ASSUME UNCHANGED chip, InBuf' = InBuf, out' = out, Lasting, NEW o
  PROVE  /\ Resting => Resting'
         /\ \A m, q : Seen(o, m, q) => Seen(o, m, q)'
         /\ Working(o) => Working(o)'
         /\ Did(o) => Did(o)'
         /\ \A q : AtColumn(o, q) => AtColumn(o, q)'
         /\ \A q : Gathered(o, q) => Gathered(o, q)'
         /\ \A q : Drives(o, q) => Drives(o, q)'
<1>1. \A m, q : Seen(o, m, q) => Seen(o, m, q)'
  BY ONLY UNCHANGED chip, SameChip
<1>2. \A q : (AtColumn(o, q) => AtColumn(o, q)') /\ (Gathered(o, q) => Gathered(o, q)')
  BY ONLY UNCHANGED chip, InBuf' = InBuf, Lasting, SameChip
<1>3. (Resting => Resting') /\ (Working(o) => Working(o)') /\ (Did(o) => Did(o)') /\ cells' = cells
  BY ONLY UNCHANGED chip, SameChip
<1>4. \A q : Drives(o, q) => Drives(o, q)'
  BY ONLY <1>3, out' = out DEF Drives
<1> QED BY ONLY <1>1, <1>2, <1>3, <1>4

LEMMA PhaseStays ==
  ASSUME UNCHANGED bus, UNCHANGED chip, Lasting, NEW o, NEW n, Phase(o, n)
  PROVE  Phase(o, n)'
<1>1. /\ todo' = todo /\ shadow' = shadow /\ out' = out
      /\ \A S : (Lagging(S) => Lagging(S)') /\ (Pinned(S) => Pinned(S)')
      /\ \A s, d, bs, r, S, i, t : InStrobe(s, d, bs, r, S, i, t) => InStrobe(s, d, bs, r, S, i, t)'
      /\ \A m, r, S, i, t : InByte(m, r, S, i, t) => InByte(m, r, S, i, t)'
      /\ \A s, c, r, S, j : InLatch(s, c, r, S, j) => InLatch(s, c, r, S, j)'
  BY ONLY UNCHANGED bus, BusStaysAll
<1>2. InBuf' = InBuf
  BY DEF bus
<1>3. /\ Resting => Resting'
      /\ \A m, q : Seen(o, m, q) => Seen(o, m, q)'
      /\ Working(o) => Working(o)'
      /\ Did(o) => Did(o)'
      /\ \A q : AtColumn(o, q) => AtColumn(o, q)'
      /\ \A q : Gathered(o, q) => Gathered(o, q)'
      /\ \A q : Drives(o, q) => Drives(o, q)'
  BY ONLY UNCHANGED chip, Lasting, <1>1, <1>2, ChipStays
<1>4. (AtRaise(o, n) => AtRaise(o, n)') /\ (AtSetup(o, n) => AtSetup(o, n)')
  BY ONLY <1>1, <1>3 DEF AtRaise, AtSetup
<1>5. (AtColumns(o, n) => AtColumns(o, n)') /\ (AtRows(o, n) => AtRows(o, n)')
  BY ONLY <1>1, <1>3 DEF AtColumns, AtRows
<1>6. (AtData(o, n) => AtData(o, n)') /\ (AtConfirm(o, n) => AtConfirm(o, n)')
  BY ONLY <1>1, <1>3 DEF AtData, AtConfirm
<1>7. (AtWait(o, n) => AtWait(o, n)') /\ (AtStatus(o, n) => AtStatus(o, n)')
  BY ONLY <1>1, <1>3 DEF AtWait, AtStatus
<1>8. (AtRead(o, n) => AtRead(o, n)') /\ (AtLower(o, n) => AtLower(o, n)')
  BY ONLY <1>1, <1>3 DEF AtRead, AtLower
<1>9. AtEnd(o, n) => AtEnd(o, n)'
  BY ONLY <1>1, <1>3 DEF AtEnd
<1>10. InSetup(o, n) => InSetup(o, n)'
  BY ONLY <1>1, <1>3 DEF InSetup
<1>11. InColumns(o, n) => InColumns(o, n)'
  BY ONLY <1>1, <1>3 DEF InColumns
<1>12. InRows(o, n) => InRows(o, n)'
  BY ONLY <1>1, <1>3 DEF InRows
<1>13. InData(o, n) => InData(o, n)'
  BY ONLY <1>1, <1>3 DEF InData
<1>14. InConfirm(o, n) => InConfirm(o, n)'
  BY ONLY <1>1, <1>3 DEF InConfirm
<1>15. InStatus(o, n) => InStatus(o, n)'
  BY ONLY <1>1, <1>3 DEF InStatus
<1>16. InRead(o, n) => InRead(o, n)'
  BY ONLY <1>1, <1>3 DEF InRead
<1> QED BY ONLY <1>4, <1>5, <1>6, <1>7, <1>8, <1>9, <1>10, <1>11, <1>12, <1>13, <1>14, <1>15,
        <1>16, Phase(o, n) DEF Phase

LEMMA WhereStays ==
  ASSUME UNCHANGED vars, Where
  PROVE  Where'
<1>1. UNCHANGED bus /\ UNCHANGED chip /\ pc' = pc /\ Lasting
  BY DEF vars, Lasting
<1>2. /\ todo' = todo /\ shadow' = shadow /\ out' = out
      /\ \A S : (Lagging(S) => Lagging(S)') /\ (Pinned(S) => Pinned(S)')
      /\ \A s, d, bs, r, S, i, t : InStrobe(s, d, bs, r, S, i, t) => InStrobe(s, d, bs, r, S, i, t)'
      /\ \A m, r, S, i, t : InByte(m, r, S, i, t) => InByte(m, r, S, i, t)'
      /\ \A s, c, r, S, j : InLatch(s, c, r, S, j) => InLatch(s, c, r, S, j)'
  BY ONLY <1>1, BusStaysAll
<1>3. op' = op /\ stopped' = stopped /\ (Idle => Idle')
  <2>1. /\ busy' = busy /\ acted' = acted /\ stopped' = stopped /\ op' = op
    BY ONLY <1>1 DEF chip
  <2> QED BY ONLY <2>1 DEF Idle, Resting
<1>4. \A bs, r : EccPhase(bs, r) => EccPhase(bs, r)'
  BY ONLY <1>2 DEF EccPhase
<1>5. IdPhase => IdPhase'
  BY ONLY <1>2 DEF IdPhase
<1>6. ResetPhase => ResetPhase'
  BY ONLY <1>2 DEF ResetPhase
<1>7. BootPhase => BootPhase'
  BY ONLY <1>2, <1>3, <1>4, <1>5, <1>6 DEF BootPhase
<1>8. \A o, n : Phase(o, n) => Phase(o, n)'
  BY ONLY <1>1, PhaseStays
<1>9. \A o, n : Fits(o, n) => Fits(o, n)'
  BY ONLY <1>1 DEF Fits, ChunkSize
<1>10. pc \in Loops => Where'
  BY ONLY <1>1, <1>2, <1>3, <1>8, <1>9, Where DEF Where, Loops
<1>11. pc \notin Loops => Where'
  BY ONLY <1>1, <1>2, <1>3, <1>4, <1>7, Where DEF Where
<1> QED BY ONLY <1>10, <1>11

LEMMA OpStays ==
  ASSUME OpInv, Buffered, UNCHANGED vars
  PROVE  OpInv' /\ Buffered'
<1>1. /\ pc' = pc /\ shadow' = shadow /\ pins' = pins /\ io' = io /\ out' = out /\ todo' = todo
      /\ InBuf' = InBuf /\ mode' = mode /\ addr' = addr /\ reg' = reg /\ col' = col /\ busy' = busy
      /\ cells' = cells /\ op' = op /\ acted' = acted /\ stopped' = stopped /\ file' = file
      /\ data' = data /\ starting_erasepage' = starting_erasepage /\ startingpage' = startingpage
      /\ nPage' = nPage
  BY DEF vars, main, bus, chip
<1>2. Buffered'
  BY ONLY <1>1, Buffered DEF Buffered, ChunkSize
<1>3. Employed'
  BY ONLY <1>1, OpInv, EmployedStays DEF OpInv
<1>4. Typed'
  BY ONLY <1>1, OpInv DEF OpInv, Typed, Memory
<1>5. Where'
  BY ONLY UNCHANGED vars, OpInv, WhereStays DEF OpInv
<1> QED BY ONLY <1>2, <1>3, <1>4, <1>5 DEF OpInv

LEMMA OpInitially ==
  ASSUME Init
  PROVE  OpInv /\ Buffered /\ Filed /\ Gone
<1>1. /\ pc = "boot" /\ todo = Boot /\ shadow = {} /\ out = -1 /\ InBuf = <<>> /\ data = <<>>
      /\ starting_erasepage = Unset /\ startingpage = Unset /\ file \in Files /\ busy = "none"
      /\ op = NoOp /\ acted = FALSE /\ stopped = FALSE
  BY DEF Init
<1>2. BootPhase
  BY ONLY <1>1, BootStarts
<1>3. "boot" \notin Loops /\ Unset \in Nat
  BY DEF Loops, Unset
<1>4. Where
  BY ONLY <1>1, <1>2, <1>3 DEF Where
<1>5. Employed
  BY ONLY <1>1 DEF Employed
<1>6. Memory
  <2>1. 0 \in Byte /\ FF \in Byte
    BY DEF Byte, FF
  <2>2. /\ cells \in {[r \in Rows |-> [k \in Cols |-> b]] : b \in {0, FF}}
        /\ reg = [k \in Cols |-> FF]
    BY DEF Init
  <2> QED BY ONLY <2>1, <2>2 DEF Memory
<1>7. file \in Seq(Byte)
  BY <1>1, ReaderAssumption
<1>8. PICK e \in Seq(Byte) : e = <<>>
  BY NoBytes
<1>9. data = e /\ InBuf = e
  BY ONLY <1>1, <1>8
<1>10. Typed
  BY ONLY <1>1, <1>3, <1>6, <1>7, <1>9, e \in Seq(Byte) DEF Typed
<1>11. Buffered /\ Filed /\ Gone
  BY ONLY <1>1 DEF Buffered, Filed, Gone
<1> QED BY ONLY <1>4, <1>5, <1>10, <1>11 DEF OpInv

\* The pages read by -r and -R.
LEMMA FiledStays ==
  ASSUME OpInv, Filed, [Next]_vars
  PROVE  Filed'
<1>1. \/ pc' \notin {"r", "R"}
      \/ pc' = pc /\ UNCHANGED main
      \/ file' = <<>> /\ nPage' = startingpage' /\ startingpage' = startingpage
      \/ ReadDone
  <2>1. CASE Bus \/ Failure \/ Chip \/ Identified \/ Interrupt \/ Restart \/ Finished \/ UNCHANGED vars
    BY <2>1 DEF Bus, Failure, Chip, Identified, Interrupt, Restart, StartsProcess, Finished, vars
  <2>2. CASE Option
    BY <2>2 DEF Option, SetErasePage, SetPage, EraseOption, ReadOption, WriteOption, EccOption,
      EndOfLine, TakesOption
  <2>3. CASE Loop
    BY <2>3 DEF Loop, Erase, EraseDone, SkipPage, Program, ProgramDone, Writing, Ready, Read,
      Overrun, LoopDone
  <2> QED BY <2>1, <2>2, <2>3 DEF Next
<1>2. Where /\ Typed
  BY DEF OpInv
<1>3. CASE pc' \notin {"r", "R"}
  BY ONLY <1>3 DEF Filed
<1>4. CASE pc' = pc /\ UNCHANGED main
  <2>1. startingpage' = startingpage /\ nPage' = nPage /\ file' = file /\ ChunkSize' = ChunkSize
    BY ONLY <1>4 DEF main, ChunkSize
  <2> QED BY ONLY <1>4, <2>1, Filed DEF Filed
<1>5. CASE file' = <<>> /\ nPage' = startingpage' /\ startingpage' = startingpage
  <2>1. PICK p \in Nat : p = startingpage
    BY <1>2 DEF Typed
  <2>2. PICK C \in Nat : C = ChunkSize'
    BY Sizes
  <2>3. Len(file') = 0
    BY ONLY <1>5, EmptySequence
  <2>4. PICK z : z = nPage' - startingpage'
    OBVIOUS
  <2>5. z = 0 /\ startingpage' <= nPage'
    BY ONLY <1>5, <2>1, <2>4
  <2>6. z * C = 0
    BY ONLY <2>5, C \in Nat
  <2> QED BY ONLY <2>2, <2>3, <2>4, <2>5, <2>6 DEF Filed
<1>6. CASE ReadDone
  <2>1. /\ pc \in {"r", "R"} /\ pc' = pc /\ op # NoOp /\ todo = <<>> /\ file' = Join(file, InBuf)
        /\ nPage' = nPage + 1 /\ startingpage' = startingpage
    BY <1>6 DEF ReadDone, Returned, Join
  <2>2. pc \in Loops /\ nPage \in Nat /\ startingpage \in Nat /\ file \in Seq(Byte) /\ InBuf \in Seq(Byte)
    BY <1>2, <2>1 DEF Typed, Loops
  <2>3. PICK o \in Operations, n \in Nat : Fits(o, n) /\ AtEnd(o, n)
    BY ONLY <1>2, <2>1, <2>2, LoopEnd
  <2>4. Len(InBuf) = ChunkSize
    BY ONLY <2>1, <2>3 DEF Fits, AtEnd, Gathered
  <2>5. PICK C \in Nat : C = ChunkSize /\ C = ChunkSize'
    <3>1. ChunkSize' = ChunkSize
      BY ONLY <2>1 DEF ChunkSize
    <3> QED BY ONLY <3>1, Sizes
  <2>6. PICK d \in Nat : d = nPage - startingpage /\ startingpage <= nPage
    BY ONLY <2>1, <2>2, Filed DEF Filed
  <2>7. Len(file) = d * C
    BY ONLY <2>1, <2>5, <2>6, Filed DEF Filed
  <2>8. Len(file') = Len(file) + Len(InBuf)
    BY ONLY <2>1, <2>2 DEF Join
  <2>9. startingpage' <= nPage' /\ nPage' - startingpage' = d + 1
    BY ONLY <2>1, <2>2, <2>6
  <2>10. (d + 1) * C = d * C + C
    BY ONLY d \in Nat, C \in Nat
  <2> QED BY ONLY <2>4, <2>5, <2>7, <2>8, <2>9, <2>10 DEF Filed
<1> QED BY ONLY <1>1, <1>3, <1>4, <1>5, <1>6

LEMMA OpStepwise ==
  ASSUME EccInPlace, FileInv, OpInv, Buffered, Filed, InStep', [Next]_vars
  PROVE  OpInv' /\ Buffered'
<1> FileHeld /\ IsSeq(mishaps)
  BY DEF FileInv, Buffers
<1>1. ASSUME Bus \/ Failure \/ Chip
      PROVE  OpInv' /\ Buffered'
  <2>1. OpInv'
    BY ONLY <1>1, OpInv, Filed, InStep', IsSeq(mishaps), BusStep, ChipStep
  <2>2. pc' = pc /\ data' = data
    BY ONLY <1>1 DEF Bus, Failure, Chip, main
  <2>3. Buffered'
    BY ONLY <2>2, Buffered DEF Buffered, ChunkSize
  <2> QED BY ONLY <2>1, <2>3
<1>2. ASSUME Interrupt
      PROVE  OpInv' /\ Buffered'
  <2>1. /\ pc' = "dead" /\ UNCHANGED <<main, bus, mode, addr, reg, col, busy, cells, op, acted>>
        /\ stopped' \in BOOLEAN
    BY <1>2 DEF Interrupt
  <2> QED BY ONLY <2>1, OpInv, Dies
<1>3. ASSUME Finished
      PROVE  UNCHANGED vars
  BY <1>3 DEF Finished
<1>4. CASE UNCHANGED vars
  BY ONLY <1>4, OpInv, Buffered, OpStays
<1>5. CASE Next
  BY ONLY <1>1, <1>2, <1>3, <1>4, <1>5, OpInv, Buffered, EccInPlace, FileHeld,
     IdentifiedStep, OptionStep, LoopStep, RestartStep DEF Next
<1> QED BY ONLY <1>4, <1>5, [Next]_vars

LEMMA GoneStays ==
  ASSUME OpInv, Gone, [Next]_vars
  PROVE  Gone'
<1>1. CASE Overrun
  <2>1. pc \in {"r", "R"} /\ op # NoOp /\ todo = <<>> /\ op' = op
    BY <1>1 DEF Overrun, chip
  <2>2. Where /\ pc \in Loops
    BY <2>1 DEF OpInv, Loops
  <2>3. PICK o \in Operations, n \in Nat : o = op /\ Fits(o, n)
    BY ONLY <2>1, <2>2, LoopEnd
  <2> QED BY ONLY <2>1, <2>3 DEF Fits, Gone
<1>2. CASE UNCHANGED <<pc, op, stopped>>
  BY <1>2 DEF Gone
<1>3. CASE pc' # "dead" \/ stopped'
  BY <1>3 DEF Gone
<1>4. CASE Bus \/ Failure
  <2>1. pc' # "dead"
    BY <1>4 DEF Bus, Failure
  <2> QED BY <1>3, <2>1
<1>5. CASE Chip
  BY <1>2, <1>5 DEF Chip, ChipFinishes
<1>6. CASE Identified \/ Option \/ Interrupt \/ Restart
  <2>1. pc' # "dead" \/ stopped'
    BY <1>6 DEF Identified, Interrupt, Restart, StartsProcess, Option, SetErasePage, SetPage,
      EraseOption, ReadOption, WriteOption, EccOption, EndOfLine, TakesOption
  <2> QED BY <1>3, <2>1
<1>7. CASE Loop /\ ~Overrun
  <2>1. pc' # "dead"
    BY <1>7 DEF Loop, Erase, EraseDone, SkipPage, Program, ProgramDone, Writing, Ready, Read,
      ReadDone, LoopDone
  <2> QED BY <1>3, <2>1
<1>8. CASE Finished \/ UNCHANGED vars
  BY <1>2, <1>8 DEF Finished, vars, chip
<1> QED BY <1>1, <1>4, <1>5, <1>6, <1>7, <1>8 DEF Next

LEMMA EverythingHolds ==
  ASSUME EccOnSequences, EccInPlace
  PROVE  Spec => []Everything
<1>1. Init => Everything
  BY Initially, OpInitially DEF Everything
<1>2. Everything /\ [Next]_vars => Everything'
  <2> SUFFICES ASSUME Everything, [Next]_vars
               PROVE  Everything'
    OBVIOUS
  <2>1. IInv /\ FileInv /\ IsSeq(mishaps) /\ (InStep => OpInv /\ Buffered /\ Filed /\ Gone)
    BY ONLY Everything DEF Everything, IInv, FileInv, Buffers
  <2>2. IInv'
    BY ONLY <2>1, EccOnSequences, [Next]_vars, Stepwise
  <2>3. InStep' => InStep
    BY ONLY <2>1, [Next]_vars, NoneUndone DEF InStep
  <2>4. InStep' => OpInv' /\ Buffered' /\ Filed' /\ Gone'
    BY ONLY <2>1, <2>3, EccInPlace, [Next]_vars, OpStepwise, FiledStays, GoneStays
  <2> QED BY ONLY <2>2, <2>4 DEF Everything
<1> QED BY <1>1, <1>2, PTL DEF Spec

-----------------------------------------------------------------------------
(***************************************************************************)
(* What the operations amount to.                                          *)
(***************************************************************************)
LEMMA ReadEnds ==
  ASSUME OpInv
  PROVE  ReadReturnsCells
<1> SUFFICES ASSUME mishaps = <<>>, pc \in {"r", "R"}, op # NoOp, todo = <<>>
             PROVE  /\ Len(InBuf) = ChunkSize
                    /\ \A i \in 1 .. ChunkSize :
                         LET k == ColAt(op.at) + i - 1
                         IN k \in Cols => InBuf[i] = cells[RowAt(op.at)][k]
  BY DEF ReadReturnsCells
<1>1. Where /\ pc \in Loops
  BY DEF OpInv, Loops
<1>2. PICK o \in Operations, n \in Nat : o = op /\ Fits(o, n) /\ AtEnd(o, n)
  BY ONLY <1>1, op # NoOp, todo = <<>>, LoopEnd
<1>3. o.kind = "read" /\ n = ChunkSize
  BY ONLY <1>2, pc \in {"r", "R"} DEF Fits
<1>4. Gathered(o, n)
  BY ONLY <1>2 DEF AtEnd
<1> QED BY ONLY mishaps = <<>>, <1>2, <1>3, <1>4 DEF Gathered

\* As long as nothing goes wrong, the data a read leaves in InBuf when its last move
\* is done is as many bytes as read_memory was called with, each the cell of its
\* address as far as the row lasts, for every address ReaderAssumption allows.
THEOREM ReadsReturnCells ==
  ASSUME EccOnSequences, EccInPlace
  PROVE  Spec => []ReadReturnsCells
<1>1. Everything => ReadReturnsCells
  <2> SUFFICES ASSUME Everything, mishaps = <<>>
               PROVE  ReadReturnsCells
    BY DEF ReadReturnsCells
  <2>1. InStep
    BY DEF InStep, Had
  <2> QED BY <2>1, ReadEnds DEF Everything
<1> QED BY <1>1, EverythingHolds, PTL

\* Operators of the abstract chip are those of the pins.
LEMMA LinearSame ==
  /\ Linear!NoOp = NoOp /\ Linear!Rows = Rows /\ Linear!Cols = Cols /\ Linear!Byte = Byte
  /\ Linear!Effect(cells, op) = Effect(cells, op)
  BY DEF Linear!Effect, Effect, Linear!Rows, Rows, Linear!Cols, Cols, Linear!NoOp, NoOp,
     Linear!ProgramRow, ProgramRow, Linear!EraseBlock, EraseBlock, Linear!RowAt, RowAt,
     Linear!ColAt, ColAt, Linear!And, And, Linear!Bit, Bit, Linear!FF, FF, Linear!Byte, Byte

\* The program runs while it is in an operation.
LEMMA PhaseRuns ==
  ASSUME NEW o, NEW n, Phase(o, n)
  PROVE  ~stopped
<1>1. (\A m, q : Seen(o, m, q) => ~stopped) /\ (Resting \/ Did(o) \/ Working(o) => ~stopped)
  BY DEF Seen, Resting, Did, Working
<1> QED BY ONLY <1>1, Phase(o, n) DEF Phase, AtRaise, AtSetup, InSetup, AtColumns, InColumns,
  AtRows, InRows, AtData, InData, AtConfirm, InConfirm, AtWait, AtStatus, InStatus, AtRead, InRead,
  AtLower, AtEnd

\* In a loop the chip's rows change when its work is done, never with a move.
LEMMA BusInLoop ==
  ASSUME IsSeq(mishaps), OpInv, Filed, Bus \/ Failure, InStep', pc \in Loops
  PROVE  UNCHANGED <<cells, op, acted, stopped>>
<1>1. Moving /\ Moves
  BY Pushes DEF OpInv, Moving
<1>2. Where /\ Employed /\ Typed /\ Memory /\ InBuf \in Seq(Byte) /\ out \in Byte \cup {-1}
  BY DEF OpInv, Typed
<1>3. UNCHANGED <<cells, op, acted, stopped>> \/ Reset
  BY ONLY <1>1, MoveHistory
<1>4. PICK o \in Operations, n \in Nat : o = op /\ Fits(o, n) /\ Phase(o, n)
  BY ONLY <1>1, <1>2, pc \in Loops DEF Where, Moves
<1>5. Stales(n)
  BY ONLY <1>2, <1>4, Filed, StaleBytes DEF Fits
<1>6. op' = op /\ cells' = cells
  BY ONLY <1>1, <1>2, <1>4, <1>5, o \in Operations, n \in Nat, OperationMoves DEF Kept
<1>7. CASE Reset
  <2>1. stopped = FALSE /\ acted \in BOOLEAN
    BY ONLY <1>2, <1>4, PhaseRuns DEF Typed
  <2>2. stopped' = FALSE /\ acted' = acted
    BY ONLY <1>7, <2>1 DEF Reset
  <2> QED BY ONLY <1>6, <2>1, <2>2
<1> QED BY ONLY <1>3, <1>7

LEMMA BusImplements ==
  ASSUME IsSeq(mishaps), OpInv, Filed, Bus \/ Failure, InStep'
  PROVE  Linear!Reset \/ UNCHANGED <<cells, op, acted, stopped>>
<1>1. pc # "dead" /\ Moves
  BY Pushes DEF Bus, Failure, OpInv, Moving
<1>2. Where /\ Employed /\ Typed /\ Memory /\ acted \in BOOLEAN /\ stopped \in BOOLEAN
  BY DEF OpInv, Typed
<1>3. UNCHANGED <<cells, op, acted, stopped>> \/ Reset
  BY ONLY <1>1, MoveHistory
<1>4. CASE pc \in Loops
  BY ONLY <1>4, IsSeq(mishaps), OpInv, Filed, Bus \/ Failure, InStep', BusInLoop
<1>5. CASE pc = "boot"
  <2>1. BootPhase
    BY ONLY <1>2, <1>5 DEF Where
  <2>2. op # NoOp => stopped
    BY ONLY <2>1 DEF BootPhase, Idle
  <2> QED BY ONLY <1>2, <1>3, <2>2, ResetImplements
<1>6. CASE pc \in {"ecc", "options", "done"}
  <2>1. op = NoOp
    BY ONLY <1>2, <1>6 DEF Where, Idle
  <2> QED BY ONLY <1>2, <1>3, <2>1, ResetImplements
<1>7. pc \in Loops \cup {"boot", "ecc", "options", "done"}
  BY ONLY <1>1, <1>2 DEF Typed
<1> QED BY ONLY <1>4, <1>5, <1>6, <1>7

LEMMA ChipImplements ==
  ASSUME OpInv, Chip
  PROVE  Linear!Act \/ UNCHANGED <<cells, op, acted, stopped>>
<1>1. ChipFinishes /\ busy # "none"
  BY DEF Chip, ChipFinishes
<1>2. Employed /\ Memory /\ acted \in BOOLEAN
  BY DEF OpInv, Typed
<1>3. PICK o \in Operations : o = op /\ AtWork(o)
  BY ONLY <1>1, <1>2 DEF Employed
<1>4. /\ op' = op /\ stopped' = stopped /\ cells' = Effect(cells, o)
      /\ (o.kind = "read" => cells' = cells) /\ ~acted /\ (acted' <=> o.kind # "read")
  BY ONLY <1>1, <1>2, <1>3, o \in Operations, WorkDone
<1>5. OpInv'
  BY ONLY OpInv, Chip, ChipStep
<1>6. acted' \in BOOLEAN
  BY ONLY <1>5 DEF OpInv, Typed
<1>7. o.kind \in {"read", "program", "erase"}
  BY ONLY o \in Operations DEF Operations
<1>8. CASE o.kind = "read"
  <2>1. acted' = acted
    BY ONLY <1>2, <1>4, <1>6, <1>8
  <2> QED BY ONLY <1>4, <1>8, <2>1
<1>9. CASE o.kind \in {"program", "erase"}
  <2>1. acted' = TRUE
    BY ONLY <1>4, <1>6, <1>9
  <2>2. cells' = Linear!Effect(cells, op)
    BY ONLY <1>3, <1>4, LinearSame
  <2> QED BY ONLY <1>3, <1>4, <1>9, <2>1, <2>2 DEF Linear!Act
<1> QED BY ONLY <1>7, <1>8, <1>9

\* A call begins once the one before has returned, in a program that runs.
LEMMA BeginImplements ==
  ASSUME OpInv, pc \in Loops, NEW k \in {"read", "program", "erase"}, NEW a, NEW d, NEW moves,
         Begins([kind |-> k, at |-> a, data |-> d], moves)
  PROVE  Linear!Begin
<1>1. /\ op = NoOp /\ op' = [kind |-> k, at |-> a, data |-> d]
      /\ cells' = cells /\ acted' = acted /\ stopped' = stopped
  BY DEF Begins
<1>2. ~stopped
  BY ONLY <1>1, OpInv, pc \in Loops, LoopIdle DEF OpInv, Idle, Resting
<1>3. op' # NoOp
  <2>1. op'.kind = k /\ NoOp.kind = "none"
    BY <1>1 DEF NoOp
  <2> QED BY ONLY <2>1, k \in {"read", "program", "erase"}
<1> QED BY ONLY <1>1, <1>2, <1>3, LinearSame DEF Linear!Begin

LEMMA EndImplements ==
  ASSUME OpInv, pc \in Loops, Returned
  PROVE  Linear!End
<1>1. /\ op # NoOp /\ todo = <<>> /\ op' = NoOp /\ acted' = FALSE /\ cells' = cells
      /\ stopped' = stopped
  BY DEF Returned
<1>2. PICK o \in Operations, n \in Nat : o = op /\ AtEnd(o, n)
  BY ONLY <1>1, OpInv, pc \in Loops, LoopEnd DEF OpInv
<1>3. ~stopped /\ (o.kind # "read" => acted)
  BY ONLY <1>2 DEF AtEnd, Did
<1> QED BY ONLY <1>1, <1>2, <1>3, LinearSame DEF Linear!End

LEMMA LoopImplements ==
  ASSUME OpInv, Loop
  PROVE  Linear!Begin \/ Linear!End \/ UNCHANGED <<cells, op, acted, stopped>>
<1>1. ASSUME Erase \/ Program \/ Read
      PROVE  Linear!Begin
  <2>1. pc \in Loops
    BY <1>1 DEF Erase, Ready, Program, Writing, Read, Loops
  <2>2. \E k \in {"read", "program", "erase"} : \E a, d, moves :
          Begins([kind |-> k, at |-> a, data |-> d], moves)
    BY <1>1 DEF Erase, Program, Read
  <2> QED BY ONLY <2>1, <2>2, OpInv, BeginImplements
<1>2. ASSUME EraseDone \/ ProgramDone \/ ReadDone
      PROVE  Linear!End
  <2>1. pc \in Loops /\ Returned
    BY <1>2 DEF EraseDone, ProgramDone, ReadDone, Loops
  <2> QED BY ONLY <2>1, OpInv, EndImplements
<1>3. ASSUME SkipPage \/ Overrun \/ LoopDone
      PROVE  UNCHANGED <<cells, op, acted, stopped>>
  <2>1. UNCHANGED chip
    BY <1>3 DEF SkipPage, Quiet, Overrun, LoopDone
  <2> QED BY ONLY <2>1 DEF chip
<1> QED BY ONLY <1>1, <1>2, <1>3, Loop DEF Loop

\* Identified ends the operation of a process before, and finds none.
LEMMA IdentifiedImplements ==
  ASSUME OpInv, Identified
  PROVE  UNCHANGED <<cells, op, acted, stopped>>
<1>1. /\ pc = "boot" /\ todo = <<>> /\ cells' = cells
      /\ op' = NoOp /\ acted' = FALSE /\ stopped' = FALSE
  BY DEF Identified
<1>2. Idle /\ acted \in BOOLEAN /\ stopped \in BOOLEAN
  BY ONLY <1>1, OpInv, BootLeft DEF OpInv, Where, Typed
<1>3. op = NoOp /\ acted = FALSE /\ stopped = FALSE
  BY ONLY <1>2 DEF Idle, Resting
<1> QED BY ONLY <1>1, <1>3

\* A step of a chip that stays in step, or one that goes astray.
LEMMA StepImplements ==
  ASSUME FileInv, InStep => OpInv /\ Filed, [Next]_vars
  PROVE  [Linear!Next]_Linear!vars
<1>1. CASE ~InStep'
  BY <1>1 DEF Linear!Next
<1>2. CASE InStep'
  <2>1. IsSeq(mishaps)
    BY DEF FileInv, Buffers
  <2>2. InStep
    BY <1>2, <2>1, NoneUndone DEF InStep
  <2>3. OpInv /\ Filed
    BY <2>2
  <2>4. Linear!Step \/ UNCHANGED <<cells, op, acted, stopped>>
    <3>1. CASE Bus \/ Failure
      BY ONLY <1>2, <2>1, <2>3, <3>1, BusImplements DEF Linear!Step
    <3>2. CASE Chip
      BY ONLY <2>3, <3>2, ChipImplements DEF Linear!Step
    <3>3. CASE Loop
      BY ONLY <2>3, <3>3, LoopImplements DEF Linear!Step
    <3>4. CASE Interrupt \/ Restart
      <4>1. stopped' = TRUE /\ UNCHANGED <<cells, op, acted>>
        BY <3>4 DEF Interrupt, Restart
      <4> QED BY ONLY <4>1 DEF Linear!Stop, Linear!Step
    <3>5. CASE Identified
      BY ONLY <2>3, <3>5, IdentifiedImplements
    <3>6. CASE Option \/ Finished \/ UNCHANGED vars
      <4>1. UNCHANGED chip
        BY <3>6 DEF Option, SetErasePage, SetPage, EraseOption, ReadOption, WriteOption,
           EccOption, EndOfLine, Quiet, Finished, vars
      <4> QED BY ONLY <4>1 DEF chip
    <3> QED BY ONLY <3>1, <3>2, <3>3, <3>4, <3>5, <3>6, [Next]_vars DEF Next
  <2>5. (~InStep)' = ~InStep /\ ~(~InStep)
    BY <1>2, <2>2
  <2> QED BY ONLY <2>4, <2>5 DEF Linear!Next, Linear!vars
<1> QED BY <1>1, <1>2

\* The pin sequences of nandread_FTDI232H.c implement one run of cells addressed
\* by mem_address, until an update of a pin is lost or a wait ends before the chip
\* is ready: each program and each erase takes effect once, between its call and
\* its return, or is cut short by the reset of the run that follows.
THEOREM ImplementsLinearChip ==
  ASSUME EccOnSequences, EccInPlace
  PROVE  Spec => ImplementsLinear
<1>1. Init => Linear!Init
  <2> SUFFICES ASSUME Init
               PROVE  Linear!Init
    OBVIOUS
  <2>1. op = NoOp /\ acted = FALSE /\ stopped = FALSE /\ InStep
    BY DEF Init, InStep, Had
  <2>2. cells \in [Rows -> [Cols -> Byte]]
    BY OpInitially DEF OpInv, Typed, Memory
  <2> QED BY ONLY <2>1, <2>2, LinearSame DEF Linear!Init
<1>2. Everything /\ [Next]_vars => [Linear!Next]_Linear!vars
  BY ONLY StepImplements DEF Everything, IInv
<1> QED BY <1>1, <1>2, EverythingHolds, PTL DEF Spec, ImplementsLinear, Linear!Spec

LEMMA WorkingHigh ==
  ASSUME OpInv, Gone, busy \in {"program", "erase"}, ~stopped
  PROVE  "WP" \in pins
<1>1. PICK o \in Operations : o = op /\ AtWork(o)
  BY DEF OpInv, Employed
<1>2. o.kind \in {"program", "erase"} /\ op # NoOp /\ ~Idle
  BY <1>1, Kinds DEF AtWork, Idle
<1>3. pc \in Loops
  <2>1. pc # "boot"
    BY <1>2 DEF OpInv, Where, BootPhase, Idle
  <2>2. pc \notin {"ecc", "options", "done"}
    BY <1>2 DEF OpInv, Where
  <2>3. pc # "dead"
    BY <1>1, <1>2 DEF Gone
  <2> QED BY <2>1, <2>2, <2>3 DEF OpInv, Typed
<1>4. PICK n \in Nat : Phase(o, n)
  BY ONLY <1>1, <1>2, <1>3, OpInv DEF OpInv, Where
<1>5. \/ AtWait(o, n)
      \/ InLatch(latch_command(<<Confirm(o)>>), Confirm(o), AfterConfirm(o, n), Base(o), 4)
  <2>1. busy # "none"
    OBVIOUS
  <2> QED BY ONLY <1>4, <2>1, PhaseWork, o \in Operations, n \in Nat
<1>6. pins = Base(o) \/ pins = Base(o) \cup {"CLE", "WE"}
  BY <1>5 DEF AtWait, InLatch, Pinned
<1>7. "WP" \in Base(o)
  BY <1>2 DEF Base
<1> QED BY <1>6, <1>7

\* #WP is high as long as the chip programs or erases for the running program, if
\* no update of a pin was lost and every wait has lasted until the chip was ready:
\* program_page and erase_page raise it in the shadow, and lower it after the wait.
THEOREM WPStaysHigh ==
  ASSUME EccOnSequences, EccInPlace
  PROVE  Spec => []WPHighWhileWorking
<1>1. Everything => WPHighWhileWorking
  BY WorkingHigh DEF Everything, WPHighWhileWorking
<1> QED BY <1>1, EverythingHolds, PTL

-----------------------------------------------------------------------------
(***************************************************************************)
(* Bits that are clear stay so.                                            *)
(***************************************************************************)
\* The bits of a sum of powers of two.
LEMMA BitsOf ==
  ASSUME NEW a0 \in {0, 1}, NEW a1 \in {0, 1}, NEW a2 \in {0, 1}, NEW a3 \in {0, 1},
         NEW a4 \in {0, 1}, NEW a5 \in {0, 1}, NEW a6 \in {0, 1}, NEW a7 \in {0, 1}, NEW z,
         z = a0 * 1 + a1 * 2 + a2 * 4 + a3 * 8 + a4 * 16 + a5 * 32 + a6 * 64 + a7 * 128
  PROVE  /\ Bit(z, 0) = a0 /\ Bit(z, 1) = a1 /\ Bit(z, 2) = a2 /\ Bit(z, 3) = a3
         /\ Bit(z, 4) = a4 /\ Bit(z, 5) = a5 /\ Bit(z, 6) = a6 /\ Bit(z, 7) = a7
<1>1. z \in Nat
  OBVIOUS
<1>2. /\ Bit(z, 0) = z % 2 /\ Bit(z, 1) = (z \div 2) % 2 /\ Bit(z, 2) = (z \div 4) % 2
      /\ Bit(z, 3) = (z \div 8) % 2 /\ Bit(z, 4) = (z \div 16) % 2 /\ Bit(z, 5) = (z \div 32) % 2
      /\ Bit(z, 6) = (z \div 64) % 2 /\ Bit(z, 7) = (z \div 128) % 2
  BY <1>1 DEF Bit
<1>3. z % 2 = a0
  OBVIOUS
<1>4. (z \div 2) % 2 = a1
  OBVIOUS
<1>5. (z \div 4) % 2 = a2
  OBVIOUS
<1>6. (z \div 8) % 2 = a3
  OBVIOUS
<1>7. (z \div 16) % 2 = a4
  OBVIOUS
<1>8. (z \div 32) % 2 = a5
  OBVIOUS
<1>9. (z \div 64) % 2 = a6
  OBVIOUS
<1>10. (z \div 128) % 2 = a7
  OBVIOUS
<1> QED BY ONLY <1>2, <1>3, <1>4, <1>5, <1>6, <1>7, <1>8, <1>9, <1>10

LEMMA AndBits ==
  ASSUME NEW x \in Byte, NEW y \in Byte, NEW z, z = And(x, y)
  PROVE  /\ Bit(z, 0) = Bit(x, 0) * Bit(y, 0) /\ Bit(z, 1) = Bit(x, 1) * Bit(y, 1)
         /\ Bit(z, 2) = Bit(x, 2) * Bit(y, 2) /\ Bit(z, 3) = Bit(x, 3) * Bit(y, 3)
         /\ Bit(z, 4) = Bit(x, 4) * Bit(y, 4) /\ Bit(z, 5) = Bit(x, 5) * Bit(y, 5)
         /\ Bit(z, 6) = Bit(x, 6) * Bit(y, 6) /\ Bit(z, 7) = Bit(x, 7) * Bit(y, 7)
<1>1. z = Bit(x, 0) * Bit(y, 0) * 1 + Bit(x, 1) * Bit(y, 1) * 2 + Bit(x, 2) * Bit(y, 2) * 4
          + Bit(x, 3) * Bit(y, 3) * 8 + Bit(x, 4) * Bit(y, 4) * 16
          + Bit(x, 5) * Bit(y, 5) * 32 + Bit(x, 6) * Bit(y, 6) * 64
          + Bit(x, 7) * Bit(y, 7) * 128
  BY DEF And
<1>2. /\ Bit(x, 0) * Bit(y, 0) \in {0, 1} /\ Bit(x, 1) * Bit(y, 1) \in {0, 1}
      /\ Bit(x, 2) * Bit(y, 2) \in {0, 1} /\ Bit(x, 3) * Bit(y, 3) \in {0, 1}
      /\ Bit(x, 4) * Bit(y, 4) \in {0, 1} /\ Bit(x, 5) * Bit(y, 5) \in {0, 1}
      /\ Bit(x, 6) * Bit(y, 6) \in {0, 1} /\ Bit(x, 7) * Bit(y, 7) \in {0, 1}
  <2>1. \A a, b \in {0, 1} : a * b \in {0, 1}
    OBVIOUS
  <2> QED BY ONLY <2>1, x \in Byte, y \in Byte, BitsAre
<1> QED BY ONLY <1>1, <1>2, BitsOf

LEMMA AndWithin ==
  ASSUME NEW x \in Byte, NEW y \in Byte
  PROVE  /\ Within(And(x, y), y)
         /\ \A v \in Byte : Within(x, v) => Within(And(x, y), v)
<1>1. PICK z \in Byte : z = And(x, y)
  BY AndIs
<1>2. /\ Bit(z, 0) = Bit(x, 0) * Bit(y, 0) /\ Bit(z, 1) = Bit(x, 1) * Bit(y, 1)
      /\ Bit(z, 2) = Bit(x, 2) * Bit(y, 2) /\ Bit(z, 3) = Bit(x, 3) * Bit(y, 3)
      /\ Bit(z, 4) = Bit(x, 4) * Bit(y, 4) /\ Bit(z, 5) = Bit(x, 5) * Bit(y, 5)
      /\ Bit(z, 6) = Bit(x, 6) * Bit(y, 6) /\ Bit(z, 7) = Bit(x, 7) * Bit(y, 7)
  BY ONLY <1>1, x \in Byte, y \in Byte, AndBits
\* Bytes with the same bits.
<1>3. ASSUME NEW v \in Byte,
             /\ Bit(z, 0) * Bit(v, 0) = Bit(z, 0) /\ Bit(z, 1) * Bit(v, 1) = Bit(z, 1)
             /\ Bit(z, 2) * Bit(v, 2) = Bit(z, 2) /\ Bit(z, 3) * Bit(v, 3) = Bit(z, 3)
             /\ Bit(z, 4) * Bit(v, 4) = Bit(z, 4) /\ Bit(z, 5) * Bit(v, 5) = Bit(z, 5)
             /\ Bit(z, 6) * Bit(v, 6) = Bit(z, 6) /\ Bit(z, 7) * Bit(v, 7) = Bit(z, 7)
      PROVE  Within(z, v)
  <2>1. And(z, v) = Bit(z, 0) * 1 + Bit(z, 1) * 2 + Bit(z, 2) * 4 + Bit(z, 3) * 8
                    + Bit(z, 4) * 16 + Bit(z, 5) * 32 + Bit(z, 6) * 64 + Bit(z, 7) * 128
    BY <1>3 DEF And
  <2>2. And(x, y) = Bit(z, 0) * 1 + Bit(z, 1) * 2 + Bit(z, 2) * 4 + Bit(z, 3) * 8
                    + Bit(z, 4) * 16 + Bit(z, 5) * 32 + Bit(z, 6) * 64 + Bit(z, 7) * 128
    BY <1>2 DEF And
  <2> QED BY ONLY <1>1, <2>1, <2>2 DEF Within
<1>4. \A a, b \in {0, 1} : (a * b) * b = a * b
  OBVIOUS
<1>5. Within(z, y)
  <2>1. /\ Bit(z, 0) * Bit(y, 0) = Bit(z, 0) /\ Bit(z, 1) * Bit(y, 1) = Bit(z, 1)
        /\ Bit(z, 2) * Bit(y, 2) = Bit(z, 2) /\ Bit(z, 3) * Bit(y, 3) = Bit(z, 3)
        /\ Bit(z, 4) * Bit(y, 4) = Bit(z, 4) /\ Bit(z, 5) * Bit(y, 5) = Bit(z, 5)
        /\ Bit(z, 6) * Bit(y, 6) = Bit(z, 6) /\ Bit(z, 7) * Bit(y, 7) = Bit(z, 7)
    BY ONLY <1>2, <1>4, x \in Byte, y \in Byte, BitsAre
  <2> QED BY ONLY <1>3, <2>1, y \in Byte
<1>6. ASSUME NEW v \in Byte, Within(x, v)
      PROVE  Within(z, v)
  <2>1. x = And(x, v)
    BY ONLY <1>6 DEF Within
  <2>2. /\ Bit(x, 0) = Bit(x, 0) * Bit(v, 0) /\ Bit(x, 1) = Bit(x, 1) * Bit(v, 1)
        /\ Bit(x, 2) = Bit(x, 2) * Bit(v, 2) /\ Bit(x, 3) = Bit(x, 3) * Bit(v, 3)
        /\ Bit(x, 4) = Bit(x, 4) * Bit(v, 4) /\ Bit(x, 5) = Bit(x, 5) * Bit(v, 5)
        /\ Bit(x, 6) = Bit(x, 6) * Bit(v, 6) /\ Bit(x, 7) = Bit(x, 7) * Bit(v, 7)
    BY ONLY <2>1, x \in Byte, v \in Byte, AndBits
  <2>3. \A a, b, c \in {0, 1} : a = a * c => (a * b) * c = a * b
    OBVIOUS
  <2>4. /\ Bit(z, 0) * Bit(v, 0) = Bit(z, 0) /\ Bit(z, 1) * Bit(v, 1) = Bit(z, 1)
        /\ Bit(z, 2) * Bit(v, 2) = Bit(z, 2) /\ Bit(z, 3) * Bit(v, 3) = Bit(z, 3)
        /\ Bit(z, 4) * Bit(v, 4) = Bit(z, 4) /\ Bit(z, 5) * Bit(v, 5) = Bit(z, 5)
        /\ Bit(z, 6) * Bit(v, 6) = Bit(z, 6) /\ Bit(z, 7) * Bit(v, 7) = Bit(z, 7)
    BY ONLY <1>2, <2>2, <2>3, x \in Byte, y \in Byte, v \in Byte, BitsAre
  <2> QED BY ONLY <1>3, <2>4, v \in Byte
<1> QED BY ONLY <1>1, <1>5, <1>6

-----------------------------------------------------------------------------
(***************************************************************************)
(* What -w has programmed.                                                 *)
(***************************************************************************)
LEMMA InPage ==
  ASSUME PagesFit, NEW n \in Nat, NEW i \in 1 .. Nand.page_size, NEW p, p = n * Nand.page_size,
         NEW a, a = p + i - 1
  PROVE  a \in Nat /\ p \in Nat /\ RowAt(a) = RowAt(p) /\ ColAt(a) = ColAt(p) + i - 1
<1>1. PICK s \in Nat \ {0} : s = Nand.page_size
  BY PinAssumption
<1>2. PICK b \in Nat \ {0} : b = ColSpan
  BY LinearAssumption
<1>3. b % s = 0
  BY ONLY PagesFit, <1>1, <1>2 DEF PagesFit
<1>4. PICK m \in Nat : b = s * m
  <2>1. PICK m \in Nat : m = b \div s
    BY ONLY b \in Nat \ {0}, s \in Nat \ {0}, DivMod
  <2>2. b = s * m + 0
    BY ONLY <1>3, <2>1, b \in Nat \ {0}, s \in Nat \ {0}, DivMod
  <2>3. s * m \in Nat
    BY ONLY s \in Nat \ {0}, m \in Nat
  <2> QED BY ONLY <2>2, <2>3, m \in Nat
<1>5. p = n * s /\ p \in Nat /\ i \in 1 .. s /\ a \in Nat
  BY ONLY <1>1, n \in Nat, i \in 1 .. Nand.page_size, p = n * Nand.page_size, a = p + i - 1
<1>6. PICK q \in Nat : q = p \div b
  BY ONLY <1>5, b \in Nat \ {0}, DivMod
<1>7. PICK c \in 0 .. b - 1 : c = p % b
  BY ONLY <1>5, b \in Nat \ {0}, DivMod
<1>8. p = b * q + c
  BY ONLY <1>5, <1>6, <1>7, b \in Nat \ {0}, DivMod
<1>9. c + i - 1 \in 0 .. b - 1
  <2>1. PICK k \in Int : k = n - m * q
    BY ONLY n \in Nat, m \in Nat, q \in Nat
  <2>2. c = s * k
    <3>1. b * q = s * (m * q)
      BY ONLY <1>4, s \in Nat, m \in Nat, q \in Nat
    <3>2. PICK w \in Nat : w = m * q
      BY ONLY m \in Nat, q \in Nat
    <3>3. c = s * n - s * w /\ k = n - w
      BY ONLY <1>5, <1>8, <2>1, <3>1, <3>2, s \in Nat, n \in Nat
    <3> QED BY ONLY <3>3, s \in Nat, n \in Nat, w \in Nat
  <2>3. k < m
    <3>1. ASSUME k >= m
          PROVE  FALSE
      <4>1. PICK e \in Nat : k = m + e
        <5>1. k - m \in Nat /\ k = m + (k - m)
          BY ONLY <3>1, k \in Int, m \in Nat
        <5> QED BY ONLY <5>1
      <4>2. s * k = s * m + s * e /\ s * e \in Nat
        BY ONLY <4>1, s \in Nat, m \in Nat, e \in Nat
      <4> QED BY ONLY <1>4, <2>2, <4>2, c \in 0 .. b - 1, s \in Nat, b \in Nat, m \in Nat
    <3> QED BY ONLY <3>1, k \in Int, m \in Nat
  <2>4. c + s <= b
    <3>1. PICK e \in Nat : m = k + 1 + e
      <4>1. m - k - 1 \in Nat /\ m = k + 1 + (m - k - 1)
        BY ONLY <2>3, k \in Int, m \in Nat
      <4> QED BY ONLY <4>1
    <3>2. s * m = s * k + s + s * e /\ s * e \in Nat
      BY ONLY <3>1, s \in Nat, k \in Int, e \in Nat
    <3>3. s * k \in Int
      BY ONLY s \in Nat, k \in Int
    <3> QED BY ONLY <1>4, <2>2, <3>2, <3>3, s \in Nat
  <2> QED BY ONLY <1>5, <2>4, c \in 0 .. b - 1, b \in Nat, s \in Nat
<1>10. PICK x \in 0 .. b - 1 : x = c + i - 1
  BY ONLY <1>9
<1>11. a = b * q + x
  <2>1. b * q \in Nat
    BY ONLY b \in Nat, q \in Nat
  <2> QED BY ONLY <1>5, <1>8, <1>10, <2>1, a = p + i - 1, b \in Nat, c \in 0 .. b - 1
<1>12. a \div b = q /\ a % b = x
  <2>1. PICK y \in Nat : y = a \div b
    BY ONLY <1>5, b \in Nat \ {0}, DivMod
  <2>2. PICK z \in 0 .. b - 1 : z = a % b
    BY ONLY <1>5, b \in Nat \ {0}, DivMod
  <2>3. a = b * y + z
    BY ONLY <1>5, <2>1, <2>2, b \in Nat \ {0}, DivMod
  <2>4. b * q + x = b * y + z
    BY ONLY <1>11, <2>3
  <2>5. q = y /\ x = z
    BY ONLY <2>4, b \in Nat \ {0}, q \in Nat, y \in Nat, x \in 0 .. b - 1, z \in 0 .. b - 1, OneQuotient
  <2> QED BY ONLY <2>1, <2>2, <2>5
<1>13. RowAt(a) = RowAt(p)
  BY ONLY <1>2, <1>6, <1>12 DEF RowAt
<1>14. ColAt(a) = ColAt(p) + i - 1
  BY ONLY <1>2, <1>7, <1>10, <1>12 DEF ColAt
<1> QED BY ONLY <1>5, <1>13, <1>14

\* A program takes no bit back.
LEMMA ProgramWithin ==
  ASSUME NEW s \in Chips, NEW q \in Rows, NEW c, NEW d \in Seq(Byte), NEW r \in Rows, NEW k \in Cols
  PROVE  /\ \A v \in Byte : Within(s[r][k], v) => Within(ProgramRow(s, q, c, d)[r][k], v)
         /\ r = q /\ k - c + 1 \in DOMAIN d => Within(ProgramRow(s, q, c, d)[r][k], d[k - c + 1])
<1>1. PICK t : t = ProgramRow(s, q, c, d)
  OBVIOUS
<1>2. t[r][k] = IF r = q /\ k - c + 1 \in DOMAIN d THEN And(s[r][k], d[k - c + 1]) ELSE s[r][k]
  BY <1>1 DEF ProgramRow, Chips
<1>3. s[r][k] \in Byte /\ \A i : i \in DOMAIN d => d[i] \in Byte
  BY DEF Chips
<1>4. CASE r = q /\ k - c + 1 \in DOMAIN d
  <2>1. PICK y \in Byte : y = d[k - c + 1]
    BY ONLY <1>3, <1>4
  <2>2. PICK x \in Byte : x = s[r][k]
    BY ONLY <1>3
  <2>3. t[r][k] = And(x, y)
    BY ONLY <1>2, <1>4, <2>1, <2>2
  <2> QED BY ONLY <1>1, <2>1, <2>2, <2>3, x \in Byte, y \in Byte, AndWithin
<1>5. CASE ~(r = q /\ k - c + 1 \in DOMAIN d)
  BY ONLY <1>1, <1>2, <1>5
<1> QED BY ONLY <1>4, <1>5

LEMMA ProgramClears ==
  ASSUME PagesFit, NEW s \in Chips, NEW o \in Operations, o.kind = "program",
         NEW fl \in Seq(Byte), NEW st \in Nat, NEW n \in Nat
  PROVE  /\ \A m \in Nat : PageCleared(s, st, fl, m) => PageCleared(Effect(s, o), st, fl, m)
         /\ o.at = n * Nand.page_size /\ PageOf(o.data, st, fl, n)
              => PageCleared(Effect(s, o), st, fl, n)
<1>1. PICK d \in Seq(Byte) : d = o.data
  BY ONLY o \in Operations, Kinds
<1>2. PICK q \in Rows : q = RowAt(o.at)
  BY ONLY o \in Operations, Kinds, RowIs
<1>3. PICK c : c = ColAt(o.at)
  OBVIOUS
<1>4. PICK t : t = ProgramRow(s, q, c, d)
  OBVIOUS
<1>5. Effect(s, o) = t
  BY ONLY <1>1, <1>2, <1>3, <1>4, o.kind = "program" DEF Effect
<1>6. \A f : f \in DOMAIN fl => fl[f] \in Byte
  OBVIOUS
<1>7. \A r \in Rows, k \in Cols, v \in Byte : Within(s[r][k], v) => Within(t[r][k], v)
  BY ONLY <1>4, s \in Chips, q \in Rows, d \in Seq(Byte), ProgramWithin
<1>8. ASSUME NEW m \in Nat, PageCleared(s, st, fl, m)
      PROVE  PageCleared(t, st, fl, m)
  <2> SUFFICES ASSUME NEW i \in 1 .. Nand.page_size, NEW f, NEW a,
                      f = (m - st) * Nand.page_size + i, a = m * Nand.page_size + i - 1,
                      f \in DOMAIN fl, ColAt(a) \in Cols
               PROVE  Within(t[RowAt(a)][ColAt(a)], fl[f])
    BY DEF PageCleared
  <2>1. Within(s[RowAt(a)][ColAt(a)], fl[f])
    BY ONLY <1>8, i \in 1 .. Nand.page_size, f = (m - st) * Nand.page_size + i,
       a = m * Nand.page_size + i - 1, f \in DOMAIN fl, ColAt(a) \in Cols DEF PageCleared
  <2>2. a \in Nat
    BY ONLY PagesFit, m \in Nat, i \in 1 .. Nand.page_size, a = m * Nand.page_size + i - 1, InPage
  <2>3. RowAt(a) \in Rows
    BY ONLY <2>2, RowIs
  <2> QED BY ONLY <1>6, <1>7, <2>1, <2>3, f \in DOMAIN fl, ColAt(a) \in Cols
<1>9. ASSUME o.at = n * Nand.page_size, PageOf(d, st, fl, n)
      PROVE  PageCleared(t, st, fl, n)
  <2> SUFFICES ASSUME NEW i \in 1 .. Nand.page_size, NEW f, NEW a,
                      f = (n - st) * Nand.page_size + i, a = n * Nand.page_size + i - 1,
                      f \in DOMAIN fl, ColAt(a) \in Cols
               PROVE  Within(t[RowAt(a)][ColAt(a)], fl[f])
    BY DEF PageCleared
  <2>1. i \in DOMAIN d /\ d[i] = fl[f]
    BY ONLY <1>9, i \in 1 .. Nand.page_size, f = (n - st) * Nand.page_size + i, f \in DOMAIN fl
       DEF PageOf
  <2>2. RowAt(a) = q /\ ColAt(a) = c + i - 1
    BY ONLY PagesFit, <1>2, <1>3, <1>9, n \in Nat, i \in 1 .. Nand.page_size,
       a = n * Nand.page_size + i - 1, InPage
  <2>3. PICK k \in Cols : k = ColAt(a)
    BY ONLY ColAt(a) \in Cols
  <2>4. k - c + 1 = i
    <3>1. c \in Int /\ i \in Int
      <4>1. o.at \in Nat
        BY ONLY o \in Operations, Kinds
      <4> QED BY <1>3, <4>1, LinearAssumption DEF ColAt
    <3> QED BY ONLY <2>2, <2>3, <3>1
  <2>5. Within(t[q][k], d[k - c + 1])
    BY ONLY <1>4, <2>1, <2>4, s \in Chips, q \in Rows, d \in Seq(Byte), k \in Cols, ProgramWithin
  <2> QED BY ONLY <2>1, <2>2, <2>3, <2>4, <2>5
<1> QED BY ONLY <1>1, <1>5, <1>8, <1>9

-----------------------------------------------------------------------------
LEMMA NextPage ==
  ASSUME NEW n \in Nat, NEW st \in Nat, NEW s \in Nat
  PROVE  ((n + 1) - st) * s = (n - st) * s + s
OBVIOUS

LEMMA FreadPage ==
  ASSUME pc = "w", Fread, file \in Seq(Byte), at \in Nat, at <= Len(file), nPage \in Nat,
         startingpage \in Nat, at = (nPage - startingpage) * Nand.page_size
  PROVE  /\ PageOf(data', startingpage, file, nPage)
         /\ DOMAIN data' = 1 .. Nand.page_size
         /\ ~eof' => at' = ((nPage + 1) - startingpage) * Nand.page_size
<1>1. PICK s \in Nat : s = Nand.page_size
  BY PinAssumption
<1>2. ChunkSize = s
  BY ONLY <1>1, pc = "w" DEF ChunkSize
<1>3. PICK got : got = IF Len(file) - at < s THEN Len(file) - at ELSE s
  OBVIOUS
<1>4. /\ at' = at + got /\ eof' = (got < s)
      /\ data' = [i \in 1 .. s |-> IF i <= got THEN file[at + i] ELSE data[i]]
  BY ONLY <1>2, <1>3, Fread DEF Fread
<1>5. Len(file) \in Nat /\ DOMAIN file = 1 .. Len(file)
  BY ONLY file \in Seq(Byte)
<1>6. ASSUME NEW i \in 1 .. s, at + i \in DOMAIN file
      PROVE  i \in DOMAIN data' /\ data'[i] = file[at + i]
  <2>1. i <= got
    <3>1. PICK m \in Nat : m = Len(file)
      BY ONLY <1>5
    <3>2. i \in Nat /\ i <= s
      BY ONLY i \in 1 .. s, s \in Nat
    <3>3. at + i <= m
      <4>1. at + i \in 1 .. m
        BY ONLY <1>5, <1>6, <3>1
      <4> QED BY ONLY <4>1
    <3>4. i <= m - at
      BY ONLY <3>2, <3>3, at \in Nat, m \in Nat
    <3>5. got = IF m - at < s THEN m - at ELSE s
      BY ONLY <1>3, <3>1
    <3> QED BY ONLY <3>2, <3>4, <3>5
  <2> QED BY ONLY <1>4, <2>1, i \in 1 .. s
<1>7. PageOf(data', startingpage, file, nPage)
  BY ONLY <1>1, <1>6, at = (nPage - startingpage) * Nand.page_size DEF PageOf
<1>8. ASSUME ~eof'
      PROVE  at' = ((nPage + 1) - startingpage) * Nand.page_size
  <2>1. got = s
    BY ONLY <1>3, <1>4, <1>5, <1>8, at \in Nat, s \in Nat
  <2>2. at' = at + s
    BY ONLY <1>4, <2>1
  <2>3. ((nPage + 1) - startingpage) * s = (nPage - startingpage) * s + s
    BY ONLY nPage \in Nat, startingpage \in Nat, s \in Nat, NextPage
  <2> QED BY ONLY <1>1, <2>2, <2>3, at = (nPage - startingpage) * Nand.page_size
<1>9. DOMAIN data' = 1 .. Nand.page_size
  BY ONLY <1>1, <1>4
<1> QED BY ONLY <1>7, <1>8, <1>9

LEMMA WrittenStays ==
  ASSUME Written, pc = "w", UNCHANGED <<startingpage, nPage, file, at, eof, op, acted, cells>>
  PROVE  Written'
<1>1. /\ startingpage' = startingpage /\ nPage' = nPage /\ file' = file /\ at' = at /\ eof' = eof
      /\ op' = op /\ acted' = acted /\ cells' = cells
  OBVIOUS
<1> QED BY ONLY <1>1, Written, pc = "w" DEF Written

LEMMA WriteBegins ==
  ASSUME OpInv, FileHeld, NEW n, NEW k, WriteOption(k, n)
  PROVE  Written'
<1>1. /\ pc = "options" /\ nPage' = startingpage /\ startingpage' = startingpage /\ at' = 0
      /\ op' = op
  BY DEF WriteOption, TakesOption, Quiet, chip
<1>2. op = NoOp
  BY ONLY <1>1, OpInv DEF OpInv, Where, Idle
<1>3. startingpage \in Nat
  BY ONLY FileHeld DEF FileHeld
<1>4. startingpage - startingpage = 0 /\ \A m : m \notin startingpage .. startingpage - 1
  BY ONLY <1>3
<1>5. 0 * Nand.page_size = 0
  BY Sizes
<1> QED BY ONLY <1>1, <1>2, <1>4, <1>5 DEF Written

LEMMA ChipWrites ==
  ASSUME PagesFit, OpInv, FileHeld, Written, pc = "w", Chip
  PROVE  Written'
<1>1. /\ ChipFinishes /\ busy # "none" /\ startingpage' = startingpage /\ nPage' = nPage
      /\ file' = file /\ at' = at /\ eof' = eof
  BY DEF Chip, ChipFinishes, main
<1>2. Where /\ Employed /\ Memory /\ pc \in Loops /\ file \in Seq(Byte)
  BY DEF OpInv, Typed, Loops
<1>3. op' = op /\ op # NoOp
  BY ONLY <1>1, <1>2, ChipAtWork
<1>4. PICK o \in Operations : o = op /\ AtWork(o)
  BY ONLY <1>1, <1>2 DEF Employed
<1>5. o.kind = "program"
  <2>1. ~Idle
    BY ONLY <1>3 DEF Idle
  <2>2. PICK x \in Operations, m \in Nat : x = op /\ Fits(x, m)
    BY ONLY <1>2, <2>1 DEF Where
  <2> QED BY ONLY <1>4, <2>2, pc = "w" DEF Fits
<1>6. cells' = Effect(cells, o)
  BY ONLY <1>1, <1>2, <1>4, o \in Operations, WorkDone
<1>7. cells \in Chips
  BY ONLY <1>2 DEF Memory, Chips
<1>8. startingpage \in Nat /\ nPage \in Nat
  BY ONLY FileHeld, pc = "w" DEF FileHeld
<1>9. /\ \A n \in startingpage .. nPage - 1 : PageCleared(cells, startingpage, file, n)
      /\ o.at = nPage * Nand.page_size /\ PageOf(o.data, startingpage, file, nPage)
      /\ ~eof => at = ((nPage + 1) - startingpage) * Nand.page_size
  BY ONLY <1>3, <1>4, Written, pc = "w" DEF Written
<1>10. PICK t : t = Effect(cells, o)
  OBVIOUS
<1>11. /\ \A m \in Nat : PageCleared(cells, startingpage, file, m) => PageCleared(t, startingpage, file, m)
       /\ PageCleared(t, startingpage, file, nPage)
  BY ONLY PagesFit, <1>2, <1>5, <1>7, <1>8, <1>9, <1>10, o \in Operations, ProgramClears
<1>12. \A n \in startingpage .. nPage - 1 : PageCleared(t, startingpage, file, n)
  BY ONLY <1>8, <1>9, <1>11
<1> QED BY ONLY <1>1, <1>3, <1>4, <1>6, <1>9, <1>10, <1>11, <1>12 DEF Written

LEMMA ProgramWrites ==
  ASSUME OpInv, FileHeld, Written, pc = "w", Program
  PROVE  Written'
<1>1. /\ op = NoOp /\ ~eof /\ Fread /\ startingpage' = startingpage /\ nPage' = nPage
      /\ file' = file /\ cells' = cells /\ acted' = acted
      /\ op' = [kind |-> "program", at |-> PageAddress(nPage), data |-> Chunk]
  BY DEF Program, Writing, Begins
<1>2. /\ startingpage \in Nat /\ nPage \in Nat /\ at \in Nat /\ at <= Len(file)
  BY ONLY FileHeld, pc = "w" DEF FileHeld
<1>3. file \in Seq(Byte) /\ ~acted
  BY ONLY OpInv, <1>1 DEF OpInv, Typed, Employed
<1>4. /\ \A n \in startingpage .. nPage - 1 : PageCleared(cells, startingpage, file, n)
      /\ at = (nPage - startingpage) * Nand.page_size
  BY ONLY <1>1, Written, pc = "w" DEF Written
<1>5. /\ PageOf(data', startingpage, file, nPage)
      /\ ~eof' => at' = ((nPage + 1) - startingpage) * Nand.page_size
  BY ONLY <1>1, <1>2, <1>3, <1>4, pc = "w", FreadPage
<1>6. op'.at = nPage * Nand.page_size /\ op'.data = data'
  <2>1. op'.at = PageAddress(nPage) /\ op'.data = Chunk
    BY ONLY <1>1
  <2> QED BY ONLY <2>1, pc = "w" DEF PageAddress, ChunkSize, Chunk
<1>7. op' # NoOp /\ ~acted'
  <2>1. op'.kind = "program" /\ NoOp.kind = "none"
    BY <1>1 DEF NoOp
  <2>2. op' # NoOp
    BY ONLY <2>1
  <2> QED BY ONLY <1>1, <1>3, <2>2
<1> QED BY ONLY <1>1, <1>4, <1>5, <1>6, <1>7 DEF Written

\* A page of 0xFF has no bit clear.
LEMMA BlankCleared ==
  ASSUME PagesFit, NEW s \in Chips, NEW d, NEW fl, NEW st \in Nat, NEW n \in Nat,
         PageOf(d, st, fl, n), AllFF(d)
  PROVE  PageCleared(s, st, fl, n)
<1> SUFFICES ASSUME NEW i \in 1 .. Nand.page_size, NEW f, NEW a,
                    f = (n - st) * Nand.page_size + i, a = n * Nand.page_size + i - 1,
                    f \in DOMAIN fl, ColAt(a) \in Cols
             PROVE  Within(s[RowAt(a)][ColAt(a)], fl[f])
  BY DEF PageCleared
<1>1. i \in DOMAIN d /\ d[i] = fl[f]
  BY ONLY PageOf(d, st, fl, n), i \in 1 .. Nand.page_size, f = (n - st) * Nand.page_size + i,
     f \in DOMAIN fl DEF PageOf
<1>2. fl[f] = FF
  BY ONLY <1>1, AllFF(d) DEF AllFF
<1>3. RowAt(a) \in Rows
  <2>1. a \in Nat
    BY ONLY PagesFit, n \in Nat, i \in 1 .. Nand.page_size, a = n * Nand.page_size + i - 1, InPage
  <2> QED BY ONLY <2>1, RowIs
<1>4. PICK x \in Byte : x = s[RowAt(a)][ColAt(a)]
  BY ONLY <1>3, ColAt(a) \in Cols, s \in Chips DEF Chips
<1>5. And(x, FF) = x
  BY ONLY x \in Byte, AndFF
<1> QED BY ONLY <1>2, <1>4, <1>5 DEF Within

\* One page more.
LEMMA OneMore ==
  ASSUME NEW s, NEW fl, NEW st \in Nat, NEW n \in Nat, NEW h, h = n + 1,
         \A m \in st .. n - 1 : PageCleared(s, st, fl, m), PageCleared(s, st, fl, n)
  PROVE  \A m \in st .. h - 1 : PageCleared(s, st, fl, m)
<1>1. \A m \in st .. h - 1 : m \in st .. n - 1 \/ m = n
  BY ONLY st \in Nat, n \in Nat, h = n + 1
<1> QED BY ONLY <1>1, \A m \in st .. n - 1 : PageCleared(s, st, fl, m), PageCleared(s, st, fl, n)

LEMMA SkipWrites ==
  ASSUME PagesFit, OpInv, FileHeld, Written, pc = "w", SkipPage
  PROVE  Written'
<1>1. /\ op = NoOp /\ ~eof /\ Fread /\ startingpage' = startingpage /\ nPage' = nPage + 1
      /\ file' = file /\ cells' = cells /\ op' = op /\ AllFF(Chunk)
  BY DEF SkipPage, Writing, Quiet, chip
<1>2. /\ startingpage \in Nat /\ nPage \in Nat /\ at \in Nat /\ at <= Len(file)
  BY ONLY FileHeld, pc = "w" DEF FileHeld
<1>3. file \in Seq(Byte) /\ cells \in Chips
  BY ONLY OpInv DEF OpInv, Typed, Memory, Chips
<1>4. /\ \A n \in startingpage .. nPage - 1 : PageCleared(cells, startingpage, file, n)
      /\ at = (nPage - startingpage) * Nand.page_size
  BY ONLY <1>1, Written, pc = "w" DEF Written
<1>5. /\ PageOf(data', startingpage, file, nPage)
      /\ ~eof' => at' = ((nPage + 1) - startingpage) * Nand.page_size
  BY ONLY <1>1, <1>2, <1>3, <1>4, pc = "w", FreadPage
<1>6. PICK d : d = data'
  OBVIOUS
<1>7. AllFF(d)
  BY ONLY <1>1, <1>6, pc = "w" DEF Chunk
<1>8. PageCleared(cells, startingpage, file, nPage)
  BY ONLY PagesFit, <1>2, <1>3, <1>5, <1>6, <1>7, BlankCleared
<1>9. PICK h : h = nPage + 1
  OBVIOUS
<1>10. \A n \in startingpage .. h - 1 : PageCleared(cells, startingpage, file, n)
  BY ONLY <1>2, <1>4, <1>8, <1>9, OneMore
<1>11. nPage' = h /\ (~eof' => at' = (h - startingpage) * Nand.page_size)
  <2>1. nPage' = h
    BY ONLY <1>1, <1>9
  <2>2. ASSUME ~eof'
        PROVE  at' = (h - startingpage) * Nand.page_size
    <3>1. at' = ((nPage + 1) - startingpage) * Nand.page_size
      BY ONLY <1>5, <2>2
    <3>2. h - startingpage = (nPage + 1) - startingpage
      BY ONLY <1>2, <1>9
    <3> QED BY ONLY <3>1, <3>2, Zenon
  <2> QED BY ONLY <2>1, <2>2
<1>12. op' = NoOp /\ startingpage' = startingpage /\ file' = file /\ cells' = cells
  BY ONLY <1>1
<1> QED BY ONLY <1>10, <1>11, <1>12 DEF Written

LEMMA DoneWrites ==
  ASSUME OpInv, FileHeld, Written, pc = "w", ProgramDone
  PROVE  Written'
<1>1. /\ op # NoOp /\ todo = <<>> /\ op' = NoOp /\ cells' = cells /\ nPage' = nPage + 1
      /\ startingpage' = startingpage /\ file' = file /\ at' = at /\ eof' = eof
  BY DEF ProgramDone, Returned
<1>2. /\ startingpage \in Nat /\ nPage \in Nat
  BY ONLY FileHeld, pc = "w" DEF FileHeld
<1>3. Where /\ pc \in Loops
  BY DEF OpInv, Loops
<1>4. PICK o \in Operations, n \in Nat : o = op /\ Fits(o, n) /\ AtEnd(o, n)
  BY ONLY <1>1, <1>3, LoopEnd
<1>5. acted
  <2>1. o.kind = "program"
    BY ONLY <1>4, pc = "w" DEF Fits
  <2> QED BY ONLY <1>4, <2>1 DEF AtEnd, Did
<1>6. /\ \A m \in startingpage .. nPage - 1 : PageCleared(cells, startingpage, file, m)
      /\ PageCleared(cells, startingpage, file, nPage)
      /\ ~eof => at = ((nPage + 1) - startingpage) * Nand.page_size
  BY ONLY <1>1, <1>5, Written, pc = "w" DEF Written
<1>7. PICK h : h = nPage + 1
  OBVIOUS
<1>8. \A m \in startingpage .. h - 1 : PageCleared(cells, startingpage, file, m)
  BY ONLY <1>2, <1>6, <1>7, OneMore
<1>9. nPage' = h /\ (~eof' => at' = (h - startingpage) * Nand.page_size)
  <2>1. nPage' = h
    BY ONLY <1>1, <1>7
  <2>2. at' = at /\ eof' = eof
    BY ONLY <1>1
  <2>3. ASSUME ~eof
        PROVE  at = (h - startingpage) * Nand.page_size
    <3>1. at = ((nPage + 1) - startingpage) * Nand.page_size
      BY ONLY <1>6, <2>3
    <3>2. h - startingpage = (nPage + 1) - startingpage
      BY ONLY <1>2, <1>7
    <3> QED BY ONLY <3>1, <3>2, Zenon
  <2> QED BY ONLY <2>1, <2>2, <2>3
<1>10. op' = NoOp /\ startingpage' = startingpage /\ file' = file /\ cells' = cells
  BY ONLY <1>1
<1> QED BY ONLY <1>8, <1>9, <1>10 DEF Written

LEMMA LoopWrites ==
  ASSUME PagesFit, OpInv, FileHeld, Written, pc = "w", pc' = "w", Loop
  PROVE  Written'
<1>1. SkipPage \/ Program \/ ProgramDone
  BY DEF Loop, Erase, Ready, EraseDone, Read, ReadDone, Overrun, LoopDone
<1> QED BY ONLY <1>1, PagesFit, OpInv, FileHeld, Written, pc = "w", SkipWrites, ProgramWrites, DoneWrites

LEMMA WrittenStepwise ==
  ASSUME PagesFit, FileInv, OpInv, Filed, Written, InStep', [Next]_vars
  PROVE  Written'
<1> FileHeld /\ IsSeq(mishaps)
  BY DEF FileInv, Buffers
<1>1. CASE pc' # "w"
  BY ONLY <1>1 DEF Written
<1>2. CASE pc = "w" /\ pc' = "w"
  <2>1. CASE Bus \/ Failure
    <3>1. UNCHANGED <<cells, op, acted, stopped>>
      <4>1. pc \in Loops
        BY <1>2 DEF Loops
      <4> QED BY ONLY <2>1, <4>1, IsSeq(mishaps), OpInv, Filed, InStep', BusInLoop
    <3>2. UNCHANGED <<startingpage, nPage, file, at, eof>>
      BY <2>1 DEF Bus, Failure, main
    <3> QED BY ONLY <1>2, <3>1, <3>2, Written, WrittenStays
  <2>2. CASE Chip
    BY ONLY <1>2, <2>2, PagesFit, OpInv, FileHeld, Written, ChipWrites
  <2>3. CASE Loop
    BY ONLY <1>2, <2>3, PagesFit, OpInv, FileHeld, Written, LoopWrites
  <2>4. CASE UNCHANGED vars
    <3>1. UNCHANGED <<startingpage, nPage, file, at, eof, op, acted, cells>>
      BY <2>4 DEF vars, main, chip
    <3> QED BY ONLY <1>2, <3>1, Written, WrittenStays
  <2>5. ~(Identified \/ Option \/ Interrupt \/ Restart \/ Finished)
    BY <1>2 DEF Identified, Option, SetErasePage, SetPage, EraseOption, ReadOption, WriteOption,
       EccOption, EndOfLine, TakesOption, Interrupt, Restart, Finished
  <2> QED BY ONLY <2>1, <2>2, <2>3, <2>4, <2>5, [Next]_vars DEF Next
<1>3. CASE pc # "w" /\ pc' = "w"
  <2>1. Option
    BY <1>3 DEF Next, vars, Bus, Failure, Chip, Identified, Loop, Erase, EraseDone, SkipPage, Program,
       ProgramDone, Read, ReadDone, Overrun, LoopDone, Interrupt, Restart, StartsProcess, Finished
  <2>2. PICK n \in Counts, k \in {"w", "W"} : WriteOption(k, n)
    BY <1>3, <2>1 DEF Option, SetErasePage, SetPage, EraseOption, ReadOption, EccOption, EndOfLine,
       TakesOption
  <2> QED BY ONLY <2>2, OpInv, FileHeld, WriteBegins
<1> QED BY ONLY <1>1, <1>2, <1>3

\* Until an update of a pin is lost or a wait ends before the chip is ready, -w
\* leaves no bit set that the file has clear, on any page it is done with and as far
\* as its row reaches, for every chip whose pages lie side by side in a span of
\* columns: skipped pages, the tail of the last buffer and a status that is ignored,
\* read or not, notwithstanding.
THEOREM WritesClearBits ==
  ASSUME EccOnSequences, EccInPlace, PagesFit
  PROVE  Spec => []BitsCleared
<1> DEFINE W == InStep => Written
<1>1. Init => W
  BY DEF Init, Written
<1>2. Everything /\ W /\ [Next]_vars => W'
  <2> SUFFICES ASSUME Everything, W, [Next]_vars, InStep'
               PROVE  Written'
    BY DEF InStep, Had
  <2>1. FileInv /\ IsSeq(mishaps)
    BY DEF Everything, IInv, FileInv, Buffers
  <2>2. InStep
    BY <2>1, NoneUndone DEF InStep
  <2> QED BY <2>1, <2>2, PagesFit, WrittenStepwise DEF Everything
<1>3. Everything /\ W => BitsCleared
  <2> SUFFICES ASSUME Everything, W, InStep, pc = "w", op = NoOp,
                      NEW n \in startingpage .. nPage - 1, NEW i \in 1 .. Nand.page_size, NEW f, NEW a,
                      f = (n - startingpage) * Nand.page_size + i, a = PageAddress(n) + i - 1,
                      f \in DOMAIN file, ColAt(a) \in Cols
               PROVE  And(cells[RowAt(a)][ColAt(a)], file[f]) = cells[RowAt(a)][ColAt(a)]
    BY DEF BitsCleared
  <2>1. PageCleared(cells, startingpage, file, n)
    BY ONLY W, InStep, pc = "w", n \in startingpage .. nPage - 1 DEF Written
  <2>2. a = n * Nand.page_size + i - 1
    BY ONLY a = PageAddress(n) + i - 1, pc = "w" DEF PageAddress, ChunkSize
  <2>3. Within(cells[RowAt(a)][ColAt(a)], file[f])
    BY ONLY <2>1, <2>2, i \in 1 .. Nand.page_size, f = (n - startingpage) * Nand.page_size + i,
       f \in DOMAIN file, ColAt(a) \in Cols DEF PageCleared
  <2> QED BY ONLY <2>3 DEF Within
<1> QED BY <1>1, <1>2, <1>3, EverythingHolds, PTL DEF Spec
================================================================================
