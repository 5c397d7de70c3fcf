----------------------------- MODULE EchoProofs -----------------------------
(***************************************************************************)
(* Safety of EpollEcho for any clients, any number of bytes and any sizes  *)
(* of line and of the kernel's buffers.                                    *)
(*                                                                         *)
(* What a client is owed is followed as one sequence: the bytes it has     *)
(* received, those on their way to it, those in line that are its own, and *)
(* those not read yet.  While its bytes did not meet another connection's, *)
(* these are the bytes it has sent, in order, some cut out by short        *)
(* writes.                                                                 *)
(***************************************************************************)
EXTENDS EpollEcho, FiniteSetTheorems, SequenceTheorems, TLAPS

Byte == Clients \X Nat

\* Three sequences joined one after another make the same sequence from either end.
Associates(s, t, u) == (s \o t) \o u = s \o (t \o u)

\* So do any three of these.
LEMMA JoinAssociates == \A s, t, u \in Seq(Byte) : Associates(s, t, u)
BY ConcatAssociative, SMT DEF Associates

EeType ==
  /\ pc \in {"wait", "events", "read", "exit", "killed"}
  /\ batch \in Seq(Clients \union {LISTEN})
  /\ line \in Seq(Byte)
  /\ conn \in [Clients -> {"none", "queued", "open", "closed"}]
  /\ watch \in [Clients -> {"in", "out"}] /\ armed \in [Clients -> BOOLEAN]
  /\ inbox \in [Clients -> Seq(Byte)] /\ outbox \in [Clients -> Seq(Byte)]
  /\ got \in [Clients -> Seq(Byte)]
  /\ \A c \in Clients : Len(outbox[c]) <= SockBuf
  /\ sent \in [Clients -> Nat]
  /\ gone \in [Clients -> {"no", "fin", "rst"}]

\* A connection has one event in a batch, and only its own event closes it.
BatchOpen ==
  /\ \A i, j \in DOMAIN batch : batch[i] = batch[j] => i = j
  /\ \A i \in DOMAIN batch : batch[i] # LISTEN => conn[batch[i]] = "open"

\* While one connection is read, the others that wait to be written have met it.
ReadingMixes ==
  pc = "read" =>
    /\ batch # << >> /\ Head(batch) # LISTEN
    /\ watch[Head(batch)] = "in" /\ Awaiting \subseteq mixed

\* line holds bytes of c: it is being read, or waits to be written.
Holds(c) == \/ conn[c] = "open" /\ watch[c] = "out"
            \/ pc = "read" /\ batch # << >> /\ Head(batch) = c

Held(c) == IF Holds(c) THEN line ELSE << >>

Stream(c) == Echoed(c) \o (Held(c) \o inbox[c])

\* Bytes of c in order, of the first n it sent.
Bytes(s, c, n) == Own(c, s) /\ InOrder(s) /\ \A i \in DOMAIN s : s[i][2] <= n

\* Without a gap.
Exact(s) == \A i \in DOMAIN s : s[i][2] = i

StreamOf(c) ==
  c \notin mixed =>
    /\ Bytes(Echoed(c), c, sent[c]) /\ (c \notin cut => Exact(Echoed(c)))
    /\ Len(Stream(c)) <= sent[c]
    /\ gone[c] = "no" =>
         /\ Bytes(Stream(c), c, sent[c])
         /\ c \notin cut => Exact(Stream(c)) /\ (conn[c] # "closed" => Len(Stream(c)) = sent[c])

\* What a client that does not flood has in line and before it fits.
Fits(c) == c \notin flood \union mixed => Len(Held(c)) + Len(inbox[c]) < LineCap

\* Before it is accepted nothing of a client is in line; its side is there to be hung up.
ClosedFor(c) == conn[c] = "closed" /\ gone[c] = "no" => c \in flood \union mixed

Answered(c) == StreamOf(c) /\ Fits(c) /\ ClosedFor(c)

EeInv == EeType /\ BatchOpen /\ ReadingMixes /\ \A c \in Clients : Answered(c)

------------------------------------------------------------------------------
(* Sequences of bytes.                                                     *)

\* What is picked from bytes in order is in order.
LEMMA Picked ==
  ASSUME NEW s \in Seq(Byte), NEW t \in Seq(Byte), NEW c, NEW n, Bytes(s, c, n),
         NEW F, \A i \in 1..Len(t) : F[i] \in 1..Len(s) /\ t[i] = s[F[i]],
         \A i, j \in 1..Len(t) : i < j => F[i] < F[j]
  PROVE  Bytes(t, c, n)
<1>1. DOMAIN t = 1..Len(t) /\ DOMAIN s = 1..Len(s)
  BY LenProperties
<1>2. Own(c, t)
  BY <1>1 DEF Own, Bytes
<1>3. InOrder(t)
  BY <1>1 DEF InOrder, Bytes
<1>4. \A i \in DOMAIN t : t[i][2] <= n
  BY <1>1 DEF Bytes
<1> QED BY <1>2, <1>3, <1>4 DEF Bytes

\* The first part of bytes in order.
LEMMA FirstPart ==
  ASSUME NEW e \in Seq(Byte), NEW r \in Seq(Byte), NEW c, NEW n
  PROVE  /\ Bytes(e \o r, c, n) => Bytes(e, c, n)
         /\ Exact(e \o r) => Exact(e)
         /\ Len(e \o r) = Len(e) + Len(r) /\ Len(e) \in Nat /\ Len(r) \in Nat
<1>1. /\ e \o r \in Seq(Byte) /\ Len(e \o r) = Len(e) + Len(r) /\ Len(e) \in Nat /\ Len(r) \in Nat
      /\ \A i \in 1..Len(e) : i \in 1..Len(e \o r) /\ (e \o r)[i] = e[i]
  BY ConcatProperties, LenProperties
<1>2. Bytes(e \o r, c, n) => Bytes(e, c, n)
  <2> DEFINE F == [i \in 1..Len(e) |-> i]
  <2>1. /\ \A i \in 1..Len(e) : F[i] \in 1..Len(e \o r) /\ e[i] = (e \o r)[F[i]]
        /\ \A i, j \in 1..Len(e) : i < j => F[i] < F[j]
    BY <1>1
  <2> HIDE DEF F
  <2> QED BY <1>1, <2>1, Picked
<1>3. Exact(e \o r) => Exact(e)
  BY <1>1, LenProperties DEF Exact
<1> QED BY <1>1, <1>2, <1>3

\* A short write cuts some bytes out of the middle.
LEMMA MiddleCut ==
  ASSUME NEW e \in Seq(Byte), NEW l \in Seq(Byte), NEW b \in Seq(Byte), NEW k \in 0..Len(l), NEW c, NEW n,
         Bytes(e \o (l \o b), c, n)
  PROVE  Bytes((e \o SubSeq(l, 1, k)) \o b, c, n)
<1>1. Len(e) \in Nat /\ Len(l) \in Nat /\ Len(b) \in Nat /\ k \in Nat /\ k <= Len(l)
  BY LenProperties
<1> DEFINE m == SubSeq(l, 1, k)
           s == e \o (l \o b)
           t == (e \o m) \o b
           F == [i \in 1..(Len(e) + k + Len(b)) |-> IF i <= Len(e) + k THEN i ELSE i + Len(l) - k]
<1>2. m \in Seq(Byte) /\ Len(m) = k /\ \A i \in 1..k : m[i] = l[i]
  <2>1. \A i \in 1..k : l[i] \in Byte
    BY <1>1, ElementOfSeq
  <2> QED BY <1>1, <2>1, SubSeqProperties
<1> HIDE DEF m
<1>3. l \o b \in Seq(Byte) /\ e \o m \in Seq(Byte)
  BY <1>2, ConcatProperties
<1>4. /\ s \in Seq(Byte) /\ Len(s) = Len(e) + Len(l) + Len(b)
      /\ \A i \in 1..(Len(e) + Len(l)) : s[i] = IF i <= Len(e) THEN e[i] ELSE l[i - Len(e)]
      /\ \A i \in (Len(e) + Len(l) + 1)..(Len(e) + Len(l) + Len(b)) : s[i] = b[i - Len(e) - Len(l)]
  <2>1. /\ Len(l \o b) = Len(l) + Len(b)
        /\ \A i \in 1..(Len(l) + Len(b)) : (l \o b)[i] = IF i <= Len(l) THEN l[i] ELSE b[i - Len(l)]
    BY ConcatProperties
  <2>2. /\ s \in Seq(Byte) /\ Len(s) = Len(e) + Len(l \o b)
        /\ \A i \in 1..(Len(e) + Len(l \o b)) : s[i] = IF i <= Len(e) THEN e[i] ELSE (l \o b)[i - Len(e)]
    BY <1>3, ConcatProperties
  <2> HIDE DEF s
  <2>3. s \in Seq(Byte) /\ Len(s) = Len(e) + Len(l) + Len(b)
    BY <1>1, <2>1, <2>2
  <2>4. \A i \in 1..(Len(e) + Len(l)) : i \in 1..(Len(e) + Len(l \o b)) /\ (i > Len(e) => i - Len(e) \in 1..(Len(l) + Len(b)) /\ i - Len(e) <= Len(l))
    BY <1>1, <2>1
  <2>5. \A i \in 1..(Len(e) + Len(l)) : s[i] = IF i <= Len(e) THEN e[i] ELSE l[i - Len(e)]
    BY <1>1, <2>1, <2>2, <2>4
  <2>6. ASSUME NEW i \in (Len(e) + Len(l) + 1)..(Len(e) + Len(l) + Len(b)) PROVE s[i] = b[i - Len(e) - Len(l)]
    <3>1. /\ i \in 1..(Len(e) + Len(l \o b)) /\ ~(i <= Len(e))
          /\ i - Len(e) \in 1..(Len(l) + Len(b)) /\ ~(i - Len(e) <= Len(l))
      BY <1>1, <2>1, <2>6
    <3>2. s[i] = (l \o b)[i - Len(e)]
      BY <2>2, <3>1
    <3> QED BY <2>1, <3>1, <3>2
  <2> QED BY <2>3, <2>5, <2>6
<1>5. /\ t \in Seq(Byte) /\ Len(t) = Len(e) + k + Len(b)
      /\ \A i \in 1..(Len(e) + k) : t[i] = IF i <= Len(e) THEN e[i] ELSE l[i - Len(e)]
      /\ \A i \in (Len(e) + k + 1)..(Len(e) + k + Len(b)) : t[i] = b[i - Len(e) - k]
  <2>1. /\ Len(e \o m) = Len(e) + k
        /\ \A i \in 1..(Len(e) + k) : (e \o m)[i] = IF i <= Len(e) THEN e[i] ELSE m[i - Len(e)]
    BY <1>2, ConcatProperties
  <2>2. /\ t \in Seq(Byte) /\ Len(t) = Len(e \o m) + Len(b)
        /\ \A i \in 1..(Len(e \o m) + Len(b)) :
             t[i] = IF i <= Len(e \o m) THEN (e \o m)[i] ELSE b[i - Len(e \o m)]
    BY <1>3, ConcatProperties
  <2> HIDE DEF t
  <2>3. t \in Seq(Byte) /\ Len(t) = Len(e) + k + Len(b)
    BY <2>1, <2>2
  <2>4. \A i \in 1..(Len(e) + k) : t[i] = (e \o m)[i] /\ (i > Len(e) => i - Len(e) \in 1..k)
    BY <1>1, <2>1, <2>2
  <2>5. \A i \in 1..(Len(e) + k) : t[i] = IF i <= Len(e) THEN e[i] ELSE l[i - Len(e)]
    <3> SUFFICES ASSUME NEW i \in 1..(Len(e) + k) PROVE t[i] = IF i <= Len(e) THEN e[i] ELSE l[i - Len(e)]
      OBVIOUS
    <3>1. CASE i <= Len(e)
      BY <2>1, <2>4, <3>1
    <3>2. CASE i > Len(e)
      <4>1. t[i] = m[i - Len(e)] /\ i - Len(e) \in 1..k
        BY <1>1, <2>1, <2>4, <3>2
      <4> QED BY <1>1, <1>2, <3>2, <4>1
    <3> QED BY <1>1, <3>1, <3>2
  <2>6. \A i \in (Len(e) + k + 1)..(Len(e) + k + Len(b)) : t[i] = b[i - Len(e) - k]
    BY <1>1, <2>1, <2>2
  <2> QED BY <2>3, <2>5, <2>6
<1> HIDE DEF s, t
<1>6. \A i \in 1..Len(t) : F[i] \in 1..Len(s) /\ t[i] = s[F[i]]
  <2> SUFFICES ASSUME NEW i \in 1..Len(t) PROVE F[i] \in 1..Len(s) /\ t[i] = s[F[i]]
    OBVIOUS
  <2>1. CASE i <= Len(e) + k
    <3>1. i \in 1..(Len(e) + k) /\ i \in 1..(Len(e) + Len(l)) /\ i \in 1..Len(s) /\ F[i] = i
      BY <1>1, <1>4, <1>5, <2>1
    <3>2. s[i] = IF i <= Len(e) THEN e[i] ELSE l[i - Len(e)]
      BY <1>4, <3>1
    <3>3. t[i] = IF i <= Len(e) THEN e[i] ELSE l[i - Len(e)]
      BY <1>5, <3>1
    <3> HIDE DEF F
    <3> QED BY <3>1, <3>2, <3>3
  <2>2. CASE i > Len(e) + k
    <3>1. F[i] = i + Len(l) - k
      BY <1>1, <1>5, <2>2
    <3>2. i \in (Len(e) + k + 1)..(Len(e) + k + Len(b))
      BY <1>1, <1>5, <2>2
    <3> HIDE DEF F
    <3>3. /\ F[i] \in (Len(e) + Len(l) + 1)..(Len(e) + Len(l) + Len(b))
          /\ F[i] - Len(e) - Len(l) = i - Len(e) - k
      BY <1>1, <3>1, <3>2
    <3>4. t[i] = b[i - Len(e) - k] /\ s[F[i]] = b[F[i] - Len(e) - Len(l)]
      BY <1>4, <1>5, <3>2, <3>3
    <3>5. F[i] \in 1..Len(s)
      BY <1>1, <1>4, <3>3
    <3> QED BY <3>3, <3>4, <3>5
  <2> QED BY <1>1, <1>5, <2>1, <2>2
<1>7. \A i, j \in 1..Len(t) : i < j => F[i] < F[j]
  BY <1>1, <1>5
<1>8. Bytes(s, c, n)
  BY DEF s
<1> HIDE DEF F
<1>9. Bytes(t, c, n)
  BY <1>4, <1>5, <1>6, <1>7, <1>8, Picked
<1> QED BY <1>9 DEF t, m

\* The next byte a client sends.
LEMMA OneMore ==
  ASSUME NEW s \in Seq(Byte), NEW c \in Clients, NEW n \in Nat
  PROVE  /\ Append(s, <<c, n + 1>>) \in Seq(Byte)
         /\ Len(Append(s, <<c, n + 1>>)) = Len(s) + 1 /\ Len(s) \in Nat
         /\ Bytes(s, c, n) => Bytes(Append(s, <<c, n + 1>>), c, n + 1)
         /\ Exact(s) /\ Len(s) = n => Exact(Append(s, <<c, n + 1>>))
<1> DEFINE x == <<c, n + 1>>
           t == Append(s, x)
<1>0. x \in Byte /\ x[1] = c /\ x[2] = n + 1
  BY DEF Byte
<1>1. /\ t \in Seq(Byte) /\ Len(t) = Len(s) + 1 /\ Len(s) \in Nat
      /\ DOMAIN t = 1..(Len(s) + 1) /\ DOMAIN s = 1..Len(s)
      /\ \A i \in 1..Len(s) : t[i] = s[i] /\ t[Len(s) + 1] = x
      /\ t[Len(s) + 1] = x
  BY <1>0, AppendProperties, LenProperties
<1> HIDE DEF t, x
<1>2. \A i \in DOMAIN s : s[i][2] \in Nat
  BY <1>1, ElementOfSeq DEF Byte
<1>3. ASSUME Bytes(s, c, n) PROVE Bytes(t, c, n + 1)
  <2>1. Own(c, t)
    BY <1>0, <1>1, <1>3 DEF Bytes, Own
  <2>2. InOrder(t)
    BY <1>0, <1>1, <1>2, <1>3 DEF Bytes, InOrder
  <2>3. \A i \in DOMAIN t : t[i][2] <= n + 1
    BY <1>0, <1>1, <1>2, <1>3 DEF Bytes
  <2> QED BY <2>1, <2>2, <2>3 DEF Bytes
<1>4. ASSUME Exact(s), Len(s) = n PROVE Exact(t)
  BY <1>0, <1>1, <1>4 DEF Exact
<1> QED BY <1>1, <1>3, <1>4 DEF t, x

\* A byte taken from the front of the one to the end of the other.
LEMMA HeadMoves ==
  ASSUME NEW S, NEW g \in Seq(S), NEW o \in Seq(S), o # << >>
  PROVE  /\ Append(g, Head(o)) \in Seq(S) /\ Tail(o) \in Seq(S) /\ Len(Tail(o)) = Len(o) - 1
         /\ Append(g, Head(o)) \o Tail(o) = g \o o
<1>1. Head(o) = o[1] /\ Len(o) \in Nat \ {0} /\ o[1] \in S
  BY EmptySeq, ElementOfSeq
<1>2. /\ Tail(o) \in Seq(S) /\ Len(Tail(o)) = Len(o) - 1
      /\ \A i \in 1..(Len(o) - 1) : Tail(o)[i] = o[i + 1]
  BY HeadTailProperties
<1> DEFINE a == Append(g, Head(o))
           u == Tail(o)
<1>3. /\ a \in Seq(S) /\ Len(a) = Len(g) + 1 /\ Len(g) \in Nat
      /\ \A i \in 1..Len(g) : a[i] = g[i]
      /\ a[Len(g) + 1] = o[1]
  BY <1>1, AppendProperties, LenProperties
<1>8. /\ u \in Seq(S) /\ Len(u) = Len(o) - 1
      /\ \A i \in 1..(Len(o) - 1) : u[i] = o[i + 1]
  BY <1>2
<1> HIDE DEF a, u
<1>4. /\ a \o u \in Seq(S) /\ Len(a \o u) = Len(g) + Len(o)
      /\ \A i \in 1..(Len(g) + Len(o)) : (a \o u)[i] = IF i <= Len(g) + 1 THEN a[i] ELSE u[i - (Len(g) + 1)]
  <2>1. /\ a \o u \in Seq(S) /\ Len(a \o u) = Len(a) + Len(u)
        /\ \A i \in 1..(Len(a) + Len(u)) : (a \o u)[i] = IF i <= Len(a) THEN a[i] ELSE u[i - Len(a)]
    BY <1>3, <1>8, ConcatProperties
  <2>2. Len(a) + Len(u) = Len(g) + Len(o)
    BY <1>1, <1>3, <1>8
  <2> QED BY <1>3, <2>1, <2>2
<1>5. /\ g \o o \in Seq(S) /\ Len(g \o o) = Len(g) + Len(o)
      /\ \A i \in 1..(Len(g) + Len(o)) : (g \o o)[i] = IF i <= Len(g) THEN g[i] ELSE o[i - Len(g)]
  BY ConcatProperties
<1>6. \A i \in 1..(Len(g) + Len(o)) : (a \o u)[i] = (g \o o)[i]
  <2> SUFFICES ASSUME NEW i \in 1..(Len(g) + Len(o)) PROVE (a \o u)[i] = (g \o o)[i]
    OBVIOUS
  <2>1. CASE i <= Len(g)
    BY <1>1, <1>3, <1>4, <1>5, <2>1
  <2>2. CASE i = Len(g) + 1
    BY <1>1, <1>3, <1>4, <1>5, <2>2
  <2>3. CASE i > Len(g) + 1
    <3>1. i - (Len(g) + 1) \in 1..(Len(o) - 1) /\ i - (Len(g) + 1) + 1 = i - Len(g)
      BY <1>1, <1>3, <2>3
    <3>2. (a \o u)[i] = u[i - (Len(g) + 1)] /\ (g \o o)[i] = o[i - Len(g)]
      BY <1>1, <1>3, <1>4, <1>5, <2>3
    <3>3. u[i - (Len(g) + 1)] = o[i - Len(g)]
      BY <1>8, <3>1
    <3> QED BY <3>2, <3>3
  <2>4. i <= Len(g) \/ i = Len(g) + 1 \/ i > Len(g) + 1
    BY <1>1, <1>3
  <2> QED BY <2>1, <2>2, <2>3, <2>4, Zenon
<1>7. a \o u = g \o o
  BY <1>4, <1>5, <1>6, SeqEqual
<1> QED BY <1>2, <1>3, <1>7 DEF a, u

\* Bytes read from what came go to the end of line.
LEMMA FrontMoves ==
  ASSUME NEW l \in Seq(Byte), NEW b \in Seq(Byte), NEW n \in 0..Len(b)
  PROVE  /\ l \o SubSeq(b, 1, n) \in Seq(Byte) /\ SubSeq(b, n + 1, Len(b)) \in Seq(Byte)
         /\ (l \o SubSeq(b, 1, n)) \o SubSeq(b, n + 1, Len(b)) = l \o b
         /\ Len(l \o SubSeq(b, 1, n)) = Len(l) + n /\ Len(SubSeq(b, n + 1, Len(b))) = Len(b) - n
<1>1. Len(b) \in Nat /\ Len(l) \in Nat /\ \A i \in 1..Len(b) : b[i] \in Byte
  BY LenProperties, ElementOfSeq
<1>2. SubSeq(b, 1, n) \in Seq(Byte) /\ Len(SubSeq(b, 1, n)) = n
  BY <1>1, SubSeqProperties
<1>3. SubSeq(b, n + 1, Len(b)) \in Seq(Byte) /\ Len(SubSeq(b, n + 1, Len(b))) = Len(b) - n
  BY <1>1, SubSeqProperties
<1>4. SubSeq(b, 1, n) \o SubSeq(b, n + 1, Len(b)) = b
  <2>1. 1 \in 1..(Len(b) + 1) /\ n \in (1 - 1)..Len(b) /\ Len(b) \in n..Len(b)
    BY <1>1
  <2>2. SubSeq(b, 1, n) \o SubSeq(b, n + 1, Len(b)) = SubSeq(b, 1, Len(b))
    BY <2>1, ConcatAdjacentSubSeq
  <2> QED BY <2>2, SubSeqFull
<1>6. \A x \in Seq(Byte) : l \o x \in Seq(Byte) /\ Len(l \o x) = Len(l) + Len(x)
  BY ConcatProperties
<1>7. (l \o SubSeq(b, 1, n)) \o SubSeq(b, n + 1, Len(b)) = l \o b
  <2>1. ASSUME NEW x \in Seq(Byte), NEW y \in Seq(Byte), x \o y = b PROVE (l \o x) \o y = l \o b
    <3>1. Associates(l, x, y)
      BY JoinAssociates, Zenon
    <3> QED BY <2>1, <3>1, Zenon DEF Associates
  <2> QED BY <1>2, <1>3, <1>4, <2>1, Zenon
<1>8. l \o SubSeq(b, 1, n) \in Seq(Byte) /\ Len(l \o SubSeq(b, 1, n)) = Len(l) + n
  BY <1>2, <1>6, Zenon
<1> QED BY <1>3, <1>7, <1>8, Zenon

------------------------------------------------------------------------------
(* The server's own state.                                                 *)

\* The constants are numbers of bytes, at least one.
LEMMA Sizes == NBytes \in Nat \ {0} /\ LineCap \in Nat \ {0} /\ SockBuf \in Nat \ {0}
BY EpollAssumption

\* What Init sets up satisfies the invariant.
LEMMA EeInitially == Init => EeInv
<1> SUFFICES ASSUME Init PROVE EeInv
  OBVIOUS
<1>1. << >> \in Seq(Byte) /\ << >> \in Seq(Clients \union {LISTEN}) /\ Len(<< >>) = 0
  BY EmptySeq
<1>2. EeType
  BY <1>1, Sizes DEF Init, EeType
<1>3. BatchOpen /\ ReadingMixes
  BY <1>1 DEF Init, BatchOpen, ReadingMixes
<1>4. ASSUME NEW c \in Clients PROVE Answered(c)
  <2>1. /\ Echoed(c) = << >> /\ Held(c) = << >> /\ Stream(c) = << >>
    <3>1. << >> \o << >> = << >>
      BY <1>1, ConcatEmptySeq
    <3> QED BY <3>1 DEF Init, Echoed, Held, Holds, Stream
  <2>2. Bytes(<< >>, c, 0) /\ Exact(<< >>)
    BY DEF Bytes, Exact, Own, InOrder
  <2>3. sent[c] = 0 /\ inbox[c] = << >> /\ conn[c] = "none"
    BY DEF Init
  <2> QED BY <1>1, <2>1, <2>2, <2>3, Sizes DEF Answered, StreamOf, Fits, ClosedFor
<1> QED BY <1>2, <1>3, <1>4 DEF EeInv

\* Dropping the handled event from the batch.
LEMMA OneHandled ==
  ASSUME EeType, BatchOpen, batch # << >>
  PROVE  /\ Tail(batch) \in Seq(Clients \union {LISTEN})
         /\ \A i, j \in DOMAIN Tail(batch) : Tail(batch)[i] = Tail(batch)[j] => i = j
         /\ \A i \in DOMAIN Tail(batch) : /\ Tail(batch)[i] # Head(batch)
                                          /\ Tail(batch)[i] # LISTEN => conn[Tail(batch)[i]] = "open"
         /\ Head(batch) \in Clients \union {LISTEN}
         /\ Head(batch) # LISTEN => conn[Head(batch)] = "open"
<1> DEFINE t == Tail(batch)
<1>1. batch \in Seq(Clients \union {LISTEN}) /\ Len(batch) \in Nat \ {0} /\ DOMAIN batch = 1..Len(batch)
  BY EmptySeq, LenProperties DEF EeType
<1>2. t \in Seq(Clients \union {LISTEN}) /\ Len(t) = Len(batch) - 1 /\ Head(batch) = batch[1]
      /\ DOMAIN t = 1..(Len(batch) - 1) /\ \A i \in 1..(Len(batch) - 1) : t[i] = batch[i + 1]
  <2>1. t \in Seq(Clients \union {LISTEN}) /\ Len(t) = Len(batch) - 1
        /\ \A i \in 1..Len(t) : t[i] = batch[i + 1]
    BY <1>1, HeadTailProperties
  <2>2. DOMAIN t = 1..Len(t)
    BY <2>1, LenProperties
  <2>3. Head(batch) = batch[1]
    BY <1>1
  <2> QED BY <2>1, <2>2, <2>3
<1> HIDE DEF t
<1>3. \A i \in DOMAIN t : i \in Nat /\ 1 \in DOMAIN batch /\ i + 1 \in DOMAIN batch /\ i + 1 # 1
  BY <1>1, <1>2
<1>4. \A i, j \in DOMAIN t : t[i] = t[j] => i = j
  <2> SUFFICES ASSUME NEW i \in DOMAIN t, NEW j \in DOMAIN t, t[i] = t[j] PROVE i = j
    OBVIOUS
  <2>1. i + 1 = j + 1
    BY <1>2, <1>3 DEF BatchOpen
  <2> QED BY <1>3, <2>1
<1>5. \A i \in DOMAIN t : t[i] # Head(batch) /\ (t[i] # LISTEN => conn[t[i]] = "open")
  BY <1>2, <1>3 DEF BatchOpen
<1>6. Head(batch) \in Clients \union {LISTEN} /\ (Head(batch) # LISTEN => conn[Head(batch)] = "open")
  BY <1>1, <1>2, ElementOfSeq DEF BatchOpen
<1> QED BY <1>2, <1>4, <1>5, <1>6 DEF t

\* What epoll_wait reports: each thing that is due once, in some order.
LEMMA Reported ==
  ASSUME NEW q \in SetToSeqs(Due)
  PROVE  /\ q \in Seq(Clients \union {LISTEN})
         /\ \A i, j \in DOMAIN q : q[i] = q[j] => i = j
         /\ \A i \in DOMAIN q : q[i] # LISTEN => conn[q[i]] = "open"
<1> DEFINE k == Cardinality(Due)
<1>1. Due \subseteq Clients \union {LISTEN} /\ \A x \in Due : x # LISTEN => conn[x] = "open"
  BY DEF Due
<1>2. k \in Nat
  <2>1. IsFiniteSet(Clients \union {LISTEN})
    BY EpollAssumption, FS_AddElement
  <2>2. IsFiniteSet(Due)
    BY <1>1, <2>1, FS_Subset
  <2> QED BY <2>2, FS_CardinalityType
<1>3. q \in [1..k -> Due] /\ \A i, j \in 1..k : i # j => q[i] # q[j]
  BY DEF SetToSeqs
<1> HIDE DEF k
<1>4. q \in [1..k -> Clients \union {LISTEN}]
  BY <1>1, <1>3
<1>5. q \in Seq(Clients \union {LISTEN})
  BY <1>2, <1>4, SeqDef
<1> QED BY <1>1, <1>3, <1>5

\* Registering a connection again.
LEMMA RegisterType ==
  ASSUME EeType, NEW c \in Clients, NEW ev \in {"in", "out"}, Register(c, ev)
  PROVE  watch' \in [Clients -> {"in", "out"}] /\ armed' \in [Clients -> BOOLEAN]
BY DEF EeType, Register

\* Closing a connection.
LEMMA CloseType ==
  ASSUME EeType, NEW c \in Clients, CloseFd(c)
  PROVE  /\ conn' \in [Clients -> {"none", "queued", "open", "closed"}]
         /\ inbox' \in [Clients -> Seq(Byte)]
         /\ watch' \in [Clients -> {"in", "out"}] /\ armed' \in [Clients -> BOOLEAN]
BY EmptySeq DEF EeType, CloseFd

\* The event at the head of the batch is done.
LEMMA DoneType ==
  ASSUME EeType, BatchOpen, batch # << >>, EventDone
  PROVE  pc' \in {"wait", "events"} /\ batch' \in Seq(Clients \union {LISTEN})
BY OneHandled DEF EventDone

\* How many bytes a write takes.
LEMMA Written ==
  ASSUME EeType, NEW c \in Clients
  PROVE  /\ Least(SockBuf - Len(outbox[c]), Len(line)) \in 0..Len(line)
         /\ Least(SockBuf - Len(outbox[c]), Len(line)) + Len(outbox[c]) <= SockBuf
         /\ Len(line) \in Nat /\ Len(outbox[c]) \in Nat
<1>1. Len(line) \in Nat /\ Len(outbox[c]) \in Nat /\ Len(outbox[c]) <= SockBuf /\ SockBuf \in Nat
  BY LenProperties, Sizes DEF EeType
<1>2. \A a \in Int, b \in Nat : a >= 0 => Least(a, b) \in 0..b /\ Least(a, b) <= a
  BY DEF Least
<1> DEFINE a == SockBuf - Len(outbox[c])
           b == Len(line)
<1>3. a \in Int /\ a >= 0 /\ b \in Nat /\ a + Len(outbox[c]) = SockBuf
  BY <1>1
<1>4. Least(a, b) \in 0..b /\ Least(a, b) <= a
  BY <1>2, <1>3
<1> DEFINE x == Least(a, b)
<1> HIDE DEF x
<1>5. x \in 0..b /\ x + Len(outbox[c]) <= SockBuf
  BY <1>1, <1>3, <1>4 DEF x
<1> QED BY <1>1, <1>5 DEF x

\* A client's own steps keep the types.
LEMMA ClientTypes ==
  ASSUME EeType, NEW c \in Clients,
         \/ Connect(c) \/ Send(c) \/ Recv(c) \/ \E how \in {"fin", "rst"} : ClientClose(c, how)
  PROVE  EeType'
<1>1. CASE Connect(c)
  BY <1>1 DEF Connect, EeType, server, client, registered, history
<1>2. CASE Send(c)
  <2>1. sent[c] \in Nat /\ inbox[c] \in Seq(Byte)
    BY DEF EeType
  <2>2. Append(inbox[c], <<c, sent[c] + 1>>) \in Seq(Byte)
    BY <2>1, OneMore
  <2>3. sent' \in [Clients -> Nat] /\ inbox' \in [Clients -> Seq(Byte)] /\ armed' \in [Clients -> BOOLEAN]
    BY <1>2, <2>1, <2>2 DEF Send, EeType
  <2> QED BY <1>2, <2>3 DEF Send, EeType, server, client, registered, history
<1>3. CASE Recv(c)
  <2>1. outbox[c] \in Seq(Byte) /\ got[c] \in Seq(Byte) /\ outbox[c] # << >>
    BY <1>3 DEF EeType, Recv
  <2>2. Append(got[c], Head(outbox[c])) \in Seq(Byte) /\ Tail(outbox[c]) \in Seq(Byte)
        /\ Len(Tail(outbox[c])) = Len(outbox[c]) - 1
    BY <2>1, HeadMoves
  <2>3. got' \in [Clients -> Seq(Byte)] /\ outbox' \in [Clients -> Seq(Byte)]
    BY <1>3, <2>2 DEF Recv, EeType
  <2>4. \A d \in Clients : Len(outbox'[d]) <= SockBuf
    <3>1. Len(outbox[c]) \in Nat /\ Len(outbox[c]) - 1 <= SockBuf
      BY <2>1, LenProperties, Sizes DEF EeType
    <3>2. \A d \in Clients : outbox'[d] = IF d = c THEN Tail(outbox[c]) ELSE outbox[d]
      BY <1>3 DEF Recv, EeType
    <3>3. \A d \in Clients : Len(outbox[d]) <= SockBuf
      BY DEF EeType
    <3> QED BY <2>2, <3>1, <3>2, <3>3
  <2> QED BY <1>3, <2>3, <2>4 DEF Recv, EeType, server, client, registered, history
<1>4. ASSUME NEW how \in {"fin", "rst"}, ClientClose(c, how) PROVE EeType'
  <2>1. gone' \in [Clients -> {"no", "fin", "rst"}] /\ armed' \in [Clients -> BOOLEAN]
    BY <1>4 DEF ClientClose, EeType
  <2>2. outbox' \in [Clients -> Seq(Byte)] /\ \A d \in Clients : Len(outbox'[d]) <= SockBuf
    BY <1>4, EmptySeq, Sizes DEF ClientClose, EeType
  <2> QED BY <1>4, <2>1, <2>2 DEF ClientClose, EeType, server, client, registered, history
<1> QED BY <1>1, <1>2, <1>3, <1>4

\* The steps of the server that concern no connection keep the types.
LEMMA LoopTypes ==
  ASSUME EeType, EpollWait \/ AcceptFails
  PROVE  EeType'
<1>1. CASE EpollWait
  <2>1. batch' \in Seq(Clients \union {LISTEN}) /\ armed' \in [Clients -> BOOLEAN]
    BY <1>1, Reported DEF EpollWait, EeType
  <2> QED BY <1>1, <2>1 DEF EpollWait, EeType, client, history
<1>2. CASE AcceptFails
  BY <1>2 DEF AcceptFails, EeType, client, registered, history
<1> QED BY <1>1, <1>2

\* Reading and writing a connection keep the types.
LEMMA ServerTypes ==
  ASSUME EeType, BatchOpen, NEW c \in Clients,
         \/ Accept(c) \/ StartRead(c) \/ Read(c) \/ ReadAgain(c) \/ ReadZero(c) \/ ReadError(c)
         \/ Write(c) \/ WriteError(c) \/ WritePipe(c) \/ WritePipeKills(c)
  PROVE  EeType'
<1>1. CASE Accept(c)
  BY <1>1, RegisterType, DoneType DEF Accept, EeType, Handling, client, history
<1>2. CASE StartRead(c)
  BY <1>2, EmptySeq DEF StartRead, EeType, client, registered
<1>3. CASE Read(c)
  <2> DEFINE n == Least(Room, Len(inbox[c]))
  <2>1. line \in Seq(Byte) /\ inbox[c] \in Seq(Byte)
    BY DEF EeType
  <2>2. n \in 0..Len(inbox[c])
    BY <1>3, <2>1, LenProperties, Sizes DEF Read, Room, Least
  <2>3. line' = line \o SubSeq(inbox[c], 1, n)
        /\ inbox' = [inbox EXCEPT ![c] = SubSeq(inbox[c], n + 1, Len(inbox[c]))]
    BY <1>3 DEF Read
  <2> HIDE DEF n
  <2>4. line \o SubSeq(inbox[c], 1, n) \in Seq(Byte) /\ SubSeq(inbox[c], n + 1, Len(inbox[c])) \in Seq(Byte)
    BY <2>1, <2>2, FrontMoves
  <2>5. line' \in Seq(Byte) /\ inbox' \in [Clients -> Seq(Byte)]
    BY <2>3, <2>4, Zenon DEF EeType
  <2> QED BY <1>3, <2>5 DEF Read, EeType, client, registered, history
<1>4. CASE ReadAgain(c)
  BY <1>4, RegisterType, DoneType DEF ReadAgain, EeType, Handling, client, history
<1>5. CASE ReadZero(c) \/ ReadError(c)
  <2>1. batch # << >> /\ EventDone /\ CloseFd(c)
    BY <1>5 DEF ReadZero, ReadError, Handling
  <2> QED BY <1>5, <2>1, CloseType, DoneType DEF ReadZero, ReadError, EeType, client, history
<1>6. CASE Write(c)
  <2> DEFINE n == Least(SockBuf - Len(outbox[c]), Len(line))
  <2>1. line \in Seq(Byte) /\ outbox[c] \in Seq(Byte)
    BY DEF EeType
  <2>2. n \in 0..Len(line) /\ n + Len(outbox[c]) <= SockBuf
    BY Written
  <2>3. outbox' = [outbox EXCEPT ![c] = IF gone[c] = "no" THEN outbox[c] \o SubSeq(line, 1, n) ELSE outbox[c]]
    BY <1>6 DEF Write
  <2> HIDE DEF n
  <2>4. outbox[c] \o SubSeq(line, 1, n) \in Seq(Byte)
        /\ Len(outbox[c] \o SubSeq(line, 1, n)) = Len(outbox[c]) + n
    BY <2>1, <2>2, FrontMoves
  <2>5. outbox' \in [Clients -> Seq(Byte)]
    BY <2>3, <2>4, Zenon DEF EeType
  <2>6. \A d \in Clients : Len(outbox'[d]) <= SockBuf
    <3> SUFFICES ASSUME NEW d \in Clients PROVE Len(outbox'[d]) <= SockBuf
      OBVIOUS
    <3>1. CASE d = c /\ gone[c] = "no"
      <4>1. outbox'[d] = outbox[c] \o SubSeq(line, 1, n)
        BY <2>3, <3>1, Zenon DEF EeType
      <4>2. Len(outbox[c]) + n <= SockBuf
        BY <2>1, <2>2, LenProperties, Sizes
      <4> QED BY <2>4, <4>1, <4>2, Zenon
    <3>2. CASE d # c \/ gone[c] # "no"
      <4>1. outbox'[d] = outbox[d]
        BY <2>3, <3>2, Zenon DEF EeType
      <4> QED BY <4>1, Zenon DEF EeType
    <3> QED BY <3>1, <3>2, Zenon
  <2>7. watch' \in [Clients -> {"in", "out"}] /\ armed' \in [Clients -> BOOLEAN]
        /\ pc' \in {"wait", "events"} /\ batch' \in Seq(Clients \union {LISTEN})
    BY <1>6, RegisterType, DoneType DEF Write, Handling
  <2> QED BY <1>6, <2>5, <2>6, <2>7, Zenon DEF Write, EeType, client
<1>7. CASE WriteError(c)
  BY <1>7, RegisterType, DoneType DEF WriteError, EeType, Handling, client, history
<1>8. CASE WritePipe(c)
  BY <1>8, CloseType, EmptySeq DEF WritePipe, EeType, client
<1>9. CASE WritePipeKills(c)
  BY <1>9 DEF WritePipeKills, EeType, client, registered, history
<1> QED BY <1>1, <1>2, <1>3, <1>4, <1>5, <1>6, <1>7, <1>8, <1>9

\* A client's own steps leave the batch alone, and no connection they touch is closed.
LEMMA ClientBatch ==
  ASSUME EeType, BatchOpen, ReadingMixes, NEW c \in Clients,
         \/ Connect(c) \/ Send(c) \/ Recv(c) \/ \E how \in {"fin", "rst"} : ClientClose(c, how)
  PROVE  BatchOpen' /\ ReadingMixes'
<1>1. batch' = batch /\ pc' = pc /\ watch' = watch /\ mixed' = mixed
  BY DEF Connect, Send, Recv, ClientClose, server, registered, history
<1>2. \A d \in Clients : conn'[d] = "open" <=> conn[d] = "open"
  BY DEF Connect, Send, Recv, ClientClose, server, registered, EeType
<1>3. \A i \in DOMAIN batch : batch[i] \in Clients \union {LISTEN}
  BY LenProperties, ElementOfSeq DEF EeType
<1>4. BatchOpen'
  BY <1>1, <1>2, <1>3 DEF BatchOpen
<1>5. Awaiting' = Awaiting
  BY <1>1, <1>2 DEF Awaiting
<1> QED BY <1>1, <1>4, <1>5 DEF ReadingMixes

\* The steps of the server keep the batch to open connections.
LEMMA ServerBatch ==
  ASSUME EeType, BatchOpen, ReadingMixes, ServerStep
  PROVE  BatchOpen' /\ ReadingMixes'
<1>1. CASE EpollWait
  <2>1. BatchOpen'
    BY <1>1, Reported DEF EpollWait, BatchOpen
  <2> QED BY <1>1, <2>1 DEF EpollWait, ReadingMixes
<1>2. CASE AcceptFails
  BY <1>2 DEF AcceptFails, BatchOpen, ReadingMixes, registered
<1>3. ASSUME NEW c \in Clients,
             Accept(c) \/ ReadAgain(c) \/ ReadZero(c) \/ ReadError(c) \/ Write(c) \/ WriteError(c)
      PROVE  BatchOpen' /\ ReadingMixes'
  <2>1. batch # << >> /\ batch' = Tail(batch) /\ pc' # "read"
    BY <1>3 DEF Accept, ReadAgain, ReadZero, ReadError, Write, WriteError, Handling, EventDone
  <2>2. \A d \in Clients : conn[d] = "open" /\ d # Head(batch) => conn'[d] = "open"
    BY <1>3 DEF Accept, ReadAgain, ReadZero, ReadError, Write, WriteError, Handling, CloseFd, EeType
  <2>3. \A i \in DOMAIN Tail(batch) : Tail(batch)[i] \in Clients \union {LISTEN}
    BY <2>1, OneHandled, LenProperties, ElementOfSeq
  <2>4. BatchOpen'
    BY <2>1, <2>2, <2>3, OneHandled DEF BatchOpen
  <2> QED BY <2>1, <2>4 DEF ReadingMixes
<1>4. ASSUME NEW c \in Clients, StartRead(c) PROVE BatchOpen' /\ ReadingMixes'
  <2>1. BatchOpen'
    BY <1>4 DEF StartRead, BatchOpen, registered
  <2>2. Awaiting' = Awaiting
    BY <1>4 DEF StartRead, Awaiting, registered
  <2>3. c # LISTEN
    BY EpollAssumption
  <2> QED BY <1>4, <2>1, <2>2, <2>3 DEF StartRead, ReadingMixes, Handling, registered
<1>5. ASSUME NEW c \in Clients, Read(c) PROVE BatchOpen' /\ ReadingMixes'
  <2>1. BatchOpen'
    BY <1>5 DEF Read, BatchOpen, registered
  <2>2. Awaiting' = Awaiting
    BY <1>5 DEF Read, Awaiting, registered
  <2> QED BY <1>5, <2>1, <2>2 DEF Read, ReadingMixes, registered, history
<1>6. ASSUME NEW c \in Clients, WritePipe(c) PROVE BatchOpen' /\ ReadingMixes'
  BY <1>6 DEF WritePipe, BatchOpen, ReadingMixes
<1>7. ASSUME NEW c \in Clients, WritePipeKills(c) PROVE BatchOpen' /\ ReadingMixes'
  BY <1>7 DEF WritePipeKills, BatchOpen, ReadingMixes, registered
<1> QED BY <1>1, <1>2, <1>3, <1>4, <1>5, <1>6, <1>7 DEF ServerStep

------------------------------------------------------------------------------
(* What each client is answered.                                           *)

\* The parts of what a client is owed are sequences of bytes.
Proper(c) ==
  /\ got[c] \in Seq(Byte) /\ outbox[c] \in Seq(Byte) /\ Held(c) \in Seq(Byte) /\ inbox[c] \in Seq(Byte)
  /\ Echoed(c) \in Seq(Byte) /\ Len(Echoed(c)) = Len(got[c]) + Len(outbox[c])
  /\ Held(c) \o inbox[c] \in Seq(Byte)
  /\ Stream(c) \in Seq(Byte)
  /\ Len(Stream(c)) = (Len(got[c]) + Len(outbox[c])) + (Len(Held(c)) + Len(inbox[c]))
  /\ Len(got[c]) \in Nat /\ Len(outbox[c]) \in Nat /\ Len(Held(c)) \in Nat
  /\ Len(inbox[c]) \in Nat /\ Len(Echoed(c)) \in Nat
  /\ sent[c] \in Nat

\* The types make them so.
LEMMA Parts == EeType => \A c \in Clients : Proper(c)
<1> SUFFICES ASSUME EeType, NEW c \in Clients PROVE Proper(c)
  OBVIOUS
<1>1. /\ got[c] \in Seq(Byte) /\ outbox[c] \in Seq(Byte) /\ inbox[c] \in Seq(Byte) /\ sent[c] \in Nat
  BY DEF EeType
<1>2. Held(c) \in Seq(Byte)
  BY EmptySeq DEF EeType, Held
<1>3. Echoed(c) \in Seq(Byte) /\ Len(Echoed(c)) = Len(got[c]) + Len(outbox[c])
  BY <1>1, ConcatProperties DEF Echoed
<1>4. Held(c) \o inbox[c] \in Seq(Byte) /\ Len(Held(c) \o inbox[c]) = Len(Held(c)) + Len(inbox[c])
  BY <1>1, <1>2, ConcatProperties
<1>5. \A s, t \in Seq(Byte) : s \o t \in Seq(Byte) /\ Len(s \o t) = Len(s) + Len(t)
  BY ConcatProperties
<1>6. Stream(c) \in Seq(Byte) /\ Len(Stream(c)) = Len(Echoed(c)) + Len(Held(c) \o inbox[c])
  BY <1>3, <1>4, <1>5, Zenon DEF Stream
<1>7. \A s \in Seq(Byte) : Len(s) \in Nat
  BY LenProperties
<1>8. Len(got[c]) \in Nat /\ Len(outbox[c]) \in Nat /\ Len(Held(c)) \in Nat /\ Len(inbox[c]) \in Nat
      /\ Len(Echoed(c)) \in Nat
  BY <1>1, <1>2, <1>3, <1>7, Zenon
<1>9. Len(Stream(c)) = (Len(got[c]) + Len(outbox[c])) + (Len(Held(c)) + Len(inbox[c]))
  BY <1>3, <1>4, <1>6, Zenon
<1> QED BY <1>1, <1>2, <1>3, <1>4, <1>6, <1>8, <1>9, Zenon DEF Proper

\* And so after a step.
LEMMA PartsNext == EeType' => (\A c \in Clients : Proper(c))'
BY Parts, PTL

\* A step that changes nothing of what a client is owed.
LEMMA Unmoved ==
  ASSUME NEW c \in Clients, Answered(c),
         Echoed(c)' = Echoed(c), Stream(c)' = Stream(c), Len(Held(c))' = Len(Held(c)),
         Len(inbox[c])' = Len(inbox[c]),
         sent'[c] = sent[c], gone'[c] = gone[c], conn'[c] = "closed" <=> conn[c] = "closed",
         c \in mixed => c \in mixed', c \in cut => c \in cut', c \in flood => c \in flood'
  PROVE  Answered(c)'
<1>1. StreamOf(c)'
  BY DEF Answered, StreamOf
<1>2. Fits(c)'
  BY DEF Answered, Fits
<1>3. ClosedFor(c)'
  BY DEF Answered, ClosedFor
<1> QED BY <1>1, <1>2, <1>3 DEF Answered

\* Nothing is promised to a client whose bytes met another's.
LEMMA Mixed ==
  ASSUME NEW c \in Clients, c \in mixed'
  PROVE  Answered(c)'
BY DEF Answered, StreamOf, Fits, ClosedFor

\* A step that leaves alone all that a client is owed.
LEMMA Untouched ==
  ASSUME NEW c \in Clients, Answered(c), Held(c)' = Held(c),
         got'[c] = got[c], outbox'[c] = outbox[c], inbox'[c] = inbox[c],
         sent'[c] = sent[c], gone'[c] = gone[c], conn'[c] = "closed" <=> conn[c] = "closed",
         c \in mixed => c \in mixed', c \in cut => c \in cut', c \in flood => c \in flood'
  PROVE  Answered(c)'
<1>1. Echoed(c)' = Echoed(c)
  BY Zenon DEF Echoed
<1>2. Stream(c)' = Stream(c) /\ Len(Held(c))' = Len(Held(c)) /\ Len(inbox[c])' = Len(inbox[c])
  BY <1>1, Zenon DEF Stream
<1> QED BY <1>1, <1>2, Unmoved, Zenon

\* What line holds of a client, as long as its place does not change.
LEMMA HeldSame ==
  ASSUME NEW c \in Clients, Holds(c)' <=> Holds(c), Holds(c) => line' = line
  PROVE  Held(c)' = Held(c)
BY Zenon DEF Held

\* What comes last is appended to the whole.
LEMMA AppendAtEnd ==
  \A e, h, b \in Seq(Byte), x \in Byte : e \o (h \o Append(b, x)) = Append(e \o (h \o b), x)
<1> TAKE e, h, b \in Seq(Byte), x \in Byte
<1> DEFINE y == << x >>
<1>1. y \in Seq(Byte) /\ \A s \in Seq(Byte) : Append(s, x) = s \o y
  BY AppendIsConcat
<1> HIDE DEF y
<1>2. h \o b \in Seq(Byte) /\ b \o y \in Seq(Byte) /\ e \o (h \o b) \in Seq(Byte)
  BY <1>1, ConcatProperties
<1>3. /\ h \o (b \o y) = (h \o b) \o y
      /\ e \o ((h \o b) \o y) = (e \o (h \o b)) \o y
  <2>1. Associates(h, b, y)
    BY <1>1, JoinAssociates, Zenon
  <2>2. h \o (b \o y) = (h \o b) \o y
    BY <2>1, Zenon DEF Associates
  <2> DEFINE g == h \o b
  <2>4. g \in Seq(Byte)
    BY <1>2, Zenon
  <2> HIDE DEF g
  <2>5. Associates(e, g, y)
    BY <1>1, <2>4, JoinAssociates, Zenon
  <2>3. e \o ((h \o b) \o y) = (e \o (h \o b)) \o y
    BY <2>5, Zenon DEF g, Associates
  <2> QED BY <2>2, <2>3, Zenon
<1>4. Append(b, x) = b \o y /\ Append(e \o (h \o b), x) = (e \o (h \o b)) \o y
  BY <1>1, <1>2, Zenon
<1> QED BY <1>3, <1>4, Zenon

\* A client connects: nothing of it is on its way.
LEMMA AfterConnect ==
  ASSUME EeInv, NEW d \in Clients, Connect(d), NEW c \in Clients
  PROVE  Answered(c)'
<1>1. conn' = [conn EXCEPT ![d] = "queued"] /\ conn[d] = "none" /\ conn \in [Clients -> {"none", "queued", "open", "closed"}]
  BY DEF Connect, EeInv, EeType
<1>2. (conn'[c] = "open" <=> conn[c] = "open") /\ (conn'[c] = "closed" <=> conn[c] = "closed")
  BY <1>1
<1>3. Held(c)' = Held(c)
  BY <1>2, HeldSame DEF Connect, Holds, server
<1> QED BY <1>2, <1>3, Untouched, Zenon DEF Connect, client, history, EeInv

\* A client sends a byte: it is the next one, and last in its stream.
LEMMA AfterSend ==
  ASSUME EeInv, NEW d \in Clients, Send(d), NEW c \in Clients
  PROVE  Answered(c)'
<1>1. Held(c)' = Held(c)
  BY HeldSame DEF Send, Holds, server
<1>2. Answered(c) /\ EeType
  BY DEF EeInv
<1>3. CASE c # d
  <2>1. inbox'[c] = inbox[c] /\ sent'[c] = sent[c] /\ (c \in flood => c \in flood')
    BY <1>2, <1>3 DEF Send, EeType
  <2> QED BY <1>1, <1>2, <2>1, Untouched, Zenon DEF Send
<1>4. CASE c = d
  <2> DEFINE x == <<c, sent[c] + 1>>
  <2>1. /\ gone[c] = "no" /\ conn[c] # "closed" /\ conn' = conn /\ gone' = gone /\ got' = got
        /\ outbox' = outbox /\ mixed' = mixed /\ cut' = cut
        /\ inbox' = [inbox EXCEPT ![c] = Append(inbox[c], x)]
        /\ sent'[c] = sent[c] + 1
    BY <1>2, <1>4 DEF Send, Present, EeType
  <2>2. inbox'[c] = Append(inbox[c], x)
    BY <1>2, <2>1, Zenon DEF EeType
  <2>3. /\ got[c] \in Seq(Byte) /\ Held(c) \in Seq(Byte) /\ inbox[c] \in Seq(Byte) /\ Echoed(c) \in Seq(Byte)
        /\ Stream(c) \in Seq(Byte) /\ Held(c) \o inbox[c] \in Seq(Byte)
        /\ Len(Stream(c)) = (Len(got[c]) + Len(outbox[c])) + (Len(Held(c)) + Len(inbox[c]))
        /\ Len(got[c]) \in Nat /\ Len(outbox[c]) \in Nat /\ Len(Held(c)) \in Nat /\ Len(inbox[c]) \in Nat
        /\ sent[c] \in Nat
    BY <1>2, Parts, Zenon DEF Proper
  <2>0. c \notin flood' => c \notin flood /\ ~(sent[c] + 1 - Len(got[c]) >= LineCap)
    <3>1. flood' = IF sent'[c] - Len(got[c]) >= LineCap THEN flood \union {c} ELSE flood
      BY <1>4, Zenon DEF Send
    <3>2. c \notin flood' => c \notin flood /\ ~(sent'[c] - Len(got[c]) >= LineCap)
      BY <3>1, Zenon
    <3>3. sent'[c] = sent[c] + 1
      BY <2>1, Zenon
    <3>4. sent[c] \in Nat /\ Len(got[c]) \in Nat
      BY <2>3, Zenon
    <3> QED BY <3>2, <3>3, <3>4, Sizes
  <2>4. /\ Append(Stream(c), x) \in Seq(Byte) /\ Len(Append(Stream(c), x)) = Len(Stream(c)) + 1
        /\ Len(Stream(c)) \in Nat
        /\ Bytes(Stream(c), c, sent[c]) => Bytes(Append(Stream(c), x), c, sent[c] + 1)
        /\ Exact(Stream(c)) /\ Len(Stream(c)) = sent[c] => Exact(Append(Stream(c), x))
    BY <2>3, OneMore, Zenon
  <2>5. Len(Append(inbox[c], x)) = Len(inbox[c]) + 1
    BY <2>3, OneMore, Zenon
  <2>6. x \in Byte
    BY <2>3 DEF Byte
  <2> HIDE DEF x
  <2>7. Echoed(c)' = Echoed(c)
    BY <2>1, Zenon DEF Echoed
  <2>8. Stream(c)' = Append(Stream(c), x)
    <3>1. Stream(c)' = Echoed(c) \o (Held(c) \o Append(inbox[c], x))
      BY <1>1, <2>2, <2>7, Zenon DEF Stream
    <3>2. Echoed(c) \o (Held(c) \o Append(inbox[c], x)) = Append(Echoed(c) \o (Held(c) \o inbox[c]), x)
      <4>1. Echoed(c) \in Seq(Byte) /\ Held(c) \in Seq(Byte) /\ inbox[c] \in Seq(Byte)
        BY <2>3, Zenon
      <4> QED BY <2>6, <4>1, AppendAtEnd, Zenon
    <3> QED BY <3>1, <3>2, Zenon DEF Stream
  <2>9. StreamOf(c)'
    <3> SUFFICES ASSUME c \notin mixed'
                 PROVE  /\ Bytes(Echoed(c)', c, sent'[c]) /\ (c \notin cut' => Exact(Echoed(c)'))
                        /\ Len(Stream(c)') <= sent'[c]
                        /\ Bytes(Stream(c)', c, sent'[c])
                        /\ c \notin cut' => Exact(Stream(c)') /\ Len(Stream(c)') = sent'[c]
      BY Zenon DEF StreamOf, Bytes, Exact, Own, InOrder
    <3>1. /\ Bytes(Stream(c), c, sent[c]) /\ Len(Stream(c)) <= sent[c]
          /\ c \notin cut => Exact(Echoed(c)) /\ Exact(Stream(c)) /\ Len(Stream(c)) = sent[c]
      BY <1>2, <2>1, Zenon DEF Answered, StreamOf
    <3>2. Bytes(Append(Stream(c), x), c, sent[c] + 1)
      BY <2>4, <3>1, Zenon
    <3>3. Bytes(Echoed(c), c, sent[c] + 1)
      <4>1. Bytes(Echoed(c), c, sent[c])
        BY <1>2, <2>1, Zenon DEF Answered, StreamOf
      <4>2. \A i \in DOMAIN Echoed(c) : Echoed(c)[i][2] \in Nat
        BY <2>3, LenProperties, ElementOfSeq DEF Byte
      <4> HIDE DEF Byte
      <4>3. \A i \in DOMAIN Echoed(c) : Echoed(c)[i][2] <= sent[c] + 1
        BY <2>3, <4>1, <4>2 DEF Bytes
      <4> QED BY <4>1, <4>3, Zenon DEF Bytes
    <3>4. Len(Append(Stream(c), x)) <= sent[c] + 1
      <4> DEFINE n == Len(Stream(c))
      <4>1. n \in Nat /\ n <= sent[c] /\ sent[c] \in Nat /\ Len(Append(Stream(c), x)) = n + 1
        BY <2>3, <2>4, <3>1, Zenon
      <4> DEFINE m == Len(Append(Stream(c), x))
      <4> HIDE DEF n, m
      <4>2. m = n + 1
        BY <4>1, Zenon DEF m
      <4>3. m <= sent[c] + 1
        BY <4>1, <4>2
      <4> QED BY <4>3, Zenon DEF m
    <3>5. c \notin cut => Exact(Append(Stream(c), x)) /\ Len(Append(Stream(c), x)) = sent[c] + 1
      BY <2>4, <3>1, Zenon
    <3> QED BY <2>1, <2>7, <2>8, <3>1, <3>2, <3>3, <3>4, <3>5, Zenon
  <2>10. Fits(c)'
    <3> SUFFICES ASSUME c \notin flood', c \notin mixed PROVE Len(Held(c)') + Len(inbox'[c]) < LineCap
      BY <2>1, Zenon DEF Fits
    <3>1. Len(Stream(c)) <= sent[c] /\ ~(sent[c] + 1 - Len(got[c]) >= LineCap)
      BY <1>2, <2>0, Zenon DEF Answered, StreamOf
    <3>2. Len(Held(c)) + (Len(inbox[c]) + 1) < LineCap
      <4> DEFINE n == Len(Stream(c))
                 g == Len(got[c])
                 o == Len(outbox[c])
                 h == Len(Held(c))
                 i == Len(inbox[c])
      <4>1. /\ g \in Nat /\ o \in Nat /\ h \in Nat /\ i \in Nat /\ sent[c] \in Nat
            /\ n = (g + o) + (h + i) /\ n <= sent[c] /\ ~(sent[c] + 1 - g >= LineCap)
        BY <2>3, <3>1, Zenon
      <4> HIDE DEF n, g, o, h, i
      <4>2. h + (i + 1) < LineCap
        BY <4>1, Sizes
      <4> QED BY <4>2, Zenon DEF h, i
    <3> QED BY <1>1, <2>2, <2>5, <3>2, Zenon
  <2>11. ClosedFor(c)'
    BY <2>1, Zenon DEF ClosedFor
  <2> QED BY <2>9, <2>10, <2>11, Zenon DEF Answered
<1> QED BY <1>3, <1>4

\* A client receives a byte: it was the next one on its way.
LEMMA AfterRecv ==
  ASSUME EeInv, NEW d \in Clients, Recv(d), NEW c \in Clients
  PROVE  Answered(c)'
<1>1. Held(c)' = Held(c)
  BY HeldSame DEF Recv, Holds, server, registered
<1>2. Answered(c) /\ EeType
  BY DEF EeInv
<1>3. CASE c # d
  <2>1. got'[c] = got[c] /\ outbox'[c] = outbox[c]
    BY <1>2, <1>3 DEF Recv, EeType
  <2> QED BY <1>1, <1>2, <2>1, Untouched, Zenon DEF Recv, registered, history
<1>4. CASE c = d
  <2>1. got'[c] = Append(got[c], Head(outbox[c])) /\ outbox'[c] = Tail(outbox[c])
    BY <1>2, <1>4, Zenon DEF Recv, EeType
  <2>2. got[c] \in Seq(Byte) /\ outbox[c] \in Seq(Byte) /\ outbox[c] # << >>
    BY <1>2, <1>4 DEF Recv, EeType
  <2>3. Append(got[c], Head(outbox[c])) \o Tail(outbox[c]) = got[c] \o outbox[c]
    BY <2>2, HeadMoves
  <2>4. Echoed(c)' = Echoed(c)
    BY <2>1, <2>3, Zenon DEF Echoed
  <2>5. Stream(c)' = Stream(c) /\ Len(Held(c))' = Len(Held(c)) /\ Len(inbox[c])' = Len(inbox[c])
    BY <1>1, <2>4, Zenon DEF Stream, Recv
  <2> QED BY <1>2, <2>4, <2>5, Unmoved, Zenon DEF Recv, registered, history
<1> QED BY <1>3, <1>4

\* What a client that is gone is still owed: the bytes it has got, and no promise on the rest.
LEMMA Gone ==
  ASSUME EeType, EeType', NEW c \in Clients, Answered(c),
         got'[c] = got[c], outbox'[c] = outbox[c] \/ outbox'[c] = << >>,
         Held(c)' = Held(c) \/ Held(c)' = << >>, inbox'[c] = inbox[c] \/ inbox'[c] = << >>,
         sent'[c] = sent[c], gone'[c] # "no",
         c \in mixed => c \in mixed', c \in cut => c \in cut', c \in flood => c \in flood'
  PROVE  Answered(c)'
<1>1. /\ got[c] \in Seq(Byte) /\ outbox[c] \in Seq(Byte) /\ Echoed(c) \in Seq(Byte)
      /\ Held(c) \o inbox[c] \in Seq(Byte)
      /\ Len(Stream(c)) = (Len(got[c]) + Len(outbox[c])) + (Len(Held(c)) + Len(inbox[c]))
      /\ Len(got[c]) \in Nat /\ Len(outbox[c]) \in Nat /\ Len(Held(c)) \in Nat
      /\ Len(inbox[c]) \in Nat /\ sent[c] \in Nat
  BY Parts, Zenon DEF Proper
<1>2. /\ Len(Stream(c)') = (Len(got'[c]) + Len(outbox'[c])) + (Len(Held(c)') + Len(inbox'[c]))
      /\ Len(got'[c]) \in Nat /\ Len(outbox'[c]) \in Nat /\ Len(Held(c)') \in Nat
      /\ Len(inbox'[c]) \in Nat
  BY PartsNext, Zenon DEF Proper
<1>3. Len(<< >>) = 0
  BY EmptySeq
<1>4. /\ Len(outbox'[c]) <= Len(outbox[c]) /\ Len(Held(c)') <= Len(Held(c)) /\ Len(inbox'[c]) <= Len(inbox[c])
      /\ Len(got'[c]) = Len(got[c])
  <2>1. Len(outbox'[c]) = Len(outbox[c]) \/ Len(outbox'[c]) = 0
    BY <1>3, Zenon
  <2>2. Len(Held(c)') = Len(Held(c)) \/ Len(Held(c)') = 0
    BY <1>3, Zenon
  <2>3. Len(inbox'[c]) = Len(inbox[c]) \/ Len(inbox'[c]) = 0
    BY <1>3, Zenon
  <2>4. Len(got'[c]) = Len(got[c])
    BY Zenon
  <2>5. \A m, n \in Nat : n = m \/ n = 0 => n <= m
    OBVIOUS
  <2> QED BY <1>1, <1>2, <2>1, <2>2, <2>3, <2>4, <2>5, Zenon
<1>5. ASSUME c \notin mixed'
      PROVE  Bytes(Echoed(c)', c, sent[c]) /\ (c \notin cut' => Exact(Echoed(c)'))
  <2>1. Bytes(Echoed(c), c, sent[c]) /\ (c \notin cut' => Exact(Echoed(c)))
    BY <1>5, Zenon DEF Answered, StreamOf
  <2>2. CASE outbox'[c] = outbox[c]
    BY <2>1, <2>2, Zenon DEF Echoed
  <2>3. CASE outbox'[c] = << >>
    <3>1. Echoed(c)' = got[c]
      BY <1>1, <2>3, ConcatEmptySeq DEF Echoed
    <3>2. Bytes(got[c], c, sent[c]) /\ (c \notin cut' => Exact(got[c]))
      <4>1. Echoed(c) = got[c] \o outbox[c]
        BY DEF Echoed
      <4> QED BY <1>1, <2>1, <4>1, FirstPart
    <3> QED BY <3>1, <3>2, Zenon
  <2> QED BY <2>2, <2>3
<1>6. ASSUME c \notin mixed' PROVE Len(Stream(c)') <= sent[c]
  <2>1. Len(Stream(c)) <= sent[c]
    BY <1>6, Zenon DEF Answered, StreamOf
  <2> DEFINE g == Len(got[c])
             o == Len(outbox[c])
             h == Len(Held(c))
             i == Len(inbox[c])
             u == Len(outbox'[c])
             v == Len(Held(c)')
             w == Len(inbox'[c])
             n == Len(Stream(c)')
  <2>2. /\ g \in Nat /\ o \in Nat /\ h \in Nat /\ i \in Nat /\ u \in Nat /\ v \in Nat /\ w \in Nat
        /\ sent[c] \in Nat /\ (g + o) + (h + i) <= sent[c] /\ n = (g + u) + (v + w)
        /\ u <= o /\ v <= h /\ w <= i
    BY <1>1, <1>2, <1>4, <2>1, Zenon
  <2> HIDE DEF g, o, h, i, u, v, w, n
  <2>3. n <= sent[c]
    BY <2>2
  <2> QED BY <2>3, Zenon DEF n
<1>7. Bytes(Echoed(c)', c, sent[c]) <=> Bytes(Echoed(c), c, sent[c])'
  BY Zenon DEF Bytes, Own, InOrder
<1>8. StreamOf(c)'
  BY <1>5, <1>6, <1>7, Zenon DEF StreamOf, Exact
<1>9. Fits(c)'
  <2> SUFFICES ASSUME c \notin flood' \union mixed' PROVE Len(Held(c)') + Len(inbox'[c]) < LineCap
    BY Zenon DEF Fits
  <2>1. Len(Held(c)) + Len(inbox[c]) < LineCap
    BY Zenon DEF Answered, Fits
  <2>2. \A h, i, v, w, n \in Nat : v <= h /\ w <= i /\ h + i < n => v + w < n
    OBVIOUS
  <2>3. LineCap \in Nat
    BY Sizes
  <2> QED BY <1>1, <1>2, <1>4, <2>1, <2>2, <2>3, Zenon
<1>10. ClosedFor(c)'
  BY Zenon DEF ClosedFor
<1> QED BY <1>8, <1>9, <1>10, Zenon DEF Answered

\* A client closes its end: what was on its way is lost.
LEMMA AfterClose ==
  ASSUME EeInv, EeType', NEW d \in Clients, NEW how \in {"fin", "rst"}, ClientClose(d, how), NEW c \in Clients
  PROVE  Answered(c)'
<1>1. Held(c)' = Held(c)
  BY HeldSame DEF ClientClose, Holds, server
<1>2. Answered(c) /\ EeType
  BY DEF EeInv
<1>3. CASE c # d
  <2>1. gone'[c] = gone[c] /\ outbox'[c] = outbox[c]
    BY <1>2, <1>3 DEF ClientClose, EeType
  <2> QED BY <1>1, <1>2, <2>1, Untouched, Zenon DEF ClientClose, history
<1>4. CASE c = d
  <2>1. gone'[c] = how /\ how # "no" /\ outbox'[c] = << >>
    BY <1>2, <1>4 DEF ClientClose, EeType
  <2> QED BY <1>1, <1>2, <2>1, Gone, Zenon DEF ClientClose, history
<1> QED BY <1>3, <1>4

\* The steps that end the handling of an event of d, or the server.
Ending(d) == \/ Accept(d) \/ ReadAgain(d) \/ ReadZero(d) \/ ReadError(d)
             \/ Write(d) \/ WriteError(d) \/ WritePipe(d) \/ WritePipeKills(d)

\* They concern no other connection.
LEMMA OthersAfterEnding ==
  ASSUME EeInv, NEW d \in Clients, Ending(d), NEW c \in Clients, c # d
  PROVE  Answered(c)'
<1>1. Answered(c) /\ EeType
  BY DEF EeInv
<1>2. line' = line /\ pc' # "read" /\ got' = got /\ sent' = sent /\ gone' = gone /\ mixed' = mixed /\ flood' = flood
  BY DEF Ending, Accept, ReadAgain, ReadZero, ReadError, Write, WriteError, WritePipe, WritePipeKills,
         EventDone, client, history
<1>3. conn'[c] = conn[c] /\ watch'[c] = watch[c] /\ inbox'[c] = inbox[c] /\ outbox'[c] = outbox[c]
  BY <1>1 DEF EeType, Ending, Accept, ReadAgain, ReadZero, ReadError, Write, WriteError, WritePipe,
         WritePipeKills, Register, CloseFd, registered
<1>4. c \in cut => c \in cut'
  BY DEF Ending, Accept, ReadAgain, ReadZero, ReadError, Write, WriteError, WritePipe, WritePipeKills, history
<1>5. ~(pc = "read" /\ batch # << >> /\ Head(batch) = c)
  BY DEF EeInv, Ending, Accept, ReadAgain, ReadZero, ReadError, Write, WriteError, WritePipe, WritePipeKills,
         Handling
<1>6. Held(c)' = Held(c)
  BY <1>2, <1>3, <1>5, HeldSame, Zenon DEF Holds
<1> QED BY <1>1, <1>2, <1>3, <1>4, <1>6, Untouched, Zenon

\* Whose event is handled is an open connection.
LEMMA HandledOpen ==
  ASSUME EeInv, NEW d \in Clients, Handling(d)
  PROVE  conn[d] = "open"
<1>1. d # LISTEN
  BY EpollAssumption
<1> QED BY <1>1, OneHandled DEF EeInv, Handling

\* epoll_wait and a failed accept leave every connection alone.
LEMMA AfterLoop ==
  ASSUME EeInv, EpollWait \/ AcceptFails, NEW c \in Clients
  PROVE  Answered(c)'
<1>1. /\ line' = line /\ conn' = conn /\ watch' = watch /\ inbox' = inbox /\ outbox' = outbox
      /\ got' = got /\ sent' = sent /\ gone' = gone /\ mixed' = mixed /\ cut' = cut /\ flood' = flood
      /\ pc # "read" /\ pc' # "read"
  BY DEF EpollWait, AcceptFails, registered, client, history
<1>2. Held(c)' = Held(c)
  BY <1>1, HeldSame, Zenon DEF Holds
<1> QED BY <1>1, <1>2, Untouched, Zenon DEF EeInv

\* A client is accepted: none of its bytes is read yet.
LEMMA AfterAccept ==
  ASSUME EeInv, NEW d \in Clients, Accept(d)
  PROVE  Answered(d)'
<1>1. EeType /\ Answered(d)
  BY DEF EeInv
<1>2. /\ line' = line /\ inbox' = inbox /\ outbox' = outbox /\ got' = got /\ sent' = sent /\ gone' = gone
      /\ mixed' = mixed /\ cut' = cut /\ flood' = flood /\ pc # "read" /\ pc' # "read"
  BY DEF Accept, EventDone, client, history
<1>3. conn[d] = "queued" /\ conn'[d] = "open" /\ watch'[d] = "in"
  BY <1>1 DEF Accept, Register, EeType
<1>4. conn[d] # "open" /\ (conn'[d] = "closed" <=> conn[d] = "closed")
  BY <1>3
<1>5. watch'[d] # "out"
  BY <1>3
<1>6. Held(d)' = Held(d)
  BY <1>2, <1>4, <1>5, HeldSame, Zenon DEF Holds
<1> QED BY <1>1, <1>2, <1>4, <1>6, Untouched, Zenon

\* A connection starts to be read: those that have been read and not written meet it.
LEMMA AfterStartRead ==
  ASSUME EeInv, NEW d \in Clients, StartRead(d), NEW c \in Clients
  PROVE  Answered(c)'
<1>1. EeType /\ Answered(c)
  BY DEF EeInv
<1>2. /\ line' = << >> /\ conn' = conn /\ watch' = watch /\ inbox' = inbox /\ outbox' = outbox
      /\ got' = got /\ sent' = sent /\ gone' = gone /\ mixed' = mixed \union Awaiting /\ cut' = cut
      /\ flood' = flood /\ pc # "read" /\ batch # << >> /\ Head(batch) = d /\ watch[d] # "out"
  BY DEF StartRead, Handling, registered, client
<1>3. CASE c \in Awaiting
  BY <1>2, <1>3, Mixed
<1>4. CASE c \notin Awaiting
  <2>1. Held(c) = << >>
    BY <1>2, <1>4, Zenon DEF Held, Holds, Awaiting
  <2>2. Held(c)' = << >>
    BY <1>2, Zenon DEF Held
  <2> QED BY <1>1, <1>2, <2>1, <2>2, Untouched, Zenon
<1> QED BY <1>3, <1>4

\* Bytes that came are read: they go from inbox to the end of line.
LEMMA AfterRead ==
  ASSUME EeInv, NEW d \in Clients, Read(d), NEW c \in Clients
  PROVE  Answered(c)'
<1>1. EeType /\ Answered(c) /\ ReadingMixes
  BY DEF EeInv
<1>2. /\ conn' = conn /\ watch' = watch /\ outbox' = outbox /\ got' = got /\ sent' = sent /\ gone' = gone
      /\ mixed' = mixed /\ cut' = cut /\ flood' = flood /\ pc' = pc /\ batch' = batch
      /\ pc = "read" /\ batch # << >> /\ Head(batch) = d
  BY DEF Read, Handling, registered, client, history
<1>3. CASE c # d
  <2>1. inbox'[c] = inbox[c]
    BY <1>1, <1>3 DEF Read, EeType
  <2>2. CASE c \in Awaiting
    BY <1>1, <1>2, <2>2, Mixed DEF ReadingMixes
  <2>3. CASE c \notin Awaiting
    <3>1. Held(c)' = Held(c)
      BY <1>2, <1>3, <2>3, Zenon DEF Held, Holds, Awaiting
    <3> QED BY <1>1, <1>2, <2>1, <3>1, Untouched, Zenon
  <2> QED BY <2>2, <2>3
<1>4. CASE c = d
  <2> DEFINE n == Least(Room, Len(inbox[c]))
             x == line \o SubSeq(inbox[c], 1, n)
             y == SubSeq(inbox[c], n + 1, Len(inbox[c]))
  <2>1. line \in Seq(Byte) /\ inbox[c] \in Seq(Byte) /\ Len(line) \in Nat /\ Len(inbox[c]) \in Nat
    BY <1>1, LenProperties DEF EeType
  <2>2. n \in 0..Len(inbox[c])
    BY <1>4, <2>1, Sizes DEF Read, Room, Least
  <2>3. line' = x /\ inbox' = [inbox EXCEPT ![c] = y]
    BY <1>4 DEF Read
  <2> HIDE DEF n
  <2>4. x \in Seq(Byte) /\ y \in Seq(Byte) /\ x \o y = line \o inbox[c]
        /\ Len(x) = Len(line) + n /\ Len(y) = Len(inbox[c]) - n
    <3>1. \A l, b \in Seq(Byte) : \A k \in 0..Len(b) :
             /\ l \o SubSeq(b, 1, k) \in Seq(Byte) /\ SubSeq(b, k + 1, Len(b)) \in Seq(Byte)
             /\ (l \o SubSeq(b, 1, k)) \o SubSeq(b, k + 1, Len(b)) = l \o b
             /\ Len(l \o SubSeq(b, 1, k)) = Len(l) + k /\ Len(SubSeq(b, k + 1, Len(b))) = Len(b) - k
      BY FrontMoves
    <3> QED BY <2>1, <2>2, <3>1, Zenon
  <2> HIDE DEF x, y
  <2>5. inbox'[c] = y
    BY <1>1, <2>3, Zenon DEF EeType
  <2>6. Held(c) = line /\ Held(c)' = x
    BY <1>2, <1>4, <2>3, Zenon DEF Held, Holds
  <2>7. Echoed(c)' = Echoed(c)
    BY <1>2, Zenon DEF Echoed
  <2>8. Stream(c)' = Stream(c)
    BY <2>4, <2>5, <2>6, <2>7, Zenon DEF Stream
  <2>9. Len(x) + Len(y) = Len(line) + Len(inbox[c])
    <3> DEFINE p == Len(x)
               q == Len(y)
               r == Len(line)
               t == Len(inbox[c])
    <3>1. p = r + n /\ q = t - n /\ r \in Nat /\ t \in Nat /\ n \in 0..t
      BY <2>1, <2>2, <2>4, Zenon
    <3> HIDE DEF p, q, r, t
    <3>2. p + q = r + t
      BY <3>1
    <3> QED BY <3>2, Zenon DEF p, q, r, t
  <2>10. StreamOf(c)'
    BY <1>1, <1>2, <2>7, <2>8, Zenon DEF Answered, StreamOf, Bytes, Exact, Own, InOrder
  <2>11. Fits(c)'
    <3>1. c \notin flood' \union mixed' => Len(line) + Len(inbox[c]) < LineCap
      BY <1>1, <1>2, <2>6, Zenon DEF Answered, Fits
    <3>2. c \notin flood' \union mixed' => Len(x) + Len(y) < LineCap
      BY <2>9, <3>1, Zenon
    <3> QED BY <2>5, <2>6, <3>2, Zenon DEF Fits
  <2>12. ClosedFor(c)'
    BY <1>1, <1>2, Zenon DEF Answered, ClosedFor
  <2> QED BY <2>10, <2>11, <2>12, Zenon DEF Answered
<1> QED BY <1>3, <1>4

\* All has been read: the bytes wait in line to be written.
LEMMA AfterReadAgain ==
  ASSUME EeInv, NEW d \in Clients, ReadAgain(d)
  PROVE  Answered(d)'
<1>1. EeType /\ Answered(d) /\ conn[d] = "open"
  BY HandledOpen DEF EeInv, ReadAgain
<1>2. /\ line' = line /\ conn' = conn /\ inbox' = inbox /\ outbox' = outbox
      /\ got' = got /\ sent' = sent /\ gone' = gone /\ mixed' = mixed /\ cut' = cut
      /\ flood' = flood /\ pc = "read" /\ batch # << >> /\ Head(batch) = d
  BY DEF ReadAgain, Handling, client, history
<1>3. watch'[d] = "out"
  BY <1>1 DEF ReadAgain, Register, EeType
<1>4. Held(d)' = Held(d)
  BY <1>1, <1>2, <1>3, Zenon DEF Held, Holds
<1> QED BY <1>1, <1>2, <1>4, Untouched, Zenon

\* The server hangs up: on a client that is gone, or whose line is full.
LEMMA AfterHangUp ==
  ASSUME EeInv, EeType', NEW d \in Clients, ReadZero(d) \/ ReadError(d)
  PROVE  Answered(d)'
<1>1. EeType /\ Answered(d)
  BY DEF EeInv
<1>2. /\ line' = line /\ outbox' = outbox
      /\ got' = got /\ sent' = sent /\ gone' = gone /\ mixed' = mixed /\ cut' = cut
      /\ flood' = flood /\ pc = "read" /\ pc' # "read" /\ batch # << >> /\ Head(batch) = d
  BY DEF ReadZero, ReadError, Handling, EventDone, client, history
<1>3. conn'[d] = "closed" /\ inbox'[d] = << >>
  BY <1>1 DEF ReadZero, ReadError, CloseFd, EeType
<1>4. conn'[d] # "open"
  BY <1>3
<1>5. Held(d)' = << >>
  BY <1>2, <1>4, Zenon DEF Held, Holds
<1>6. CASE gone[d] # "no"
  <2>1. gone'[d] # "no"
    BY <1>2, <1>6, Zenon
  <2> QED BY <1>1, <1>2, <1>3, <1>5, <2>1, Gone, Zenon
<1>7. CASE gone[d] = "no"
  <2>1. LineCap - Len(line) = 0
    BY <1>7 DEF ReadZero, ReadError, Room
  <2>2. Proper(d)
    BY <1>1, Parts, Zenon
  <2>3. Held(d) = line
    BY <1>2, Zenon DEF Held, Holds
  <2>4. d \in flood \union mixed
    <3>1. Len(line) \in Nat /\ Len(inbox[d]) \in Nat
      BY <2>2, <2>3, Zenon DEF Proper
    <3>2. ~(Len(line) + Len(inbox[d]) < LineCap)
      BY <2>1, <3>1, Sizes
    <3> QED BY <1>1, <2>3, <3>2, Zenon DEF Answered, Fits
  <2>5. Echoed(d)' = Echoed(d) /\ Stream(d)' = Echoed(d)
    <3>1. << >> \o << >> = << >> /\ Echoed(d) \o << >> = Echoed(d)
      BY <2>2, EmptySeq, ConcatEmptySeq DEF Proper
    <3>2. Echoed(d)' = Echoed(d)
      BY <1>2, Zenon DEF Echoed
    <3> QED BY <1>3, <1>5, <3>1, <3>2, Zenon DEF Stream
  <2>6. StreamOf(d)'
    <3> SUFFICES ASSUME d \notin mixed
                 PROVE  /\ Bytes(Echoed(d), d, sent[d]) /\ (d \notin cut => Exact(Echoed(d)))
                        /\ Len(Echoed(d)) <= sent[d]
      BY <1>2, <1>3, <2>5, Zenon DEF StreamOf, Bytes, Exact, Own, InOrder
    <3>1. /\ Bytes(Echoed(d), d, sent[d]) /\ (d \notin cut => Exact(Echoed(d)))
          /\ Len(Stream(d)) <= sent[d]
      BY <1>1, Zenon DEF Answered, StreamOf
    <3> DEFINE e == Len(Echoed(d))
               f == Len(Held(d)) + Len(inbox[d])
    <3>2. Len(Stream(d)) = e + f /\ e \in Nat /\ sent[d] \in Nat
      BY <2>2, Zenon DEF Proper
    <3>3. f \in Nat
      BY <2>2 DEF Proper
    <3>4. e + f <= sent[d]
      BY <3>1, <3>2, Zenon
    <3> HIDE DEF e, f
    <3>5. e <= sent[d]
      BY <3>2, <3>3, <3>4
    <3> QED BY <3>1, <3>5, Zenon DEF e
  <2>7. Fits(d)'
    <3>1. Len(<< >>) + Len(<< >>) < LineCap
      BY EmptySeq, Sizes
    <3> QED BY <1>3, <1>5, <3>1, Zenon DEF Fits
  <2>8. ClosedFor(d)'
    BY <1>2, <2>4, Zenon DEF ClosedFor
  <2> QED BY <2>6, <2>7, <2>8, Zenon DEF Answered
<1> QED BY <1>6, <1>7

\* A client that is gone is written to in vain, or closed; or the server is killed.
LEMMA AfterWriteError ==
  ASSUME EeInv, EeType', NEW d \in Clients, WriteError(d) \/ WritePipe(d) \/ WritePipeKills(d)
  PROVE  Answered(d)'
<1>1. EeType /\ Answered(d)
  BY DEF EeInv
<1>2. /\ line' = line /\ outbox' = outbox
      /\ got' = got /\ sent' = sent /\ gone' = gone /\ mixed' = mixed /\ cut' = cut
      /\ flood' = flood /\ pc # "read" /\ pc' # "read" /\ gone[d] = "rst"
  BY DEF WriteError, WritePipe, WritePipeKills, EventDone, client, history
<1>3. gone'[d] # "no"
  BY <1>2
<1>4. CASE WriteError(d) \/ WritePipe(d)
  <2>1. conn'[d] # "open" \/ watch'[d] # "out"
    BY <1>1, <1>4 DEF WriteError, WritePipe, Register, CloseFd, EeType
  <2>2. inbox'[d] = inbox[d] \/ inbox'[d] = << >>
    BY <1>1, <1>4 DEF WriteError, WritePipe, CloseFd, EeType
  <2>3. Held(d)' = << >>
    BY <1>2, <2>1, Zenon DEF Held, Holds
  <2> QED BY <1>1, <1>2, <1>3, <2>2, <2>3, Gone, Zenon
<1>5. CASE WritePipeKills(d)
  <2>1. conn' = conn /\ watch' = watch /\ inbox' = inbox
    BY <1>5 DEF WritePipeKills, registered
  <2>2. Held(d)' = Held(d)
    BY <1>2, <2>1, Zenon DEF Held, Holds
  <2> QED BY <1>1, <1>2, <2>1, <2>2, Untouched, Zenon
<1> QED BY <1>4, <1>5

\* line is written: what fits follows what was written before, the rest is cut out.
LEMMA AfterWrite ==
  ASSUME EeInv, EeType', NEW d \in Clients, Write(d)
  PROVE  Answered(d)'
<1>1. EeType /\ Answered(d) /\ conn[d] = "open"
  BY HandledOpen DEF EeInv, Write
<1>2. /\ line' = line /\ conn' = conn /\ inbox' = inbox /\ got' = got /\ sent' = sent /\ gone' = gone
      /\ mixed' = mixed /\ flood' = flood /\ pc # "read" /\ pc' # "read" /\ watch[d] = "out"
  BY DEF Write, EventDone, client
<1>3. watch'[d] # "out"
  BY <1>1 DEF Write, Register, EeType
<1>4. Held(d) = line /\ Held(d)' = << >>
  BY <1>1, <1>2, <1>3, Zenon DEF Held, Holds
<1> DEFINE n == Least(SockBuf - Len(outbox[d]), Len(line))
           m == SubSeq(line, 1, n)
<1>5. /\ outbox' = [outbox EXCEPT ![d] = IF gone[d] = "no" THEN outbox[d] \o m ELSE outbox[d]]
      /\ cut' = IF n < Len(line) THEN cut \union {d} ELSE cut
  BY DEF Write
<1>6. n \in 0..Len(line) /\ Len(line) \in Nat
  BY <1>1, Written
<1>7. d \in cut => d \in cut'
  BY <1>5, Zenon
<1>8. CASE gone[d] # "no"
  <2>1. outbox'[d] = outbox[d] /\ gone'[d] # "no"
    BY <1>1, <1>2, <1>5, <1>8, Zenon DEF EeType
  <2> QED BY <1>1, <1>2, <1>4, <1>7, <2>1, Gone, Zenon
<1>9. CASE gone[d] = "no"
  <2> HIDE DEF n
  <2>1. outbox'[d] = outbox[d] \o m
    BY <1>1, <1>5, <1>9, Zenon DEF EeType
  <2>2. Proper(d)
    BY <1>1, Parts, Zenon
  <2>3. line \in Seq(Byte) /\ inbox[d] \in Seq(Byte) /\ Echoed(d) \in Seq(Byte)
        /\ got[d] \in Seq(Byte) /\ outbox[d] \in Seq(Byte)
    BY <1>4, <2>2, Zenon DEF Proper
  <2>4. m \in Seq(Byte) /\ Len(m) = n /\ (n = Len(line) => m = line)
    <3>1. \A i \in 1..n : line[i] \in Byte
      BY <1>6, <2>3, ElementOfSeq
    <3>2. m \in Seq(Byte) /\ Len(m) = n
      BY <1>6, <3>1, SubSeqProperties
    <3>3. n = Len(line) => m = line
      BY <2>3, SubSeqFull
    <3> QED BY <3>2, <3>3, Zenon
  <2> DEFINE em == Echoed(d) \o m
             s == em \o inbox[d]
  <2>5. Echoed(d)' = em
    <3> HIDE DEF m
    <3>1. Associates(got[d], outbox[d], m)
      BY <2>3, <2>4, JoinAssociates, Zenon
    <3>2. got[d] \o (outbox[d] \o m) = (got[d] \o outbox[d]) \o m
      BY <3>1, Zenon DEF Associates
    <3> QED BY <1>2, <2>1, <3>2, Zenon DEF Echoed
  <2>6. << >> \o inbox[d] = inbox[d]
    BY <2>3, ConcatEmptySeq
  <2>7. Stream(d)' = s
    BY <1>2, <1>4, <2>5, <2>6, Zenon DEF Stream
  <2>8. Stream(d) = Echoed(d) \o (line \o inbox[d])
    BY <1>4, Zenon DEF Stream
  <2>9. em \in Seq(Byte) /\ Len(em) = Len(Echoed(d)) + n
        /\ s \in Seq(Byte) /\ Len(s) = Len(em) + Len(inbox[d])
    <3>1. \A q, r \in Seq(Byte) : q \o r \in Seq(Byte) /\ Len(q \o r) = Len(q) + Len(r)
      BY ConcatProperties
    <3>2. em \in Seq(Byte) /\ Len(em) = Len(Echoed(d)) + Len(m)
      BY <2>3, <2>4, <3>1, Zenon
    <3> HIDE DEF em
    <3>3. em \o inbox[d] \in Seq(Byte) /\ Len(em \o inbox[d]) = Len(em) + Len(inbox[d])
      BY <2>3, <3>1, <3>2, Zenon
    <3> QED BY <2>4, <3>2, <3>3, Zenon
  <2>10. n = Len(line) => s = Stream(d)
    <3>1. Associates(Echoed(d), line, inbox[d])
      BY <2>3, JoinAssociates, Zenon
    <3>2. (Echoed(d) \o line) \o inbox[d] = Echoed(d) \o (line \o inbox[d])
      BY <3>1, Zenon DEF Associates
    <3> QED BY <2>4, <2>8, <3>2, Zenon
  <2>11. Bytes(Stream(d), d, sent[d]) => Bytes(s, d, sent[d])
    <3>1. \A e, l, b \in Seq(Byte) : \A k \in 0..Len(l) :
            Bytes(e \o (l \o b), d, sent[d]) => Bytes((e \o SubSeq(l, 1, k)) \o b, d, sent[d])
      BY MiddleCut
    <3> QED BY <1>6, <2>3, <2>8, <3>1, Zenon
  <2>12. /\ Bytes(s, d, sent[d]) => Bytes(em, d, sent[d])
         /\ Exact(s) => Exact(em)
    <3>1. \A e, r \in Seq(Byte) : /\ Bytes(e \o r, d, sent[d]) => Bytes(e, d, sent[d])
                                  /\ Exact(e \o r) => Exact(e)
      BY FirstPart
    <3> HIDE DEF em
    <3> QED BY <2>3, <2>9, <3>1, Zenon
  <2>13. Len(s) <= Len(Stream(d))
    <3> DEFINE e == Len(Echoed(d))
               l == Len(line)
               b == Len(inbox[d])
               w == Len(em)
               x == Len(s)
               y == Len(Stream(d))
    <3>1. y = e + (l + b) /\ w = e + n /\ x = w + b /\ e \in Nat /\ l \in Nat /\ b \in Nat /\ n \in 0..l
      BY <1>4, <1>6, <2>2, <2>9, Zenon DEF Proper
    <3> HIDE DEF e, l, b, w, x, y
    <3>2. x <= y
      BY <3>1
    <3> QED BY <3>2, Zenon DEF x, y
  <2>14. Len(s) \in Nat /\ Len(Stream(d)) \in Nat /\ sent[d] \in Nat
    BY <2>2, <2>9, LenProperties DEF Proper
  <2>15. d \notin cut' => d \notin cut /\ n = Len(line)
    <3>1. ~(n < Len(line)) => n = Len(line)
      BY <1>6
    <3> QED BY <1>5, <3>1, Zenon
  <2> HIDE DEF em, s
  <2>16. StreamOf(d)'
    <3> SUFFICES ASSUME d \notin mixed
                 PROVE  /\ Bytes(em, d, sent[d]) /\ (d \notin cut' => Exact(em))
                        /\ Len(s) <= sent[d]
                        /\ Bytes(s, d, sent[d])
                        /\ d \notin cut' => Exact(s) /\ Len(s) = sent[d]
      BY <1>2, <2>5, <2>7, Zenon DEF StreamOf, Bytes, Exact, Own, InOrder
    <3>1. /\ Bytes(Stream(d), d, sent[d]) /\ Len(Stream(d)) <= sent[d]
          /\ d \notin cut => Exact(Stream(d)) /\ Len(Stream(d)) = sent[d]
      BY <1>1, <1>9 DEF Answered, StreamOf
    <3>2. Len(s) <= sent[d]
      BY <2>13, <2>14, <3>1
    <3>3. d \notin cut' => Exact(s) /\ Len(s) = sent[d]
      BY <2>10, <2>15, <3>1, Zenon
    <3> QED BY <2>11, <2>12, <3>1, <3>2, <3>3, Zenon
  <2>17. Fits(d)'
    <3>1. d \notin flood' \union mixed' => Len(Held(d)) + Len(inbox[d]) < LineCap
      BY <1>1, <1>2, Zenon DEF Answered, Fits
    <3>2. Len(Held(d)) \in Nat /\ Len(inbox[d]) \in Nat
      BY <2>2, Zenon DEF Proper
    <3>3. Len(<< >>) = 0
      BY EmptySeq
    <3>4. \A h, i \in Nat : h + i < LineCap => 0 + i < LineCap
      BY Sizes
    <3> QED BY <1>2, <1>4, <3>1, <3>2, <3>3, <3>4, Zenon DEF Fits
  <2>18. ClosedFor(d)'
    BY <1>1, <1>2, Zenon DEF Answered, ClosedFor
  <2> QED BY <2>16, <2>17, <2>18, Zenon DEF Answered
<1> QED BY <1>8, <1>9

------------------------------------------------------------------------------
(* The invariant and what follows from it.                                 *)

\* Every step keeps the invariant.
LEMMA EeStep == EeInv /\ [Next]_vars => EeInv'
<1> SUFFICES ASSUME EeInv, [Next]_vars PROVE EeInv'
  OBVIOUS
<1>0. EeType /\ BatchOpen /\ ReadingMixes /\ \A c \in Clients : Answered(c)
  BY DEF EeInv
<1>1. ASSUME NEW d \in Clients,
             \/ Connect(d) \/ Send(d) \/ Recv(d) \/ \E how \in {"fin", "rst"} : ClientClose(d, how)
      PROVE  EeInv'
  <2>1. EeType'
    BY <1>0, <1>1, ClientTypes
  <2>2. BatchOpen' /\ ReadingMixes'
    BY <1>0, <1>1, ClientBatch
  <2>3. \A c \in Clients : Answered(c)'
    BY <1>1, <2>1, AfterConnect, AfterSend, AfterRecv, AfterClose
  <2> QED BY <2>1, <2>2, <2>3 DEF EeInv
<1>2. CASE EpollWait \/ AcceptFails
  <2>1. EeType'
    BY <1>0, <1>2, LoopTypes
  <2>2. BatchOpen' /\ ReadingMixes'
    BY <1>0, <1>2, ServerBatch DEF ServerStep
  <2>3. \A c \in Clients : Answered(c)'
    BY <1>2, AfterLoop
  <2> QED BY <2>1, <2>2, <2>3 DEF EeInv
<1>3. ASSUME NEW d \in Clients, StartRead(d) \/ Read(d) \/ Ending(d)
      PROVE  EeInv'
  <2>1. EeType'
    BY <1>0, <1>3, ServerTypes DEF Ending
  <2>2. BatchOpen' /\ ReadingMixes'
    <3>1. ServerStep
      BY <1>3 DEF ServerStep, Ending
    <3> QED BY <1>0, <3>1, ServerBatch
  <2>3. CASE StartRead(d) \/ Read(d)
    <3>1. \A c \in Clients : Answered(c)'
      BY <2>3, AfterStartRead, AfterRead
    <3> QED BY <2>1, <2>2, <3>1 DEF EeInv
  <2>4. CASE Ending(d)
    <3>1. Answered(d)'
      BY <2>1, <2>4, AfterAccept, AfterReadAgain, AfterHangUp, AfterWrite, AfterWriteError DEF Ending
    <3>2. \A c \in Clients : Answered(c)'
      BY <2>4, <3>1, OthersAfterEnding
    <3> QED BY <2>1, <2>2, <3>2 DEF EeInv
  <2> QED BY <1>3, <2>3, <2>4
<1>4. CASE UNCHANGED vars
  <2>1. EeType'
    BY <1>0, <1>4 DEF vars, EeType, server, registered, client, history
  <2>2. BatchOpen' /\ ReadingMixes'
    BY <1>0, <1>4 DEF vars, BatchOpen, ReadingMixes, Awaiting, server, registered, history
  <2>3. ASSUME NEW c \in Clients PROVE Answered(c)'
    <3>1. Held(c)' = Held(c)
      BY <1>4, HeldSame DEF Holds, vars, server, registered
    <3> QED BY <1>0, <1>4, <3>1, Untouched, Zenon DEF vars, server, registered, client, history
  <2> QED BY <2>1, <2>2, <2>3 DEF EeInv
<1> QED BY <1>1, <1>2, <1>3, <1>4 DEF Next, ServerStep, Ending

\* The invariant holds throughout.
LEMMA EeAlways == Spec => []EeInv
<1>1. EeInv /\ [Next]_vars => EeInv'
  BY EeStep
<1> QED BY EeInitially, <1>1, PTL DEF Spec

\* Whatever the clients send and however the kernel's events are interleaved, a
\* client gets its own bytes back in order, and all of them if no write was cut
\* short, unless another connection was read between its read and its write.
THEOREM EchoSafe == Spec => []EchoUnlessMixed
<1>1. EeInv => EchoUnlessMixed
  BY DEF EeInv, Answered, StreamOf, Bytes, Exact, EchoUnlessMixed
<1> QED BY <1>1, EeAlways, PTL

\* The server hangs up on nobody who is still there but one whose outstanding bytes
\* filled line, or whose answers another client got.
THEOREM CutOffSafe == Spec => []OnlyFloodersAreCutOff
<1>1. EeInv => OnlyFloodersAreCutOff
  BY DEF EeInv, Answered, ClosedFor, OnlyFloodersAreCutOff
<1> QED BY <1>1, EeAlways, PTL
=============================================================================
