---------------------------- MODULE WaitProofs ------------------------------
(***************************************************************************)
(* Programs that wait: for a modem's answer, for a semaphore, for a lock.  *)
(* RightUnlessLate of AtModem for a buffer of any size and any number of   *)
(* pieces that are late; SemBuffer for any size of the ring, any number of *)
(* items and of crashes; LoveBounded of RwLock for any number of writers   *)
(* and readers and any limit.                                              *)
(*                                                                         *)
(* RightUnlessLate needs that what was read and what is to come are one    *)
(* answer to the command that was sent, a good one unless the check is     *)
(* refused; SlotsAccounted the values of the semaphores while main opens   *)
(* them; ItemsInOrder, on top of it, what each slot holds.                 *)
(***************************************************************************)
EXTENDS SemBuffer, RwLock, AtModem, FiniteSetTheorems, SequenceTheorems, TLAPS

(* AtModem.                                                                 *)

\* A piece of an answer.
Piece == [text : {"OK", "ERROR", "READY", "REG0", "REG1", "NAME1", "NAME2", "LONG2", "NONAME", "LOW", "HIGH"},
          old : BOOLEAN]

\* Three sequences joined one after another make the same sequence from either end.
Associates(s, t, u) == (s \o t) \o u = s \o (t \o u)

\* So do any three of these.
LEMMA JoinAssociates == \A s, t, u \in Seq(Piece) : Associates(s, t, u)
BY ConcatAssociative, SMT DEF Associates

AtType ==
  /\ pc \in {"idle", "send", "read", "fault"}
  /\ cmd \in {"AT", "CPIN", "CREG", "COPS", "CSQ"}
  /\ state \in {"ZERO", "REGISTER"} /\ ret \in {"none", "ok", "fail"}
  /\ buf \in Seq(Piece) /\ rx \in Seq(Piece) /\ coming \in Seq(Piece)

\* The operator is known before the signal is asked for; no signal is of a check that
\* has not asked yet.
OperatorFirst ==
  /\ pc \in {"send", "read"} => signal # "this"
  /\ state = "REGISTER" => operator # "none"
  /\ pc \in {"send", "read"} /\ cmd = "CSQ" => operator # "none"
  /\ pc = "idle" /\ ret = "ok" => operator # "none"

\* As long as nothing is late, a command is sent on a quiet line and after good answers
\* only; what was read of its answer and what is to come are one answer to it, and the
\* check is refused when that is not a good one.
AnswerOwn ==
  /\ pc = "send" => rx = << >> /\ coming = << >> /\ ~refused
  /\ pc = "read" => \E a \in Answers(cmd) \union {<< >>} :
                      /\ buf \o (rx \o coming) = Fresh(a)
                      /\ refused <=> a \notin Goods(cmd)

\* What a check in time ends with.
EndsRight ==
  /\ pc = "fault" => Holds("LONG2")
  /\ pc = "idle" /\ ret = "ok" => ~refused /\ signal = "this"
  /\ pc = "idle" /\ ret = "fail" => refused /\ signal # "this"

\* The part of the invariant that speaks of what is in time.
InTime == ~late => AnswerOwn /\ EndsRight

\* An answer as pieces.
LEMMA FreshPieces ==
  ASSUME NEW c \in {"AT", "CPIN", "CREG", "COPS", "CSQ"}, NEW a \in Answers(c) \union {<< >>}
  PROVE  /\ Fresh(a) \in Seq(Piece) /\ Len(Fresh(a)) = Len(a) /\ Len(a) \in Nat
         /\ \A i \in 1..Len(a) : Fresh(a)[i] = [text |-> a[i], old |-> FALSE]
<1> DEFINE T == {"OK", "ERROR", "READY", "REG0", "REG1", "NAME1", "NAME2", "LONG2", "NONAME", "LOW", "HIGH"}
<1>1. \/ a = << >>
      \/ \E x \in T : a = << x >>
      \/ \E x, y \in T : a = <<x, y>>
      \/ \E x, y, z \in T : a = <<x, y, z>>
  <2>1. a \in {<< >>, << "OK" >>, << "ERROR" >>, <<"READY", "OK">>, <<"REG0", "OK">>, <<"REG1", "OK">>,
              <<"NONAME", "OK">>, <<"LOW", "OK">>, <<"HIGH", "OK">>,
              <<"NAME1", "NAME2", "OK">>, <<"NAME1", "LONG2", "OK">>}
    BY DEF Answers, Goods
  <2> QED BY <2>1
<1>2. Len(a) \in Nat /\ DOMAIN a = 1..Len(a) /\ \A i \in 1..Len(a) : a[i] \in T
  <2> HIDE DEF T
  <2>1. CASE a = << >>
    BY <2>1
  <2>2. ASSUME NEW x \in T, a = << x >> PROVE Len(a) \in Nat /\ DOMAIN a = 1..Len(a) /\ \A i \in 1..Len(a) : a[i] \in T
    BY <2>2
  <2>3. ASSUME NEW x \in T, NEW y \in T, a = <<x, y>>
        PROVE  Len(a) \in Nat /\ DOMAIN a = 1..Len(a) /\ \A i \in 1..Len(a) : a[i] \in T
    BY <2>3
  <2>4. ASSUME NEW x \in T, NEW y \in T, NEW z \in T, a = <<x, y, z>>
        PROVE  Len(a) \in Nat /\ DOMAIN a = 1..Len(a) /\ \A i \in 1..Len(a) : a[i] \in T
    BY <2>4
  <2> QED BY <1>1, <2>1, <2>2, <2>3, <2>4
<1> HIDE DEF T
<1>3. Fresh(a) = [i \in 1..Len(a) |-> [text |-> a[i], old |-> FALSE]]
  BY <1>2 DEF Fresh
<1>4. \A i \in 1..Len(a) : [text |-> a[i], old |-> FALSE] \in Piece
  BY <1>2 DEF Piece, T
<1>5. Fresh(a) \in [1..Len(a) -> Piece]
  BY <1>3, <1>4
<1>6. Fresh(a) \in Seq(Piece)
  BY <1>2, <1>5, SeqDef
<1>7. Len(Fresh(a)) = Len(a)
  BY <1>2, <1>5, <1>6, LenProperties
<1> QED BY <1>2, <1>3, <1>6, <1>7

\* What is on its way when a command is sent.
LEMMA AgedPieces ==
  ASSUME NEW s \in Seq(Piece)
  PROVE  Aged(s) \in Seq(Piece) /\ (s = << >> => Aged(s) = << >>)
<1>1. Len(s) \in Nat /\ DOMAIN s = 1..Len(s) /\ \A i \in 1..Len(s) : s[i] \in Piece
  BY LenProperties, ElementOfSeq
<1>2. \A i \in 1..Len(s) : [s[i] EXCEPT !.old = TRUE] \in Piece
  BY <1>1 DEF Piece
<1>3. Aged(s) \in [1..Len(s) -> Piece]
  BY <1>1, <1>2 DEF Aged
<1>4. Aged(s) \in Seq(Piece)
  BY <1>1, <1>3, SeqDef
<1>5. s = << >> => Aged(s) = << >>
  <2>1. Len(Aged(s)) = Len(s)
    BY <1>1, <1>3, <1>4, LenProperties
  <2> QED BY <1>4, <2>1, EmptySeq
<1> QED BY <1>4, <1>5

\* Nothing before and behind.
LEMMA BothEmpty ==
  ASSUME NEW s \in Seq(Piece), NEW t \in Seq(Piece), s \o t = << >>
  PROVE  s = << >> /\ t = << >>
BY ConcatSimplifications

\* Bytes that are read go from the line to the end of buf.
LEMMA CutJoins ==
  ASSUME NEW l \in Seq(Piece), NEW b \in Seq(Piece), NEW c \in Seq(Piece), NEW n \in 0..Len(b)
  PROVE  /\ l \o SubSeq(b, 1, n) \in Seq(Piece) /\ SubSeq(b, n + 1, Len(b)) \in Seq(Piece)
         /\ (l \o SubSeq(b, 1, n)) \o (SubSeq(b, n + 1, Len(b)) \o c) = l \o (b \o c)
<1>1. Len(b) \in Nat /\ \A i \in 1..Len(b) : b[i] \in Piece
  BY LenProperties, ElementOfSeq
<1>2. SubSeq(b, 1, n) \in Seq(Piece)
  BY <1>1, SubSeqProperties
<1>3. SubSeq(b, n + 1, Len(b)) \in Seq(Piece)
  BY <1>1, SubSeqProperties
<1>4. SubSeq(b, 1, n) \o SubSeq(b, n + 1, Len(b)) = b
  <2>1. 1 \in 1..(Len(b) + 1) /\ n \in (1 - 1)..Len(b) /\ Len(b) \in n..Len(b)
    BY <1>1
  <2>2. SubSeq(b, 1, n) \o SubSeq(b, n + 1, Len(b)) = SubSeq(b, 1, Len(b))
    BY <2>1, ConcatAdjacentSubSeq
  <2> QED BY <2>2, SubSeqFull
<1>6. \A s, t \in Seq(Piece) : s \o t \in Seq(Piece)
  BY ConcatProperties
<1> DEFINE x == SubSeq(b, 1, n)
           y == SubSeq(b, n + 1, Len(b))
<1>7. x \in Seq(Piece) /\ y \in Seq(Piece) /\ x \o y = b
  BY <1>2, <1>3, <1>4
<1> HIDE DEF x, y
<1>8. l \o x \in Seq(Piece) /\ y \o c \in Seq(Piece)
  BY <1>6, <1>7, Zenon
<1>9. (l \o x) \o (y \o c) = l \o (x \o (y \o c))
  <2> DEFINE z == y \o c
  <2>1. z \in Seq(Piece) /\ x \in Seq(Piece)
    BY <1>7, <1>8, Zenon
  <2> HIDE DEF z
  <2>2. Associates(l, x, z)
    BY <2>1, JoinAssociates, Zenon
  <2> QED BY <2>2, Zenon DEF z, Associates
<1>12. (x \o y) \o c = x \o (y \o c)
  <2>1. x \in Seq(Piece) /\ y \in Seq(Piece) /\ c \in Seq(Piece)
    BY <1>7, Zenon
  <2>2. Associates(x, y, c)
    BY <2>1, JoinAssociates, Zenon
  <2> QED BY <2>2, Zenon DEF Associates
<1>10. b \o c = x \o (y \o c)
  BY <1>7, <1>12, Zenon
<1>11. (l \o x) \o (y \o c) = l \o (b \o c)
  BY <1>9, <1>10, Zenon
<1> QED BY <1>7, <1>8, <1>11, Zenon DEF x, y

\* A piece that arrives.
LEMMA HeadArrives ==
  ASSUME NEW g \in Seq(Piece), NEW o \in Seq(Piece), o # << >>
  PROVE  Append(g, Head(o)) \in Seq(Piece) /\ Tail(o) \in Seq(Piece) /\ Append(g, Head(o)) \o Tail(o) = g \o o
<1>1. Head(o) \in Piece /\ Tail(o) \in Seq(Piece)
  BY HeadTailProperties
<1>2. Append(g, Head(o)) \in Seq(Piece)
  BY <1>1, AppendProperties
<1> DEFINE h == << Head(o) >>
<1>3. h \in Seq(Piece) /\ Append(g, Head(o)) = g \o h
  BY <1>1, AppendIsConcat
<1>4. h \o Tail(o) = o
  <2>1. Len(o) \in Nat \ {0}
    BY EmptySeq
  <2>2. 1 \in 1..Len(o) /\ Len(o) \in 1..Len(o)
    BY <2>1
  <2>3. SubSeq(o, 1, Len(o)) = << o[1] >> \o SubSeq(o, 1 + 1, Len(o))
    BY <2>2, SubSeqRecursiveFirst
  <2>4. SubSeq(o, 1, Len(o)) = o
    BY SubSeqFull
  <2>5. Tail(o) = SubSeq(o, 2, Len(o)) /\ Head(o) = o[1] /\ 1 + 1 = 2
    BY TailIsSubSeq
  <2> QED BY <2>3, <2>4, <2>5
<1> HIDE DEF h
<1>5. Associates(g, h, Tail(o))
  BY <1>1, <1>3, JoinAssociates, Zenon
<1>6. (g \o h) \o Tail(o) = g \o (h \o Tail(o))
  BY <1>5, Zenon DEF Associates
<1> QED BY <1>1, <1>2, <1>3, <1>4, <1>6, Zenon

\* Every step keeps the types.
LEMMA AtTypes == ASSUME AtType, [AtNext]_atVars PROVE AtType'
<1> DEFINE Pieces == buf' \in Seq(Piece) /\ rx' \in Seq(Piece) /\ coming' \in Seq(Piece)
<1>0. << >> \in Seq(Piece) /\ Aged(rx) \in Seq(Piece) /\ Aged(coming) \in Seq(Piece)
  BY EmptySeq, AgedPieces DEF AtType
<1>1. CASE StartCheck \/ OpenFails
  BY <1>0, <1>1 DEF StartCheck, OpenFails, AtType, driver, line
<1>2. CASE Send
  <2>1. PICK a \in Answers(cmd) \union {<< >>} : Reply(a)
    BY <1>2 DEF Send, Answers, AtType
  <2>2. Fresh(a) \in Seq(Piece)
    BY FreshPieces DEF AtType
  <2>3. rx' \in Seq(Piece) /\ coming' \in Seq(Piece)
    BY <1>0, <2>1, <2>2, ConcatProperties DEF Reply
  <2> QED BY <1>0, <1>2, <2>3 DEF Send, AtType, driver
<1>3. CASE SendPart
  <2>1. Fresh(<< >>) \in Seq(Piece)
    BY FreshPieces
  <2>2. rx' \in Seq(Piece) /\ coming' \in Seq(Piece)
    BY <1>0, <1>3, <2>1, ConcatProperties DEF SendPart, Reply
  <2> QED BY <1>0, <1>3, <2>2 DEF SendPart, AtType, driver
<1>4. CASE SendFails
  BY <1>0, <1>4 DEF SendFails, EndCheck, AtType
<1>5. CASE Read
  <2> DEFINE n == IF Len(rx) < Room THEN Len(rx) ELSE Room
  <2>1. buf \in Seq(Piece) /\ rx \in Seq(Piece) /\ coming \in Seq(Piece)
    BY DEF AtType
  <2>2. n \in 0..Len(rx)
    BY <1>5, <2>1, LenProperties, AtAssumption DEF Read, Room
  <2>3. buf' = buf \o SubSeq(rx, 1, n) /\ rx' = SubSeq(rx, n + 1, Len(rx))
    BY <1>5 DEF Read
  <2> HIDE DEF n
  <2>4. buf' \in Seq(Piece) /\ rx' \in Seq(Piece)
    BY <2>1, <2>2, <2>3, CutJoins
  <2> QED BY <1>5, <2>4 DEF Read, AtType, driver
<1>6. CASE NextCommand \/ Overrun
  BY <1>6 DEF NextCommand, Overrun, ReadOver, Following, AtType, line
<1>7. CASE Succeed
  BY <1>0, <1>7 DEF Succeed, EndCheck, AtType
<1>8. CASE Fail
  BY <1>0, <1>8 DEF Fail, EndCheck, AtType
<1>9. CASE Fault
  BY <1>9 DEF Fault, AtType, driver, line
<1>10. CASE Arrive
  <2>1. rx' \in Seq(Piece) /\ coming' \in Seq(Piece)
    BY <1>10, HeadArrives DEF Arrive, AtType
  <2> QED BY <1>10, <2>1 DEF Arrive, AtType, driver
<1>11. CASE Settle \/ UNCHANGED atVars
  BY <1>11 DEF Settle, atVars, AtType, driver, line
<1> QED BY <1>1, <1>2, <1>3, <1>4, <1>5, <1>6, <1>7, <1>8, <1>9, <1>10, <1>11 DEF AtNext, DriverStep

\* Every step keeps the operator known first.
LEMMA OperatorKept == ASSUME AtType, OperatorFirst, [AtNext]_atVars PROVE OperatorFirst'
<1>1. CASE StartCheck \/ OpenFails
  BY <1>1 DEF StartCheck, OpenFails, OperatorFirst
<1>2. CASE Send \/ SendPart \/ Read \/ Fault
  BY <1>2 DEF Send, SendPart, Read, Fault, OperatorFirst, driver
<1>3. CASE SendFails \/ Succeed \/ Fail
  BY <1>3 DEF SendFails, Succeed, Fail, EndCheck, ReadOver, OperatorFirst
<1>4. CASE NextCommand \/ Overrun
  BY <1>4 DEF NextCommand, Overrun, Following, ReadOver, OperatorFirst, AtType
<1>5. CASE Arrive \/ Settle \/ UNCHANGED atVars
  BY <1>5 DEF Arrive, Settle, atVars, OperatorFirst, driver
<1> QED BY <1>1, <1>2, <1>3, <1>4, <1>5 DEF AtNext, DriverStep

\* A read that is over and left nothing behind has read the answer to its command.
LEMMA WholeAnswer ==
  ASSUME AtType, AnswerOwn, pc = "read", coming \o rx = << >>
  PROVE  \E a \in Answers(cmd) \union {<< >>} : buf = Fresh(a) /\ (refused <=> a \notin Goods(cmd))
<1>1. rx = << >> /\ coming = << >>
  BY BothEmpty DEF AtType
<1>2. << >> \o << >> = << >> /\ buf \o << >> = buf
  BY EmptySeq, ConcatEmptySeq DEF AtType
<1> QED BY <1>1, <1>2, Zenon DEF AnswerOwn

\* What is in buf, piece by piece, when it is one answer.
LEMMA PiecesOwn ==
  ASSUME AtType, NEW a \in Answers(cmd) \union {<< >>}, buf = Fresh(a)
  PROVE  /\ Len(a) \in Nat /\ DOMAIN buf = 1..Len(a)
         /\ \A i \in 1..Len(a) : buf[i].text = a[i] /\ ~buf[i].old
         /\ \A t : Holds(t) <=> \E i \in 1..Len(a) : a[i] = t
<1>1. /\ buf \in Seq(Piece) /\ Len(buf) = Len(a) /\ Len(a) \in Nat
      /\ \A i \in 1..Len(a) : buf[i] = [text |-> a[i], old |-> FALSE]
  BY FreshPieces DEF AtType
<1>2. DOMAIN buf = 1..Len(a)
  BY <1>1, LenProperties
<1>3. \A i \in 1..Len(a) : buf[i].text = a[i] /\ ~buf[i].old
  <2>1. \A x : [text |-> x, old |-> FALSE].text = x /\ [text |-> x, old |-> FALSE].old = FALSE
    OBVIOUS
  <2> QED BY <1>1, <2>1, Zenon
<1>4. \A t : Holds(t) <=> \E i \in DOMAIN buf : buf[i].text = t
  BY <1>1 DEF Holds, ToSet
<1>5. \A t : Holds(t) <=> \E i \in 1..Len(a) : a[i] = t
  BY <1>2, <1>3, <1>4
<1> QED BY <1>1, <1>2, <1>3, <1>5

\* The signal is taken from the answer, whichever comma comes first.
LEMMA FirstNumber ==
  ASSUME AtType, NEW a \in {<<"LOW", "OK">>, <<"HIGH", "OK">>}, cmd = "CSQ", buf = Fresh(a)
  PROVE  Commas # {} /\ FirstComma = buf[1]
<1>1. a \in Answers(cmd)
  BY DEF Answers, Goods
<1>2. /\ Len(a) = 2 /\ DOMAIN buf = 1..2 /\ buf[1].text = a[1] /\ buf[2].text = a[2]
      /\ a[1] \in {"LOW", "HIGH"} /\ a[2] = "OK"
  BY <1>1, PiecesOwn
<1>3. Commas = {1}
  BY <1>2 DEF Commas
<1> QED BY <1>3 DEF FirstComma

\* A good answer to AT+CSQ or none: the driver reads the signal only out of the first.
LEMMA SignalOwn ==
  ASSUME AtType, cmd = "CSQ", NEW a \in Answers(cmd) \union {<< >>}, buf = Fresh(a)
  PROVE  (SignalHigh <=> a \in Goods(cmd)) /\ (SignalHigh => ~FirstComma.old)
<1>1. a \in {<< >>, << "ERROR" >>, <<"LOW", "OK">>, <<"HIGH", "OK">>} /\ Goods(cmd) = {<<"HIGH", "OK">>}
  BY DEF Answers, Goods
<1>2. /\ DOMAIN buf = 1..Len(a)
      /\ \A i \in 1..Len(a) : buf[i].text = a[i] /\ ~buf[i].old
  BY PiecesOwn
<1>3. CASE a \in {<<"LOW", "OK">>, <<"HIGH", "OK">>}
  <2>1. Commas # {} /\ FirstComma = buf[1]
    BY <1>3, FirstNumber
  <2>2. buf[1].text = a[1] /\ ~buf[1].old
    BY <1>2, <1>3
  <2> QED BY <1>1, <1>3, <2>1, <2>2 DEF SignalHigh
<1>4. CASE a \in {<< >>, << "ERROR" >>}
  <2>1. Commas = {}
    BY <1>2, <1>4 DEF Commas
  <2> QED BY <1>1, <1>4, <2>1 DEF SignalHigh
<1> QED BY <1>1, <1>3, <1>4

\* The name of the operator is between two quotation marks or there are none.
LEMMA QuotesOwn ==
  ASSUME AtType, cmd = "COPS", NEW a \in Answers(cmd) \union {<< >>}, buf = Fresh(a)
  PROVE  IF a \in Goods(cmd) THEN QuoteAt = {1, 2} /\ Quotes = 2 ELSE QuoteAt = {} /\ Quotes = 0
<1>1. /\ a \in {<< >>, << "ERROR" >>, <<"NONAME", "OK">>} \union Goods(cmd)
      /\ Goods(cmd) = {<<"NAME1", "NAME2", "OK">>, <<"NAME1", "LONG2", "OK">>}
  BY DEF Answers, Goods
<1>2. /\ DOMAIN buf = 1..Len(a)
      /\ \A i \in 1..Len(a) : buf[i].text = a[i]
  BY PiecesOwn
<1>3. CASE a \in Goods(cmd)
  <2>1. Len(a) = 3 /\ a[1] = "NAME1" /\ a[2] \in {"NAME2", "LONG2"} /\ a[3] = "OK"
    BY <1>1, <1>3
  <2>2. QuoteAt = {1, 2}
    BY <1>2, <2>1 DEF QuoteAt
  <2>3. Cardinality({1, 2}) = 2
    <3>1. IsFiniteSet({1}) /\ Cardinality({1}) = 1
      BY FS_Singleton, Zenon
    <3>2. 2 \notin {1}
      OBVIOUS
    <3>3. Cardinality({1} \union {2}) = Cardinality({1}) + 1
      BY <3>1, <3>2, FS_AddElement
    <3>4. {1, 2} = {1} \union {2}
      OBVIOUS
    <3>5. Cardinality({1, 2}) = Cardinality({1}) + 1
      BY <3>3, <3>4, Zenon
    <3> QED BY <3>1, <3>5
  <2>4. Quotes = 2
    BY <2>2, <2>3 DEF Quotes
  <2> QED BY <1>3, <2>2, <2>4
<1>4. CASE a \notin Goods(cmd)
  <2>1. QuoteAt = {}
    <3>1. a \in {<< >>, << "ERROR" >>, <<"NONAME", "OK">>}
      BY <1>1, <1>4
    <3> QED BY <1>2, <3>1 DEF QuoteAt
  <2>2. Quotes = 0
    BY <2>1, FS_EmptySet DEF Quotes
  <2> QED BY <1>4, <2>1, <2>2
<1> QED BY <1>3, <1>4

\* The driver accepts the good answers and no other.
LEMMA AcceptsGood ==
  ASSUME AtType, NEW a \in Answers(cmd) \union {<< >>}, buf = Fresh(a)
  PROVE  (Accepted <=> a \in Goods(cmd)) /\ ~NoSecondQuote
<1>1. \A t : Holds(t) <=> \E i \in 1..Len(a) : a[i] = t
  BY PiecesOwn
<1>2. CASE cmd \in {"AT", "CPIN", "CREG"}
  <2>1. CASE cmd = "AT"
    BY <1>1, <2>1 DEF Accepted, Answers, Goods, NoSecondQuote
  <2>2. CASE cmd = "CPIN"
    BY <1>1, <2>2 DEF Accepted, Answers, Goods, NoSecondQuote
  <2>3. CASE cmd = "CREG"
    BY <1>1, <2>3 DEF Accepted, Answers, Goods, NoSecondQuote
  <2> QED BY <1>2, <2>1, <2>2, <2>3
<1>3. CASE cmd = "COPS"
  <2>1. Quotes = IF a \in Goods(cmd) THEN 2 ELSE 0
    BY <1>3, QuotesOwn
  <2>2. a \in Goods(cmd) => Holds("OK")
    <3>1. ASSUME a \in Goods(cmd) PROVE Len(a) = 3 /\ a[3] = "OK"
      BY <1>3, <3>1 DEF Goods
    <3> QED BY <1>1, <3>1
  <2>3. Accepted <=> Holds("OK") /\ Quotes >= 2
    BY <1>3 DEF Accepted
  <2>4. NoSecondQuote => Quotes = 1
    BY DEF NoSecondQuote
  <2>5. Accepted <=> a \in Goods(cmd)
    BY <2>1, <2>2, <2>3
  <2> QED BY <2>1, <2>4, <2>5
<1>4. CASE cmd = "CSQ"
  <2>1. Accepted <=> SignalHigh
    BY <1>4 DEF Accepted
  <2>2. ~NoSecondQuote
    BY <1>4 DEF NoSecondQuote
  <2> QED BY <1>4, <2>1, <2>2, SignalOwn
<1> QED BY <1>2, <1>3, <1>4 DEF AtType

\* A name that does not fit is a long one.
LEMMA OverrunLong ==
  ASSUME AtType, cmd = "COPS", NEW a \in Answers(cmd) \union {<< >>}, buf = Fresh(a), Overlong
  PROVE  Holds("LONG2")
<1>1. /\ DOMAIN buf = 1..Len(a)
      /\ \A i \in 1..Len(a) : buf[i].text = a[i]
      /\ Holds("LONG2") <=> \E i \in 1..Len(a) : a[i] = "LONG2"
  BY PiecesOwn
<1>2. PICK i \in QuoteAt, j \in QuoteAt :
        i < j /\ (i + 1 = j /\ buf[i].text = "NAME1" => buf[j].text # "NAME2")
  BY DEF Overlong, Encloses
<1>3. a \in Goods(cmd) /\ i \in {1, 2} /\ j \in {1, 2}
  BY <1>2, QuotesOwn
<1>4. i = 1 /\ j = 2
  BY <1>2, <1>3
<1>5. Len(a) = 3 /\ a[1] = "NAME1" /\ a[2] \in {"NAME2", "LONG2"}
  BY <1>3 DEF Goods
<1>6. buf[1].text = "NAME1" /\ buf[2].text = a[2]
  BY <1>1, <1>5
<1>7. a[2] = "LONG2"
  BY <1>2, <1>4, <1>5, <1>6
<1> QED BY <1>1, <1>5, <1>7

\* A name whose closing quotation mark is missing is only met before the answer is whole:
\* what closes the answer comes behind it.
LEMMA QuotesPaired ==
  ASSUME AtType, AnswerOwn, pc = "read", NoSecondQuote
  PROVE  FALSE
<1>1. PICK a \in Answers("COPS") \union {<< >>} : buf \o (rx \o coming) = Fresh(a)
  BY DEF AnswerOwn, NoSecondQuote
<1>2. /\ buf \in Seq(Piece) /\ rx \o coming \in Seq(Piece) /\ Len(buf) \in Nat /\ Len(rx \o coming) \in Nat
      /\ DOMAIN buf = 1..Len(buf)
  BY ConcatProperties, LenProperties DEF AtType
<1>3. /\ Len(Fresh(a)) = Len(buf) + Len(rx \o coming)
      /\ \A i \in 1..Len(buf) : Fresh(a)[i] = buf[i]
  <2>1. \A s, t \in Seq(Piece) : Len(s \o t) = Len(s) + Len(t)
    BY ConcatProperties
  <2>2. \A s, t \in Seq(Piece) : \A i \in 1..Len(s) : (s \o t)[i] = s[i]
    BY ConcatProperties, LenProperties
  <2> QED BY <1>1, <1>2, <2>1, <2>2, Zenon
<1>4. /\ Len(Fresh(a)) = Len(a) /\ Len(a) \in Nat
      /\ \A i \in 1..Len(a) : Fresh(a)[i] = [text |-> a[i], old |-> FALSE]
  BY FreshPieces
<1>5. Len(buf) <= Len(a) /\ \A i \in 1..Len(buf) : buf[i].text = a[i]
  <2> DEFINE m == Len(rx \o coming)
             f == Fresh(a)
  <2>1. /\ m \in Nat /\ Len(f) = Len(buf) + m /\ Len(f) = Len(a) /\ Len(a) \in Nat /\ Len(buf) \in Nat
        /\ \A i \in 1..Len(buf) : f[i] = buf[i]
        /\ \A i \in 1..Len(a) : f[i] = [text |-> a[i], old |-> FALSE]
    BY <1>2, <1>3, <1>4, Zenon
  <2> HIDE DEF m, f
  <2>2. Len(buf) <= Len(a)
    BY <2>1
  <2>3. ASSUME NEW i \in 1..Len(buf) PROVE buf[i].text = a[i]
    <3>1. i \in 1..Len(a)
      BY <2>1, <2>2
    <3>2. buf[i] = [text |-> a[i], old |-> FALSE]
      BY <2>1, <3>1, Zenon
    <3> QED BY <3>2
  <2> QED BY <2>2, <2>3
<1>6. PICK k \in 1..Len(buf) : a[k] = "OK"
  BY <1>2, <1>5 DEF NoSecondQuote, Holds, ToSet
<1>7. CASE a \in {<<"NAME1", "NAME2", "OK">>, <<"NAME1", "LONG2", "OK">>}
  <2>1. Len(a) = 3 /\ a[1] = "NAME1" /\ a[2] \in {"NAME2", "LONG2"} /\ a[3] = "OK"
    BY <1>7
  <2>2. k = 3
    BY <1>2, <1>5, <1>6, <2>1
  <2>3. QuoteAt = {1, 2}
    BY <1>2, <1>5, <2>1, <2>2 DEF QuoteAt
  <2>4. Cardinality(QuoteAt) = 2
    <3>1. IsFiniteSet({1}) /\ Cardinality({1}) = 1
      BY FS_Singleton, Zenon
    <3>2. 2 \notin {1}
      OBVIOUS
    <3>3. Cardinality({1} \union {2}) = Cardinality({1}) + 1
      BY <3>1, <3>2, FS_AddElement
    <3>4. QuoteAt = {1} \union {2}
      BY <2>3
    <3>5. Cardinality(QuoteAt) = Cardinality({1}) + 1
      BY <3>3, <3>4, Zenon
    <3> QED BY <3>1, <3>5
  <2> QED BY <2>4 DEF NoSecondQuote, Quotes
<1>8. CASE a \notin {<<"NAME1", "NAME2", "OK">>, <<"NAME1", "LONG2", "OK">>}
  <2>1. a \in {<<"ERROR">>, <<"NONAME", "OK">>, << >>}
    BY <1>8 DEF Answers, Goods
  <2>2. QuoteAt = {}
    BY <1>2, <1>5, <2>1 DEF QuoteAt
  <2>3. Cardinality(QuoteAt) = 0
    BY <2>2, FS_EmptySet
  <2> QED BY <2>3 DEF NoSecondQuote, Quotes
<1> QED BY <1>7, <1>8

\* A command is sent on a quiet line: what is on its way then is its answer.
LEMMA SentOnQuiet ==
  ASSUME AtType, NEW a \in Answers(cmd) \union {<< >>}, Reply(a), rx = << >>, coming = << >>
  PROVE  << >> \o (rx' \o coming') = Fresh(a)
<1>1. Aged(rx) = << >> /\ Aged(coming) = << >>
  BY AgedPieces DEF AtType
<1>2. Fresh(a) \in Seq(Piece) /\ << >> \in Seq(Piece)
  BY FreshPieces, EmptySeq DEF AtType
<1>3. \A s \in Seq(Piece) : << >> \o s = s
  BY ConcatEmptySeq
<1>4. rx' = << >> /\ coming' = << >> \o Fresh(a)
  BY <1>1, Zenon DEF Reply
<1>5. coming' = Fresh(a)
  BY <1>2, <1>3, <1>4, Zenon
<1> QED BY <1>2, <1>3, <1>4, <1>5, Zenon

\* Every step of a check in time keeps it so, or notes that it no longer is.
LEMMA InTimeKept == ASSUME AtType, OperatorFirst, InTime, [AtNext]_atVars PROVE InTime'
<1> SUFFICES ASSUME ~late' PROVE (AnswerOwn /\ EndsRight)'
  BY DEF InTime
<1>0. AtType'
  BY AtTypes
<1>1. CASE StartCheck
  <2>1. coming' \o rx' = << >> /\ pc' = "send" /\ ~refused'
    BY <1>1 DEF StartCheck
  <2>2. rx' = << >> /\ coming' = << >>
    BY <1>0, <2>1, BothEmpty DEF AtType
  <2> QED BY <2>1, <2>2 DEF AnswerOwn, EndsRight
<1>2. CASE OpenFails
  BY <1>2 DEF OpenFails, AnswerOwn, EndsRight
<1>3. CASE Send
  <2>1. /\ rx = << >> /\ coming = << >> /\ ~refused
        /\ pc' = "read" /\ buf' = << >> /\ cmd' = cmd
    BY <1>3 DEF Send, InTime, AnswerOwn, driver
  <2>2. PICK a \in Answers(cmd) \union {<< >>} : Reply(a) /\ refused' = (refused \/ a \notin Goods(cmd))
    BY <1>3 DEF Send, Answers, AtType
  <2>3. << >> \o (rx' \o coming') = Fresh(a)
    BY <2>1, <2>2, SentOnQuiet
  <2>4. buf' \o (rx' \o coming') = Fresh(a)
    BY <2>1, <2>3, Zenon
  <2> QED BY <2>1, <2>2, <2>4 DEF AnswerOwn, EndsRight
<1>4. CASE SendPart
  <2>1. /\ rx = << >> /\ coming = << >> /\ refused'
        /\ pc' = "read" /\ buf' = << >> /\ cmd' = cmd /\ Reply(<< >>)
    BY <1>4 DEF SendPart, InTime, AnswerOwn, driver
  <2>2. << >> \o (rx' \o coming') = Fresh(<< >>)
    BY <2>1, SentOnQuiet
  <2>3. buf' \o (rx' \o coming') = Fresh(<< >>)
    BY <2>1, <2>2, Zenon
  <2>4. << >> \notin Goods(cmd)
    BY DEF Goods, AtType
  <2> QED BY <2>1, <2>3, <2>4 DEF AnswerOwn, EndsRight
<1>5. CASE SendFails
  <2>1. pc' = "idle" /\ ret' = "fail" /\ refused' /\ signal' = signal /\ signal # "this"
    BY <1>5 DEF SendFails, EndCheck, OperatorFirst
  <2> QED BY <2>1 DEF AnswerOwn, EndsRight
<1>6. CASE Read
  <2> DEFINE n == IF Len(rx) < Room THEN Len(rx) ELSE Room
  <2>1. buf \in Seq(Piece) /\ rx \in Seq(Piece) /\ coming \in Seq(Piece)
    BY DEF AtType
  <2>2. n \in 0..Len(rx)
    BY <1>6, <2>1, LenProperties, AtAssumption DEF Read, Room
  <2>3. /\ buf' = buf \o SubSeq(rx, 1, n) /\ rx' = SubSeq(rx, n + 1, Len(rx)) /\ coming' = coming
        /\ pc = "read" /\ pc' = "read" /\ cmd' = cmd /\ late' = late /\ refused' = refused
    BY <1>6 DEF Read, driver, history
  <2> HIDE DEF n
  <2>4. (buf \o SubSeq(rx, 1, n)) \o (SubSeq(rx, n + 1, Len(rx)) \o coming) = buf \o (rx \o coming)
    <3>1. \A l, b, c \in Seq(Piece) : \A k \in 0..Len(b) :
            (l \o SubSeq(b, 1, k)) \o (SubSeq(b, k + 1, Len(b)) \o c) = l \o (b \o c)
      BY CutJoins, Zenon
    <3> QED BY <2>1, <2>2, <3>1, Zenon
  <2>5. buf' \o (rx' \o coming') = buf \o (rx \o coming)
    BY <2>3, <2>4, Zenon
  <2>6. PICK a \in Answers(cmd) \union {<< >>} :
          buf \o (rx \o coming) = Fresh(a) /\ (refused <=> a \notin Goods(cmd))
    BY <2>3 DEF InTime, AnswerOwn
  <2>7. buf' \o (rx' \o coming') = Fresh(a)
    BY <2>5, <2>6, Zenon
  <2> QED BY <2>3, <2>6, <2>7 DEF AnswerOwn, EndsRight
<1>7. ASSUME ReadOver, coming \o rx = << >>, ~late
      PROVE  \E a \in Answers(cmd) \union {<< >>} : buf = Fresh(a) /\ (refused <=> a \notin Goods(cmd))
  BY <1>7, WholeAnswer DEF InTime, ReadOver
<1>8. ASSUME ReadOver, coming \o rx = << >>, ~late
      PROVE  Accepted <=> ~refused
  BY <1>7, <1>8, AcceptsGood
<1>9. CASE NextCommand
  <2>1. /\ ReadOver /\ ~late /\ coming \o rx = << >> /\ rx' = rx /\ coming' = coming
        /\ pc' = "send" /\ Accepted /\ refused' = refused
    BY <1>9 DEF NextCommand, NotYetAnswered, line
  <2>2. rx' = << >> /\ coming' = << >>
    BY <2>1, BothEmpty DEF AtType
  <2> QED BY <1>8, <2>1, <2>2 DEF AnswerOwn, EndsRight
<1>10. CASE Overrun
  <2>1. /\ ReadOver /\ ~late /\ coming \o rx = << >> /\ rx' = rx /\ coming' = coming /\ buf' = buf
        /\ pc' \in {"fault", "send"} /\ Accepted /\ refused' = refused /\ cmd = "COPS" /\ Overlong
    BY <1>10 DEF Overrun, NotYetAnswered, line
  <2>2. rx' = << >> /\ coming' = << >>
    BY <2>1, BothEmpty DEF AtType
  <2>3. Holds("LONG2")
    BY <1>7, <2>1, OverrunLong
  <2>4. Holds("LONG2")'
    BY <2>1, <2>3 DEF Holds
  <2> QED BY <1>8, <2>1, <2>2, <2>4 DEF AnswerOwn, EndsRight
<1>11. CASE Succeed
  <2>1. /\ ReadOver /\ ~late /\ coming \o rx = << >> /\ cmd = "CSQ" /\ SignalHigh /\ Accepted
        /\ pc' = "idle" /\ ret' = "ok" /\ refused' = refused
        /\ signal' = IF FirstComma.old THEN "past" ELSE "this"
    BY <1>11 DEF Succeed, NotYetAnswered, EndCheck, Accepted
  <2>2. ~FirstComma.old
    BY <1>7, <2>1, SignalOwn
  <2>3. ~refused
    BY <1>8, <2>1
  <2> QED BY <2>1, <2>2, <2>3 DEF AnswerOwn, EndsRight
<1>12. CASE Fail
  <2>1. /\ ReadOver /\ ~late /\ coming \o rx = << >> /\ ~Accepted /\ pc = "read"
        /\ pc' = "idle" /\ ret' = "fail" /\ refused' = refused /\ signal' = signal
    BY <1>12 DEF Fail, NotYetAnswered, EndCheck, ReadOver
  <2>2. refused /\ signal # "this"
    BY <1>8, <2>1 DEF OperatorFirst
  <2> QED BY <2>1, <2>2 DEF AnswerOwn, EndsRight
<1>13. CASE Fault
  <2>1. ~late /\ pc = "read" /\ NoSecondQuote
    BY <1>13 DEF Fault, ReadOver, history
  <2>2. AnswerOwn
    BY <2>1 DEF InTime
  <2> QED BY <2>1, <2>2, QuotesPaired
<1>14. CASE Arrive
  <2>1. buf \in Seq(Piece) /\ rx \in Seq(Piece) /\ coming \in Seq(Piece) /\ coming # << >>
    BY <1>14 DEF Arrive, AtType
  <2>2. rx' = Append(rx, Head(coming)) /\ coming' = Tail(coming) /\ pc # "fault"
    BY <1>14 DEF Arrive
  <2>3. /\ pc' = pc /\ cmd' = cmd /\ buf' = buf /\ ret' = ret /\ signal' = signal
        /\ late' = late /\ refused' = refused
    BY <1>14 DEF Arrive, driver, history
  <2>4. rx' \o coming' = rx \o coming
    BY <2>1, <2>2, HeadArrives
  <2>5. buf' \o (rx' \o coming') = buf \o (rx \o coming)
    BY <2>3, <2>4, Zenon
  <2>6. pc # "send"
    BY <2>1, <2>3 DEF InTime, AnswerOwn
  <2>7. ASSUME pc' = "read"
        PROVE  \E a \in Answers(cmd') \union {<< >>} :
                 buf' \o (rx' \o coming') = Fresh(a) /\ (refused' <=> a \notin Goods(cmd'))
    <3>1. PICK a \in Answers(cmd) \union {<< >>} :
            buf \o (rx \o coming) = Fresh(a) /\ (refused <=> a \notin Goods(cmd))
      BY <2>3, <2>7 DEF InTime, AnswerOwn
    <3>2. buf' \o (rx' \o coming') = Fresh(a)
      BY <2>5, <3>1, Zenon
    <3>3. a \in Answers(cmd') \union {<< >>} /\ (refused' <=> a \notin Goods(cmd'))
      BY <2>3, <3>1, Zenon
    <3> QED BY <3>2, <3>3
  <2>8. AnswerOwn'
    BY <2>3, <2>6, <2>7 DEF AnswerOwn
  <2>9. EndsRight'
    BY <2>2, <2>3 DEF InTime, EndsRight
  <2> QED BY <2>8, <2>9
<1>15. CASE Settle \/ UNCHANGED atVars
  <2>1. /\ pc' = pc /\ cmd' = cmd /\ buf' = buf /\ rx' = rx /\ coming' = coming
        /\ ret' = ret /\ signal' = signal /\ late' = late /\ refused' = refused
    BY <1>15 DEF Settle, atVars, driver, line, history
  <2>2. AnswerOwn /\ EndsRight
    BY <2>1 DEF InTime
  <2>3. AnswerOwn'
    BY <2>1, <2>2 DEF AnswerOwn
  <2>4. EndsRight'
    BY <2>1, <2>2 DEF EndsRight, Holds
  <2> QED BY <2>3, <2>4
<1> QED BY <1>1, <1>2, <1>3, <1>4, <1>5, <1>6, <1>9, <1>10, <1>11, <1>12, <1>13, <1>14, <1>15
        DEF AtNext, DriverStep

\* In every check that met no late answer the driver succeeds exactly when the modem gave
\* good answers, then reports this check's signal and an operator, reports no new signal
\* otherwise, and faults over no name but one that is longer than its array.
THEOREM AtRight == AtSpec => []RightUnlessLate
<1>1. AtInit => AtType /\ OperatorFirst /\ InTime
  BY EmptySeq DEF AtInit, AtType, OperatorFirst, InTime, AnswerOwn, EndsRight
<1>2. AtType /\ OperatorFirst /\ InTime /\ [AtNext]_atVars => (AtType /\ OperatorFirst /\ InTime)'
  BY AtTypes, OperatorKept, InTimeKept
<1>3. AtType /\ OperatorFirst /\ InTime => RightUnlessLate
  BY DEF OperatorFirst, InTime, EndsRight, RightUnlessLate
<1> QED BY <1>1, <1>2, <1>3, PTL DEF AtSpec

------------------------------------------------------------------------------
(* SemBuffer.                                                              *)

\* A semaphore that this run has opened and not unlinked yet has a count, whoever
\* created it; and a thread in its loop has an item left.
OpenedInv ==
  /\ run \in {"open_nempty", "open_nstored", "running", "unlink_mutex"} => mutex \in Nat
  /\ run \in {"open_nstored", "running", "unlink_mutex", "unlink_nempty"} => nempty \in Nat
  /\ run \in {"running", "unlink_mutex", "unlink_nempty", "unlink_nstored"} => nstored \in Nat
  /\ run = "running" /\ ppc # "end" => pi < NItems
  /\ run = "running" /\ cpc # "end" => ci < NItems

\* What main has opened so far has its initial value, when nothing was inherited.
FreshInv ==
  /\ run = "open_nempty" /\ ~inherited => mutex = 1
  /\ run = "open_nstored" /\ ~inherited => mutex = 1 /\ nempty = NBUFF

Inv == TypeOK /\ OpenedInv /\ FreshInv /\ SlotsAccounted

USE SemBufferAssumption DEF Value

\* No semaphore exists and no thread runs (sem_pc.c:27).
LEMMA InitInv == Init => Inv
<1> SUFFICES ASSUME Init PROVE Inv
  OBVIOUS
<1>1. run = "off"
  BY DEF Init, Off
<1>2. buff \in [0..(NBUFF - 1) -> 0..NItems]
  BY DEF Init, Off
<1>3. inherited \in BOOLEAN /\ bad \in BOOLEAN
  BY DEF Init
<1>4. TypeOK
  BY <1>1, <1>2, <1>3 DEF Init, Off, TypeOK, RunPlaces, ProducePlaces, ConsumePlaces
<1> QED BY <1>1, <1>4 DEF Inv, OpenedInv, FreshInv, SlotsAccounted, Clean

\* main's three sem_open (sem_pc.c:36-47), on new names and on old ones.
LEMMA OpenStep == ASSUME Inv, Open PROVE Inv'
<1> USE DEF Inv, SemOpen
<1>1. CASE OpenMutex
  <2>1. TypeOK' /\ OpenedInv'
    BY <1>1 DEF OpenMutex, TypeOK, OpenedInv, RunPlaces
  <2> QED BY <1>1, <2>1 DEF OpenMutex, TypeOK, FreshInv, SlotsAccounted, Clean
<1>2. CASE OpenNempty
  <2>1. TypeOK' /\ OpenedInv'
    BY <1>2 DEF OpenNempty, TypeOK, OpenedInv, RunPlaces
  <2> QED BY <1>2, <2>1 DEF OpenNempty, TypeOK, FreshInv, SlotsAccounted, Clean
<1>3. CASE OpenNstored
  <2>1. TypeOK' /\ OpenedInv'
    BY <1>3 DEF OpenNstored, TypeOK, OpenedInv, RunPlaces, ProducePlaces, ConsumePlaces
  <2>2. ~inherited' => mutex = 1 /\ nempty = NBUFF /\ nstored' = 0
    BY <1>3 DEF OpenNstored, TypeOK, FreshInv
  <2>3. /\ mutex' = mutex /\ nempty' = nempty /\ pi' = 0 /\ ci' = 0
        /\ ppc' \in {"nempty", "end"} /\ cpc' \in {"nstored", "end"}
    BY <1>3 DEF OpenNstored
  <2>4. Filling' = 0 /\ Emptying' = 0 /\ ~ProducerInside' /\ ~ConsumerInside'
    BY <2>3 DEF Filling, Emptying, ProducerInside, ConsumerInside
  <2>5. SlotsAccounted'
    BY <2>2, <2>3, <2>4 DEF SlotsAccounted, Clean
  <2> QED BY <1>3, <2>1, <2>5 DEF OpenNstored, FreshInv
<1> QED BY <1>1, <1>2, <1>3 DEF Open

\* Each wait, store and post of produce (sem_pc.c:63-70).
LEMMA ProducerKeeps == ASSUME Inv, ProducerStep PROVE Inv'
<1> USE DEF Inv, Produce, producerOnly, sems, SemWait, SemPost
<1>0. run = "running" /\ run' = "running" /\ inherited' = inherited
  BY DEF ProducerStep, WaitEmpty, ProduceLock, Store, ProduceUnlock, PostStored
<1>1. CASE WaitEmpty
  <2>1. TypeOK' /\ OpenedInv'
    BY <1>1 DEF WaitEmpty, TypeOK, OpenedInv, ProducePlaces
  <2>2. SlotsAccounted'
    BY <1>0, <1>1 DEF WaitEmpty, TypeOK, OpenedInv, SlotsAccounted, Clean, Filling, Emptying,
                      ProducerInside, ConsumerInside
  <2> QED BY <1>0, <2>1, <2>2 DEF FreshInv
<1>2. CASE ProduceLock
  <2>1. TypeOK' /\ OpenedInv'
    BY <1>2 DEF ProduceLock, TypeOK, OpenedInv, ProducePlaces
  <2>2. SlotsAccounted'
    BY <1>0, <1>2 DEF ProduceLock, TypeOK, OpenedInv, SlotsAccounted, Clean, Filling, Emptying,
                      ProducerInside, ConsumerInside
  <2> QED BY <1>0, <2>1, <2>2 DEF FreshInv
<1>3. CASE Store
  <2>1. buff' \in [0..(NBUFF - 1) -> 0..NItems]
    BY <1>3 DEF Store, TypeOK
  <2>2. TypeOK' /\ OpenedInv'
    BY <1>3, <2>1 DEF Store, TypeOK, OpenedInv, ProducePlaces
  <2>3. SlotsAccounted'
    BY <1>0, <1>3 DEF Store, SlotsAccounted, Clean, Filling, Emptying,
                      ProducerInside, ConsumerInside
  <2> QED BY <1>0, <2>2, <2>3 DEF FreshInv
<1>4. CASE ProduceUnlock
  <2>1. TypeOK' /\ OpenedInv'
    BY <1>4 DEF ProduceUnlock, TypeOK, OpenedInv, ProducePlaces
  <2>2. SlotsAccounted'
    BY <1>0, <1>4 DEF ProduceUnlock, TypeOK, OpenedInv, SlotsAccounted, Clean, Filling, Emptying,
                      ProducerInside, ConsumerInside
  <2> QED BY <1>0, <2>1, <2>2 DEF FreshInv
<1>5. CASE PostStored
  <2>1. TypeOK' /\ OpenedInv'
    BY <1>5 DEF PostStored, TypeOK, OpenedInv, ProducePlaces
  <2>2. SlotsAccounted'
    BY <1>0, <1>5 DEF PostStored, TypeOK, OpenedInv, SlotsAccounted, Clean, Filling, Emptying,
                      ProducerInside, ConsumerInside
  <2> QED BY <1>0, <2>1, <2>2 DEF FreshInv
<1> QED BY <1>1, <1>2, <1>3, <1>4, <1>5 DEF ProducerStep

\* Each wait, check and post of consume (sem_pc.c:78-86).
LEMMA ConsumerKeeps == ASSUME Inv, ConsumerStep PROVE Inv'
<1> USE DEF Inv, Consume, consumerOnly, sems, SemWait, SemPost
<1>0. run = "running" /\ run' = "running" /\ inherited' = inherited
  BY DEF ConsumerStep, WaitStored, ConsumeLock, Check, ConsumeUnlock, PostEmpty
<1>1. CASE WaitStored
  <2>1. TypeOK' /\ OpenedInv'
    BY <1>1 DEF WaitStored, TypeOK, OpenedInv, ConsumePlaces
  <2>2. SlotsAccounted'
    BY <1>0, <1>1 DEF WaitStored, TypeOK, OpenedInv, SlotsAccounted, Clean, Filling, Emptying,
                      ProducerInside, ConsumerInside
  <2> QED BY <1>0, <2>1, <2>2 DEF FreshInv
<1>2. CASE ConsumeLock
  <2>1. TypeOK' /\ OpenedInv'
    BY <1>2 DEF ConsumeLock, TypeOK, OpenedInv, ConsumePlaces
  <2>2. SlotsAccounted'
    BY <1>0, <1>2 DEF ConsumeLock, TypeOK, OpenedInv, SlotsAccounted, Clean, Filling, Emptying,
                      ProducerInside, ConsumerInside
  <2> QED BY <1>0, <2>1, <2>2 DEF FreshInv
<1>3. CASE Check
  <2>1. bad' \in BOOLEAN
    BY <1>3 DEF Check
  <2>2. TypeOK' /\ OpenedInv'
    BY <1>3, <2>1 DEF Check, TypeOK, OpenedInv, ConsumePlaces
  <2>3. SlotsAccounted'
    BY <1>0, <1>3 DEF Check, SlotsAccounted, Clean, Filling, Emptying,
                      ProducerInside, ConsumerInside
  <2> QED BY <1>0, <2>2, <2>3 DEF FreshInv
<1>4. CASE ConsumeUnlock
  <2>1. TypeOK' /\ OpenedInv'
    BY <1>4 DEF ConsumeUnlock, TypeOK, OpenedInv, ConsumePlaces
  <2>2. SlotsAccounted'
    BY <1>0, <1>4 DEF ConsumeUnlock, TypeOK, OpenedInv, SlotsAccounted, Clean, Filling, Emptying,
                      ProducerInside, ConsumerInside
  <2> QED BY <1>0, <2>1, <2>2 DEF FreshInv
<1>5. CASE PostEmpty
  <2>1. TypeOK' /\ OpenedInv'
    BY <1>5 DEF PostEmpty, TypeOK, OpenedInv, ConsumePlaces
  <2>2. SlotsAccounted'
    BY <1>0, <1>5 DEF PostEmpty, TypeOK, OpenedInv, SlotsAccounted, Clean, Filling, Emptying,
                      ProducerInside, ConsumerInside
  <2> QED BY <1>0, <2>1, <2>2 DEF FreshInv
<1> QED BY <1>1, <1>2, <1>3, <1>4, <1>5 DEF ConsumerStep

\* After the joins nothing runs (sem_pc.c:51-55); a killed process leaves its counts.
LEMMA MainKeeps == ASSUME Inv, MainStep \/ Crash PROVE Inv'
<1>0. TypeOK /\ OpenedInv
  BY DEF Inv
<1>1. TypeOK' /\ OpenedInv'
  <2>1. CASE Joined
    BY <1>0, <2>1 DEF Joined, sems, threads, TypeOK, OpenedInv, RunPlaces
  <2>2. CASE UnlinkMutex
    BY <1>0, <2>2 DEF UnlinkMutex, threads, TypeOK, OpenedInv, RunPlaces
  <2>3. CASE UnlinkNempty
    BY <1>0, <2>3 DEF UnlinkNempty, threads, TypeOK, OpenedInv, RunPlaces
  <2>4. CASE UnlinkNstored
    BY <1>0, <2>4 DEF UnlinkNstored, threads, TypeOK, OpenedInv, RunPlaces
  <2>5. CASE Crash
    BY <1>0, <2>5 DEF Crash, sems, TypeOK, OpenedInv, RunPlaces
  <2> QED BY <2>1, <2>2, <2>3, <2>4, <2>5 DEF MainStep
<1>2. run' \in {"unlink_mutex", "unlink_nempty", "unlink_nstored", "off"}
  BY DEF MainStep, Joined, UnlinkMutex, UnlinkNempty, UnlinkNstored, Crash
<1> QED BY <1>1, <1>2 DEF Inv, FreshInv, SlotsAccounted, Clean

\* Every step keeps them.
LEMMA InvStep == Inv /\ [Next]_vars => Inv'
<1> SUFFICES ASSUME Inv, [Next]_vars PROVE Inv'
  OBVIOUS
<1>1. CASE UNCHANGED vars
  BY <1>1 DEF vars, sems, Inv, TypeOK, OpenedInv, FreshInv, SlotsAccounted, Clean,
              Filling, Emptying, ProducerInside, ConsumerInside
<1> QED BY <1>1, OpenStep, ProducerKeeps, ConsumerKeeps, MainKeeps DEF Next

\* Counters, places and counts keep to their ranges (sem_pc.c:27-89), through crashes.
THEOREM TypesSafe == Spec => []TypeOK
<1>1. Inv => TypeOK
  BY DEF Inv
<1> QED BY InitInv, InvStep, <1>1, PTL DEF Spec

\* Every slot is counted once and the mutex excludes, in every run that created its
\* semaphores (sem_pc.c:59-89), for any ring and any number of items.
THEOREM SlotsSafe == Spec => []SlotsAccounted
<1>1. Inv => SlotsAccounted
  BY DEF Inv
<1> QED BY InitInv, InvStep, <1>1, PTL DEF Spec

------------------------------------------------------------------------------
\* The items that are in the ring: stored and their slot not given back.
Kept(k) == ci <= k /\ (k < pi \/ (k = pi /\ ppc \in {"post_mutex", "post_nstored"}))

\* Each of them is where the consumer will look for it.
ContentInv == Clean => \A k \in Nat : Kept(k) => buff[k % NBUFF] = k

\* Two items less than NBUFF apart have different slots (sem_pc.c:67, 81).
LEMMA SlotsApart ==
  ASSUME NEW a \in Nat, NEW b \in Nat, a < b, b < a + NBUFF
  PROVE  a % NBUFF # b % NBUFF
<1> SUFFICES ASSUME a % NBUFF = b % NBUFF PROVE FALSE
  OBVIOUS
<1>1. /\ a = NBUFF * (a \div NBUFF) + (a % NBUFF)
      /\ b = NBUFF * (b \div NBUFF) + (b % NBUFF)
  OBVIOUS
<1>2. a \div NBUFF \in Int /\ b \div NBUFF \in Int
  OBVIOUS
<1>3. (b \div NBUFF) - (a \div NBUFF) \in Int
  BY <1>2
<1>4. PICK q \in Int : q = (b \div NBUFF) - (a \div NBUFF)
  BY <1>3, Zenon
<1>5. b - a = NBUFF * q
  BY <1>1, <1>2, <1>4
<1>6. q > 0
  BY <1>5
<1>7. NBUFF * q >= NBUFF
  BY <1>6
<1> QED BY <1>5, <1>7

\* The producer stores at most NBUFF - 1 items ahead (sem_pc.c:64), so it overwrites
\* none that the consumer has yet to meet.
LEMMA StoreKeepsContent ==
  ASSUME Inv, ContentInv, Store
  PROVE  ContentInv'
<1>0. run = "running" /\ ppc = "store" /\ ppc' = "post_mutex"
  BY DEF Store, Produce
<1> SUFFICES ASSUME Clean', NEW k \in Nat, Kept(k)' PROVE buff'[k % NBUFF] = k
  BY DEF ContentInv
<1>1. Clean
  BY <1>0 DEF Clean, Store, producerOnly
<1>2. /\ pi \in Nat /\ ci \in Nat /\ nempty \in Nat
      /\ buff \in [0..(NBUFF - 1) -> 0..NItems]
  BY <1>0 DEF Inv, TypeOK, OpenedInv
<1>3. Filling = 1 /\ Emptying \in {0, 1}
  BY <1>0 DEF Filling, Emptying
<1>4. nempty + 1 + nstored + Emptying = NBUFF /\ nstored = pi - ci - Emptying
  BY <1>1, <1>3 DEF Inv, SlotsAccounted
<1>5. pi < ci + NBUFF
  BY <1>2, <1>3, <1>4
<1>6. ci <= k /\ (k < pi \/ k = pi) /\ buff' = [buff EXCEPT ![pi % NBUFF] = pi]
  BY DEF Kept, Store, producerOnly
<1>7. k % NBUFF \in 0..(NBUFF - 1) /\ pi % NBUFF \in 0..(NBUFF - 1)
  BY <1>2
<1>8. CASE k = pi
  BY <1>2, <1>6, <1>7, <1>8
<1>9. CASE k < pi
  <2>0. pi < k + NBUFF
    BY <1>2, <1>5, <1>6
  <2>1. k % NBUFF # pi % NBUFF
    BY <1>2, <1>9, <2>0, SlotsApart, Zenon
  <2>2. buff[k % NBUFF] = k
    BY <1>1, <1>6, <1>9 DEF ContentInv, Kept
  <2> QED BY <1>2, <1>6, <1>7, <2>1, <2>2
<1> QED BY <1>6, <1>8, <1>9

\* The consumer has been told of an item before it looks for it (sem_pc.c:79).
LEMMA CheckMeetsItem ==
  ASSUME Inv, ContentInv, Check, ~inherited
  PROVE  buff[ci % NBUFF] = ci
<1>0. run = "running" /\ cpc = "check"
  BY DEF Check, Consume
<1>1. Clean /\ pi \in Nat /\ ci \in Nat /\ nstored \in Nat
  BY <1>0 DEF Clean, Inv, TypeOK, OpenedInv
<1>2. Emptying = 1
  BY <1>0 DEF Emptying
<1>3. nstored = pi - ci - 1
  BY <1>1, <1>2 DEF Inv, SlotsAccounted
<1>4. Kept(ci)
  BY <1>1, <1>3 DEF Kept
<1> QED BY <1>1, <1>4 DEF ContentInv

ItemsInv == Inv /\ ContentInv /\ ItemsInOrder

\* Every step keeps the items in their slots and meets them in order.
LEMMA ItemsStep == ItemsInv /\ [Next]_vars => ItemsInv'
<1> SUFFICES ASSUME ItemsInv, [Next]_vars PROVE ItemsInv'
  OBVIOUS
<1>1. Inv' /\ Inv /\ ContentInv /\ ItemsInOrder
  BY InvStep DEF ItemsInv
<1>2. ASSUME buff' = buff, pi' = pi, ci' = ci, ppc' = ppc, Clean' => Clean PROVE ContentInv'
  BY <1>1, <1>2 DEF ContentInv, Kept
<1>3. ASSUME inherited' = inherited, bad' = bad PROVE ItemsInOrder'
  BY <1>1, <1>3 DEF ItemsInOrder
<1>4. CASE Open
  <2>1. CASE OpenMutex \/ OpenNempty
    <3>1. ContentInv'
      BY <2>1 DEF OpenMutex, OpenNempty, ContentInv, Clean
    <3>2. ItemsInOrder'
      BY <1>1, <2>1 DEF OpenMutex, OpenNempty, ItemsInOrder
    <3> QED BY <1>1, <3>1, <3>2 DEF ItemsInv
  <2>2. CASE OpenNstored
    <3>1. pi' = 0 /\ ci' = 0 /\ ppc' \in {"nempty", "end"}
      BY <2>2 DEF OpenNstored
    <3>2. \A k \in Nat : ~Kept(k)'
      BY <3>1 DEF Kept
    <3>3. ItemsInOrder'
      BY <1>1, <2>2 DEF OpenNstored, ItemsInOrder
    <3> QED BY <1>1, <3>2, <3>3 DEF ItemsInv, ContentInv
  <2> QED BY <1>4, <2>1, <2>2 DEF Open
<1>5. CASE ProducerStep
  <2>0. run = "running" /\ (Clean' => Clean) /\ ItemsInOrder'
    BY <1>3, <1>5 DEF ProducerStep, WaitEmpty, ProduceLock, Store, ProduceUnlock, PostStored,
                      Produce, producerOnly, Clean
  <2>1. CASE Store
    BY <1>1, <2>0, <2>1, StoreKeepsContent DEF ItemsInv
  <2>2. CASE WaitEmpty \/ ProduceLock \/ ProduceUnlock \/ PostStored
    <3>1. pi \in Nat /\ ci \in Nat
      BY <1>1 DEF Inv, TypeOK
    <3>2. buff' = buff /\ \A k \in Nat : Kept(k)' => Kept(k)
      BY <2>2, <3>1 DEF WaitEmpty, ProduceLock, ProduceUnlock, PostStored, Produce, producerOnly, Kept
    <3> QED BY <1>1, <2>0, <3>2 DEF ItemsInv, ContentInv
  <2> QED BY <1>5, <2>1, <2>2 DEF ProducerStep
<1>6. CASE ConsumerStep
  <2>0. run = "running" /\ (Clean' => Clean) /\ buff' = buff /\ pi' = pi /\ ppc' = ppc
    BY <1>6 DEF ConsumerStep, WaitStored, ConsumeLock, Check, ConsumeUnlock, PostEmpty,
                Consume, consumerOnly, Clean
  <2>1. CASE Check
    <3>1. ContentInv'
      BY <1>2, <2>0, <2>1 DEF Check
    <3>2. ItemsInOrder'
      BY <1>1, <2>1, CheckMeetsItem DEF Check, consumerOnly, ItemsInOrder
    <3> QED BY <1>1, <3>1, <3>2 DEF ItemsInv
  <2>2. CASE WaitStored \/ ConsumeLock \/ ConsumeUnlock
    BY <1>1, <1>2, <1>3, <2>0, <2>2 DEF WaitStored, ConsumeLock, ConsumeUnlock, consumerOnly, ItemsInv
  <2>3. CASE PostEmpty
    <3>1. ci \in Nat /\ ci' = ci + 1
      BY <1>1, <2>3 DEF Inv, TypeOK, PostEmpty
    <3>2. \A k \in Nat : Kept(k)' => Kept(k)
      BY <2>0, <3>1 DEF Kept
    <3>3. ItemsInOrder'
      BY <1>3, <2>3 DEF PostEmpty, consumerOnly
    <3> QED BY <1>1, <2>0, <3>2, <3>3 DEF ItemsInv, ContentInv
  <2> QED BY <1>6, <2>1, <2>2, <2>3 DEF ConsumerStep
<1>7. CASE MainStep \/ Crash
  <2>1. ~Clean'
    BY <1>7 DEF MainStep, Joined, UnlinkMutex, UnlinkNempty, UnlinkNstored, Crash, Clean
  <2>2. ItemsInOrder'
    BY <1>3, <1>7 DEF MainStep, Joined, UnlinkMutex, UnlinkNempty, UnlinkNstored, Crash, threads
  <2> QED BY <1>1, <2>1, <2>2 DEF ItemsInv, ContentInv
<1>8. CASE UNCHANGED vars
  BY <1>1, <1>2, <1>3, <1>8 DEF vars, ItemsInv, Clean
<1> QED BY <1>4, <1>5, <1>6, <1>7, <1>8 DEF Next

\* The check of sem_pc.c:81 finds every item, for any ring and any number of items, in
\* every run that created its semaphores, also after any number of crashes.
THEOREM ItemsSafe == Spec => []ItemsInOrder
<1>1. Init => ItemsInv
  <2> SUFFICES ASSUME Init PROVE ItemsInv
    OBVIOUS
  <2>1. ~Clean /\ bad = FALSE
    BY DEF Init, Off, Clean
  <2> QED BY <2>1, InitInv DEF ItemsInv, ContentInv, ItemsInOrder
<1>2. ItemsInv => ItemsInOrder
  BY DEF ItemsInv
<1> QED BY <1>1, <1>2, ItemsStep, PTL DEF Spec

------------------------------------------------------------------------------
(* RwLock.                                                                 *)

RwType ==
  /\ love \in Nat
  /\ tpc \in [Threads -> {"test", "lock", "hold", "sleep", "ended"}]

\* The writers that have passed the test and have not added yet.
Adding == {w \in Writers : tpc[w] \in {"lock", "hold"}}

\* Each of them was let in at a time when love was within the limit.
AddingInv == love + Cardinality(Adding) <= Limit + NWriters

RwInv == RwType /\ AddingInv

\* There are as many writers as the first loop of main creates (rwlock.c:45).
LEMMA WritersFinite == IsFiniteSet(Writers) /\ Cardinality(Writers) = NWriters
<1>1. NWriters \in Nat
  BY RwAssumption
<1> QED BY <1>1, FS_Interval, SMTT(20) DEF Writers

\* No more writers can be between the test and the addition than there are.
LEMMA AddingFinite == /\ IsFiniteSet(Adding) /\ Cardinality(Adding) \in Nat
                      /\ Cardinality(Adding) <= NWriters
<1>1. Adding \subseteq Writers
  BY DEF Adding
<1>2. IsFiniteSet(Adding) /\ Cardinality(Adding) <= Cardinality(Writers)
  BY <1>1, WritersFinite, FS_Subset
<1> QED BY <1>2, WritersFinite, FS_CardinalityType

\* The writers are the first threads of the array (rwlock.c:47).
LEMMA WritersThreads == Writers \subseteq Threads
BY RwAssumption DEF Writers, Threads

\* No thread has passed the test when main creates them (rwlock.c:45).
LEMMA RwInitInv == RwInit => RwInv
<1> SUFFICES ASSUME RwInit PROVE RwInv
  OBVIOUS
<1>1. RwType
  BY DEF RwInit, RwType
<1>2. Adding = {}
  BY WritersThreads DEF RwInit, Adding
<1>3. Cardinality(Adding) = 0
  BY <1>2, FS_EmptySet
<1> QED BY <1>1, <1>3, RwAssumption DEF RwInit, RwInv, AddingInv

\* A thread that stays on one side of the test and of the addition changes nothing.
LEMMA SameAdding ==
  ASSUME RwInv, love' = love, RwType', Adding' = Adding
  PROVE  RwInv'
BY DEF RwInv, AddingInv

\* printf adds 40 for a writer (rwlock.c:17), which is then no longer one that will.
LEMMA AddOnce ==
  ASSUME RwInv, NEW t \in Threads, tpc[t] = "hold",
         love' = IF t \in Writers THEN love + 1 ELSE love,
         NEW where \in {"sleep", "ended"}, ThreadGoes(t, where)
  PROVE  RwInv'
<1>1. RwType'
  BY DEF RwInv, RwType, ThreadGoes
<1>2. CASE t \in Writers
  <2>1. t \in Adding /\ Adding' = Adding \ {t}
    BY <1>2, WritersThreads DEF RwInv, RwType, Adding, ThreadGoes
  <2>2. Cardinality(Adding \ {t}) = Cardinality(Adding) - 1
    BY <2>1, AddingFinite, FS_RemoveElement
  <2>3. Cardinality(Adding)' = Cardinality(Adding) - 1
    BY <2>1, <2>2
  <2> QED BY <1>1, <1>2, <2>3, AddingFinite, RwAssumption DEF RwInv, RwType, AddingInv
<1>3. CASE t \notin Writers
  <2>1. Adding' = Adding
    BY <1>3, WritersThreads DEF RwInv, RwType, Adding, ThreadGoes
  <2> QED BY <1>1, <1>3, <2>1, SameAdding
<1> QED BY <1>2, <1>3

\* Every step of a thread and of main keeps the bound.
LEMMA RwStep == RwInv /\ [RwNext]_rwVars => RwInv'
<1> SUFFICES ASSUME RwInv, [RwNext]_rwVars PROVE RwInv'
  OBVIOUS
<1>1. ASSUME NEW t \in Threads, Test(t) PROVE RwInv'
  <2>1. RwType'
    BY <1>1 DEF Test, ThreadGoes, RwInv, RwType
  <2>2. CASE love <= Limit
    <3>1. IsFiniteSet(Adding') /\ Cardinality(Adding') \in Nat /\ Cardinality(Adding') <= NWriters
      <4>1. Adding' \subseteq Writers
        BY DEF Adding
      <4>2. IsFiniteSet(Adding') /\ Cardinality(Adding') <= Cardinality(Writers)
        BY <4>1, WritersFinite, FS_Subset
      <4> QED BY <4>2, WritersFinite, FS_CardinalityType
    <3>2. love' = love
      BY <1>1 DEF Test
    <3> QED BY <2>1, <2>2, <3>1, <3>2, RwAssumption DEF RwInv, RwType, AddingInv
  <2>3. CASE ~(love <= Limit)
    <3>1. Adding' = Adding
      BY <1>1, <2>3, WritersThreads DEF Test, ThreadGoes, RwInv, RwType, Adding
    <3> QED BY <1>1, <2>1, <3>1, SameAdding DEF Test
  <2> QED BY <2>2, <2>3
<1>2. ASSUME NEW t \in Threads, Acquire(t) PROVE RwInv'
  <2>1. RwType' /\ Adding' = Adding
    BY <1>2, WritersThreads DEF Acquire, ThreadGoes, RwInv, RwType, Adding
  <2> QED BY <1>2, <2>1, SameAdding DEF Acquire
<1>3. ASSUME NEW t \in Threads, Release(t) PROVE RwInv'
  BY <1>3, AddOnce DEF Release
<1>4. ASSUME NEW t \in Threads, CancelledHolding(t) PROVE RwInv'
  BY <1>4, AddOnce DEF CancelledHolding
<1>5. ASSUME NEW t \in Threads, Wake(t) PROVE RwInv'
  <2>1. RwType' /\ Adding' = Adding
    BY <1>5, WritersThreads DEF Wake, ThreadGoes, RwInv, RwType, Adding
  <2> QED BY <1>5, <2>1, SameAdding DEF Wake
<1>6. ASSUME love' = love, tpc' = tpc PROVE RwInv'
  <2>1. RwType' /\ Adding' = Adding
    BY <1>6 DEF RwInv, RwType, Adding
  <2> QED BY <1>6, <2>1, SameAdding
<1>7. CASE MainStarts \/ MainCancels \/ MainJoins
  BY <1>6, <1>7 DEF MainStarts, MainCancels, MainJoins
<1>8. CASE UNCHANGED rwVars
  BY <1>6, <1>8 DEF rwVars
<1> QED BY <1>1, <1>2, <1>3, <1>4, <1>5, <1>7, <1>8 DEF RwNext

\* The test outside the lock (rwlock.c:14) costs at most one addition of each writer
\* past the limit, for any number of writers and readers.
THEOREM LoveSafe == RwSpec => []LoveBounded
<1>1. RwInv => LoveBounded
  BY AddingFinite, RwAssumption DEF RwInv, RwType, AddingInv, LoveBounded
<1> QED BY RwInitInv, RwStep, <1>1, PTL DEF RwSpec
==============================================================================
