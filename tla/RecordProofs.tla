---------------------------- MODULE RecordProofs ----------------------------
(***************************************************************************)
(* Records stored, printed and sent: RowsAsTold of SqlStore for any        *)
(* number of processes, rows and calls of the busy handler, KvKeepsUpdates *)
(* of KvFile for any keys, values and number of open files, CalendarRight  *)
(* of BeijingTime for any years, days and hours, FixTold of GpsFix, with   *)
(* CalendarRight for the dates it prints, for any sentences of a receiver  *)
(* and any number of them, and MessagesGivenOnce of MsgQueue for any       *)
(* types and lengths, receivers and limit of the queue.                    *)
(***************************************************************************)
EXTENDS SqlStore, KvFile, GpsFix, MsgQueue, SequenceTheorems, WellFoundedInduction, TLAPS

(* SqlStore.                                                               *)

SqlType ==
  /\ sqlpc \in [Procs -> {"begin", "exec", "commit", "select", "gone"}]
  /\ loop \in [Procs -> {1, 2}] /\ row \in [Procs -> Nat] /\ repeat \in [Procs -> Nat]
  /\ tx \in [Procs -> BOOLEAN]
  /\ DOMAIN written = Procs /\ written = [p \in Procs |-> written[p]]

\* What is written and not committed: exactly the row modify_sql is about to commit,
\* or rows of a transaction that was left open, in which the process cannot begin
\* another one.
WrittenInv ==
  \A p \in Procs :
    /\ sqlpc[p] = "exec" => tx[p] /\ written[p] = {}
    /\ sqlpc[p] = "commit" => tx[p] /\ written[p] = {Row(p)}
    /\ sqlpc[p] = "begin" /\ ~tx[p] => written[p] = {}

SqlInv == SqlType /\ WrittenInv /\ RowsAsTold

\* The initial state of main (sqlite.c:245): nothing is written.
LEMMA SqlInitInv == SqlInit => SqlInv
BY DEF SqlInit, SqlInv, SqlType, WrittenInv, RowsAsTold

\* The end of a loop (sqlite.c:265, 275) changes the place of one process only.
LEMMA LoopEndsType ==
  ASSUME SqlType, NEW p \in Procs, LoopEnds(p)
  PROVE  /\ sqlpc' \in [Procs -> {"begin", "exec", "commit", "select", "gone"}]
         /\ loop' \in [Procs -> {1, 2}] /\ row' \in [Procs -> Nat] /\ repeat' \in [Procs -> Nat]
         /\ sqlpc'[p] \in {"begin", "select"}
         /\ \A q \in Procs \ {p} : /\ sqlpc'[q] = sqlpc[q]
                                   /\ loop'[q] = loop[q] /\ row'[q] = row[q]
BY DEF SqlType, LoopEnds

\* Every step of modify_sql and of main keeps the three.
LEMMA SqlStep == SqlInv /\ [SqlNext]_sqlVars => SqlInv'
<1> SUFFICES ASSUME SqlInv, [SqlNext]_sqlVars PROVE SqlInv'
  OBVIOUS
<1> USE DEF SqlInv
<1>1. CASE UNCHANGED sqlVars
  BY <1>1 DEF sqlVars, SqlType, WrittenInv, Row, RowsAsTold
<1>2. ASSUME NEW p \in Procs, Begin(p) PROVE SqlInv'
  <2>1. SqlType'
    BY <1>2 DEF Begin, Goto, SqlType
  <2>2. WrittenInv'
    BY <1>2 DEF Begin, Goto, SqlType, WrittenInv, Row
  <2> QED BY <1>2, <2>1, <2>2 DEF Begin, RowsAsTold
<1>3. ASSUME NEW p \in Procs, Busy(p) PROVE SqlInv'
  BY <1>3 DEF Busy, SqlType, WrittenInv, Row, RowsAsTold
<1>4. ASSUME NEW p \in Procs, BeginFails(p) PROVE SqlInv'
  <2>0. LoopEnds(p) BY <1>4 DEF BeginFails
  <2>1. SqlType'
    BY <1>4, <2>0, LoopEndsType DEF BeginFails, SqlType
  <2>2. ASSUME NEW q \in Procs \ {p}
        PROVE  /\ sqlpc[q]' = sqlpc[q] /\ Row(q)' = Row(q)
               /\ tx[q]' = tx[q] /\ written[q]' = written[q]
    BY <1>4, <2>0, LoopEndsType DEF BeginFails, Row
  <2>3. sqlpc[p]' = "begin" /\ ~tx[p]' => written[p]' = {}
    BY <1>4 DEF BeginFails, WrittenInv
  <2>4. sqlpc[p]' \in {"begin", "select"}
    BY <2>0, LoopEndsType
  <2>5. WrittenInv'
    BY <2>2, <2>3, <2>4 DEF WrittenInv
  <2> QED BY <1>4, <2>1, <2>5 DEF BeginFails, RowsAsTold
<1>5. ASSUME NEW p \in Procs, Exec(p) PROVE SqlInv'
  <2>1. SqlType'
    BY <1>5 DEF Exec, Goto, SqlType
  <2>2. written[p]' = {Row(p)'}
    BY <1>5 DEF Exec, SqlType, WrittenInv, Row
  <2>3. WrittenInv'
    BY <1>5, <2>2 DEF Exec, Goto, SqlType, WrittenInv, Row
  <2> QED BY <1>5, <2>1, <2>3 DEF Exec, RowsAsTold
<1>6. ASSUME NEW p \in Procs, ExecFails(p) PROVE SqlInv'
  <2>0. LoopEnds(p) BY <1>6 DEF ExecFails
  <2>1. SqlType'
    <3>1. /\ tx' \in [Procs -> BOOLEAN]
          /\ DOMAIN written' = Procs /\ written' = [q \in Procs |-> written'[q]]
      <4>1. CASE UNCHANGED <<tx, written>>
        BY <4>1 DEF SqlType
      <4>2. CASE tx' = [tx EXCEPT ![p] = FALSE] /\ written' = [written EXCEPT ![p] = {}]
        BY <4>2 DEF SqlType
      <4> QED BY <1>6, <4>1, <4>2 DEF ExecFails
    <3> QED BY <2>0, <3>1, LoopEndsType DEF SqlType
  <2>2. ASSUME NEW q \in Procs \ {p}
        PROVE  /\ sqlpc[q]' = sqlpc[q] /\ Row(q)' = Row(q)
               /\ tx[q]' = tx[q] /\ written[q]' = written[q]
    BY <1>6, <2>0, LoopEndsType DEF ExecFails, Row, SqlType
  <2>3. sqlpc[p]' = "begin" /\ ~tx[p]' => written[p]' = {}
    BY <1>6 DEF ExecFails, WrittenInv, SqlType
  <2>4. sqlpc[p]' \in {"begin", "select"}
    BY <2>0, LoopEndsType
  <2>5. WrittenInv'
    BY <2>2, <2>3, <2>4 DEF WrittenInv
  <2> QED BY <1>6, <2>1, <2>5 DEF ExecFails, RowsAsTold
<1>7. ASSUME NEW p \in Procs, Commit(p) PROVE SqlInv'
  <2>1. /\ sqlpc' \in [Procs -> {"begin", "exec", "commit", "select", "gone"}]
        /\ loop' \in [Procs -> {1, 2}] /\ row' \in [Procs -> Nat] /\ repeat' \in [Procs -> Nat]
        /\ sqlpc'[p] \in {"begin", "select"}
        /\ \A q \in Procs \ {p} : /\ sqlpc'[q] = sqlpc[q]
                                  /\ loop'[q] = loop[q] /\ row'[q] = row[q]
    <3>1. CASE row[p] < NRows
      BY <1>7, <3>1 DEF Commit, Goto, SqlType
    <3>2. CASE ~(row[p] < NRows)
      BY <1>7, <3>2, LoopEndsType DEF Commit
    <3> QED BY <3>1, <3>2
  <2>2. SqlType'
    BY <1>7, <2>1 DEF Commit, SqlType
  <2>3. ASSUME NEW q \in Procs \ {p}
        PROVE  /\ sqlpc[q]' = sqlpc[q] /\ Row(q)' = Row(q)
               /\ tx[q]' = tx[q] /\ written[q]' = written[q]
    BY <1>7, <2>1 DEF Commit, Row, SqlType
  <2>4. written[p]' = {}
    BY <1>7 DEF Commit, SqlType
  <2>5. WrittenInv'
    BY <2>1, <2>3, <2>4 DEF WrittenInv
  <2>6. written[p] = {Row(p)}
    BY <1>7 DEF Commit, WrittenInv
  <2> QED BY <1>7, <2>2, <2>5, <2>6 DEF Commit, RowsAsTold
<1>8. ASSUME NEW p \in Procs, Gone(p) PROVE SqlInv'
  <2>1. SqlType'
    BY <1>8 DEF Gone, Goto, SqlType
  <2>2. WrittenInv'
    BY <1>8 DEF Gone, Goto, SqlType, WrittenInv, Row
  <2> QED BY <1>8, <2>1, <2>2 DEF Gone, RowsAsTold
<1> QED BY <1>1, <1>2, <1>3, <1>4, <1>5, <1>6, <1>7, <1>8 DEF SqlNext

\* A transaction left open by modify_sql (sqlite.c:116, 123) never brings a row into
\* the table that was not reported, for any number of processes and rows.
THEOREM RowsSafe == SqlSpec => []RowsAsTold
<1>1. SqlInv => RowsAsTold
  BY DEF SqlInv
<1> QED BY SqlInitInv, SqlStep, <1>1, PTL DEF SqlSpec

------------------------------------------------------------------------------
(* KvFile.                                                                 *)

\* The least number of a set of naturals is its Min.
LEMMA MinOfNats ==
  ASSUME NEW I, I \subseteq Nat, I # {}
  PROVE  Min(I) \in I /\ \A j \in I : Min(I) <= j
<1>1. PICK m \in I : \A j \in I : ~ (<<j, m>> \in OpToRel(<, Nat))
  BY NatLessThanWellFounded, WFMin
<1>2. \A j \in I : ~(j < m)
  BY <1>1 DEF OpToRel
<1>3. \A j \in I : m <= j
  BY <1>2
<1> QED BY <1>1, <1>3 DEF Min

\* Found is the first line of the key, or 0.
LEMMA FoundIs ==
  ASSUME NEW S, NEW f \in Seq(S), NEW k
  PROVE  \/ Found(f, k) = 0 /\ \A i \in 1..Len(f) : f[i][1] # k
         \/ /\ Found(f, k) \in 1..Len(f) /\ f[Found(f, k)][1] = k
            /\ \A i \in 1..Len(f) : f[i][1] = k => Found(f, k) <= i
<1> DEFINE I == {i \in 1..Len(f) : f[i][1] = k}
<1>1. Found(f, k) = IF I # {} THEN Min(I) ELSE 0
  BY DEF Found, SelectInSeq
<1>2. CASE I # {}
  <2>1. I \subseteq Nat
    OBVIOUS
  <2>2. Min(I) \in I /\ \A j \in I : Min(I) <= j
    BY <1>2, <2>1, MinOfNats
  <2> QED BY <1>1, <1>2, <2>2
<1>3. CASE I = {}
  BY <1>1, <1>3
<1> QED BY <1>2, <1>3

\* A line that is the first of its key is the one found.
LEMMA FoundAt ==
  ASSUME NEW S, NEW f \in Seq(S), NEW k, NEW n \in 1..Len(f), f[n][1] = k,
         \A i \in 1..Len(f) : f[i][1] = k => n <= i
  PROVE  Found(f, k) = n
<1>1. \/ Found(f, k) = 0 /\ \A i \in 1..Len(f) : f[i][1] # k
      \/ /\ Found(f, k) \in 1..Len(f) /\ f[Found(f, k)][1] = k
         /\ \A i \in 1..Len(f) : f[i][1] = k => Found(f, k) <= i
  BY FoundIs
<1> QED BY <1>1

\* A key that no line has is not found.
LEMMA FoundNot ==
  ASSUME NEW S, NEW f \in Seq(S), NEW k, \A i \in 1..Len(f) : f[i][1] # k
  PROVE  Found(f, k) = 0
BY FoundIs

Lines == Seq(Keys \X (Values \union {DAMAGED}))

\* The file has for every key what w says, or nothing or a damaged value after a kill.
Says(f, w, torn) ==
  \A k \in Keys : ValueOf(f, k) = w[k] \/ (torn /\ ValueOf(f, k) \in {MISSING, DAMAGED})

Torn == "torn" \in spoiled

KvType ==
  /\ file \in Lines /\ filebuf \in Lines
  /\ kvpc \in {"rest", "read", "append", "closed", "trunc"}
  /\ kvkey \in Keys /\ kvval \in Values
  /\ want = [k \in Keys |-> want[k]]

\* The file is good until it is truncated, and what will be written is good for the
\* update once it has been made.
FileSays == kvpc # "trunc" => Says(file, want, Torn)
BufferSays == kvpc \in {"closed", "trunc"} => Says(filebuf, [want EXCEPT ![kvkey] = kvval], Torn)
AppendNew == kvpc = "append" => Found(file, kvkey) = 0

KvInv == "joined" \in spoiled \/ (KvType /\ FileSays /\ BufferSays /\ AppendNew)

\* The lines copied with the key's value replaced say what was wanted, and the new value.
LEMMA ChangedSays ==
  ASSUME NEW f \in Lines, NEW k \in Keys, NEW v \in Values, NEW w, w = [x \in Keys |-> w[x]], NEW torn,
         Says(f, w, torn), Found(f, k) # 0
  PROVE  Changed(f, k, v) \in Lines /\ Says(Changed(f, k, v), [w EXCEPT ![k] = v], torn)
<1> DEFINE g == Changed(f, k, v)
<1>1. g \in Lines /\ Len(g) = Len(f)
      /\ \A i \in 1..Len(f) : g[i] = IF f[i][1] = k THEN <<k, v>> ELSE f[i]
  <2>1. Len(f) \in Nat /\ DOMAIN f = 1..Len(f) /\ \A i \in 1..Len(f) : f[i] \in Keys \X (Values \union {DAMAGED})
    BY LenProperties, ElementOfSeq DEF Lines
  <2>2. <<k, v>> \in Keys \X (Values \union {DAMAGED})
    OBVIOUS
  <2>3. g = [i \in 1..Len(f) |-> IF f[i][1] = k THEN <<k, v>> ELSE f[i]]
    BY <2>1 DEF Changed
  <2> HIDE DEF g
  <2>4. g \in [1..Len(f) -> Keys \X (Values \union {DAMAGED})]
    BY <2>1, <2>2, <2>3
  <2>5. g \in Lines /\ Len(g) = Len(f)
    BY <2>1, <2>4 DEF Lines
  <2> QED BY <2>3, <2>5
<1>2. \A i \in 1..Len(f) : g[i][1] = f[i][1]
  BY <1>1
<1> HIDE DEF g
<1>3. ASSUME NEW x \in Keys PROVE Found(g, x) = Found(f, x)
  <2>1. \/ Found(f, x) = 0 /\ \A i \in 1..Len(f) : f[i][1] # x
        \/ /\ Found(f, x) \in 1..Len(f) /\ f[Found(f, x)][1] = x
           /\ \A i \in 1..Len(f) : f[i][1] = x => Found(f, x) <= i
    BY FoundIs DEF Lines
  <2>2. CASE Found(f, x) = 0
    <3>1. \A i \in 1..Len(f) : f[i][1] # x
      BY <2>1, <2>2
    <3>2. \A i \in 1..Len(g) : g[i][1] # x
      BY <1>1, <1>2, <3>1
    <3> QED BY <1>1, <2>2, <3>2, FoundNot DEF Lines
  <2>3. CASE Found(f, x) # 0
    <3>1. PICK n \in 1..Len(f) : n = Found(f, x)
      BY <2>1, <2>3
    <3>2. n \in 1..Len(g) /\ g[n][1] = x /\ \A i \in 1..Len(g) : g[i][1] = x => n <= i
      BY <1>1, <1>2, <2>1, <2>3, <3>1
    <3> QED BY <1>1, <3>1, <3>2, FoundAt DEF Lines
  <2> QED BY <2>2, <2>3
<1>4. ASSUME NEW x \in Keys
      PROVE  \/ ValueOf(g, x) = [w EXCEPT ![k] = v][x]
             \/ torn /\ ValueOf(g, x) \in {MISSING, DAMAGED}
  <2>1. \/ Found(f, x) = 0
        \/ Found(f, x) \in 1..Len(f) /\ f[Found(f, x)][1] = x
    BY FoundIs DEF Lines
  <2>2. CASE x = k
    <3>1. Found(f, k) \in 1..Len(f) /\ f[Found(f, k)][1] = k
      BY <2>1, <2>2
    <3>2. g[Found(f, k)] = <<k, v>>
      BY <1>1, <3>1
    <3>3. ValueOf(g, k) = v
      BY <1>3, <3>2 DEF ValueOf
    <3>4. [w EXCEPT ![k] = v][k] = v
      OBVIOUS
    <3> QED BY <2>2, <3>3, <3>4
  <2>3. CASE x # k
    <3>1. [w EXCEPT ![k] = v][x] = w[x]
      BY <2>3
    <3>2. ValueOf(g, x) = ValueOf(f, x)
      BY <1>1, <1>3, <2>1, <2>3 DEF ValueOf
    <3>3. ValueOf(f, x) = w[x] \/ (torn /\ ValueOf(f, x) \in {MISSING, DAMAGED})
      BY DEF Says
    <3> QED BY <3>1, <3>2, <3>3
  <2> QED BY <2>2, <2>3
<1> QED BY <1>1, <1>4 DEF g, Says

\* A line appended for a key that has none adds its value, and changes no other.
LEMMA AppendSays ==
  ASSUME NEW f \in Lines, NEW k \in Keys, NEW v \in Values, NEW w, w = [x \in Keys |-> w[x]], NEW torn,
         Says(f, w, torn), Found(f, k) = 0
  PROVE  Append(f, <<k, v>>) \in Lines /\ Says(Append(f, <<k, v>>), [w EXCEPT ![k] = v], torn)
<1> DEFINE g == Append(f, <<k, v>>)
<1>1. g \in Lines /\ Len(g) = Len(f) + 1 /\ Len(f) \in Nat
      /\ g[Len(f) + 1] = <<k, v>>
      /\ \A i \in 1..Len(f) : g[i] = f[i]
  BY DEF Lines
<1> HIDE DEF g
<1>2. ASSUME NEW x \in Keys
      PROVE  \/ ValueOf(g, x) = [w EXCEPT ![k] = v][x]
             \/ torn /\ ValueOf(g, x) \in {MISSING, DAMAGED}
  <2>1. \/ Found(f, x) = 0 /\ \A i \in 1..Len(f) : f[i][1] # x
        \/ /\ Found(f, x) \in 1..Len(f) /\ f[Found(f, x)][1] = x
           /\ \A i \in 1..Len(f) : f[i][1] = x => Found(f, x) <= i
    BY FoundIs DEF Lines
  <2>2. CASE x = k
    <3>1. \A i \in 1..Len(f) : f[i][1] # k
      BY <2>1, <2>2
    <3>2. /\ Len(f) + 1 \in 1..Len(g) /\ g[Len(f) + 1][1] = k
          /\ \A i \in 1..Len(g) : g[i][1] = k => Len(f) + 1 <= i
      BY <1>1, <3>1
    <3>3. Found(g, k) = Len(f) + 1
      BY <1>1, <3>2, FoundAt DEF Lines
    <3>4. ValueOf(g, k) = v
      BY <1>1, <3>3 DEF ValueOf
    <3>5. [w EXCEPT ![k] = v][k] = v
      OBVIOUS
    <3> QED BY <2>2, <3>4, <3>5
  <2>3. CASE x # k
    <3>1. [w EXCEPT ![k] = v][x] = w[x]
      BY <2>3
    <3>2. ValueOf(g, x) = ValueOf(f, x)
      <4>1. CASE Found(f, x) = 0
        <5>1. \A i \in 1..Len(g) : g[i][1] # x
          BY <1>1, <2>1, <2>3, <4>1
        <5>2. Found(g, x) = 0
          BY <1>1, <5>1, FoundNot DEF Lines
        <5> QED BY <4>1, <5>2 DEF ValueOf
      <4>2. CASE Found(f, x) # 0
        <5>1. PICK n \in 1..Len(f) : n = Found(f, x)
          BY <2>1, <4>2
        <5>2. n \in 1..Len(g) /\ g[n] = f[n] /\ g[n][1] = x
              /\ \A i \in 1..Len(g) : g[i][1] = x => n <= i
          BY <1>1, <2>1, <2>3, <4>2, <5>1
        <5>3. Found(g, x) = n
          BY <1>1, <5>2, FoundAt DEF Lines
        <5> QED BY <1>1, <5>1, <5>2, <5>3 DEF ValueOf
      <4> QED BY <4>1, <4>2
    <3>3. ValueOf(f, x) = w[x] \/ (torn /\ ValueOf(f, x) \in {MISSING, DAMAGED})
      BY DEF Says
    <3> QED BY <3>1, <3>2, <3>3
  <2> QED BY <2>2, <2>3
<1> QED BY <1>1, <1>2 DEF g, Says

\* Of a file that was only written in part, every key has its value, a damaged one, or none.
LEMMA PartSays ==
  ASSUME NEW f \in Lines, NEW w, NEW torn, Says(f, w, torn), NEW n \in 0..Len(f), NEW cut \in BOOLEAN,
         NEW g, g = [i \in 1..n |-> IF cut /\ i = n THEN <<f[i][1], DAMAGED>> ELSE f[i]]
  PROVE  g \in Lines /\ Says(g, w, TRUE)
<1>1. Len(f) \in Nat /\ n \in Nat /\ \A i \in 1..n : i \in 1..Len(f) /\ f[i] \in Keys \X (Values \union {DAMAGED})
  BY DEF Lines
<1>2. \A i \in 1..n : g[i] \in Keys \X (Values \union {DAMAGED})
  BY <1>1
<1>3. g \in Lines /\ Len(g) = n
  BY <1>1, <1>2 DEF Lines
<1>4. \A i \in 1..n : g[i][1] = f[i][1] /\ (g[i][2] = f[i][2] \/ g[i][2] = DAMAGED)
  BY <1>1
<1>5. ASSUME NEW x \in Keys
      PROVE  ValueOf(g, x) = w[x] \/ ValueOf(g, x) \in {MISSING, DAMAGED}
  <2>1. \/ Found(g, x) = 0
        \/ /\ Found(g, x) \in 1..Len(g) /\ g[Found(g, x)][1] = x
           /\ \A i \in 1..Len(g) : g[i][1] = x => Found(g, x) <= i
    BY <1>3, FoundIs DEF Lines
  <2>2. CASE Found(g, x) = 0
    BY <2>2 DEF ValueOf
  <2>3. CASE Found(g, x) # 0
    <3>1. PICK m \in 1..n : m = Found(g, x)
      BY <1>3, <2>1, <2>3
    <3>2. /\ m \in 1..Len(f) /\ f[m][1] = x
          /\ \A i \in 1..Len(f) : f[i][1] = x => m <= i
      <4>1. m \in 1..Len(f) /\ f[m][1] = x
        BY <1>1, <1>3, <1>4, <2>1, <2>3, <3>1
      <4>2. ASSUME NEW i \in 1..Len(f), f[i][1] = x, ~(m <= i) PROVE FALSE
        <5>1. i \in 1..n
          BY <1>1, <3>1, <4>2
        <5>2. g[i][1] = x
          BY <1>4, <4>2, <5>1
        <5> QED BY <1>3, <2>1, <2>3, <3>1, <4>2, <5>1, <5>2
      <4> QED BY <4>1, <4>2
    <3>3. Found(f, x) = m
      BY <3>2, FoundAt DEF Lines
    <3>4. m # 0 /\ ValueOf(f, x) = f[m][2] /\ ValueOf(g, x) = g[m][2]
      BY <3>1, <3>3 DEF ValueOf
    <3> QED BY <1>4, <3>1, <3>4 DEF Says
  <2> QED BY <2>2, <2>3
<1> QED BY <1>3, <1>5 DEF Says

\* A file of at most one line, with what it says of each key.
LEMMA KvInitInv == KvInit => KvInv
<1> SUFFICES ASSUME KvInit PROVE KvInv
  OBVIOUS
<1>1. file \in Lines /\ filebuf \in Lines
  <2>1. << >> \in Lines
    BY DEF Lines
  <2>2. ASSUME NEW k \in Keys, NEW v \in Values PROVE << <<k, v>> >> \in Lines
    <3>1. <<k, v>> \in Keys \X (Values \union {DAMAGED})
      OBVIOUS
    <3> QED BY <3>1 DEF Lines
  <2>3. file = << >> \/ \E k \in Keys, v \in Values : file = << <<k, v>> >>
    BY DEF KvInit
  <2> QED BY <2>1, <2>2, <2>3 DEF KvInit
<1>2. want = [k \in Keys |-> want[k]] /\ \A k \in Keys : want[k] = ValueOf(file, k)
  BY DEF KvInit
<1> QED BY <1>1, <1>2 DEF KvInit, KvInv, KvType, FileSays, BufferSays, AppendNew, Says

\* Every step keeps the invariant.
LEMMA KvStep == KvInv /\ [KvNext]_kvVars => KvInv'
<1> SUFFICES ASSUME KvInv, [KvNext]_kvVars PROVE KvInv'
  OBVIOUS
<1>1. CASE "joined" \in spoiled
  <2>1. "joined" \in spoiled'
    BY <1>1 DEF KvNext, kvVars, GetMissing, UpdateOpen, UpdateNoMemory, UpdateRead, UpdateAppend, UpdateTruncate,
       UpdateWrite, KvRestart
  <2> QED BY <2>1 DEF KvInv
<1>2. CASE "joined" \notin spoiled
  <2>0. KvType /\ FileSays /\ BufferSays /\ AppendNew
    BY <1>2 DEF KvInv
  <2>1. ASSUME NEW k \in Keys, GetMissing(k) PROVE KvInv'
    BY <2>0, <2>1 DEF GetMissing, KvInv, KvType, FileSays, BufferSays, AppendNew, Says, Torn
  <2>2. ASSUME NEW k \in Keys, NEW v \in Values, UpdateOpen(k, v) PROVE KvInv'
    BY <2>0, <2>2 DEF UpdateOpen, KvInv, KvType, FileSays, BufferSays, AppendNew, Says, Torn
  <2>3. CASE UpdateNoMemory
    BY <2>0, <2>3 DEF UpdateNoMemory, KvInv, KvType, FileSays, BufferSays, AppendNew, Says, Torn
  <2>4. CASE UpdateRead
    <3>1. kvpc = "read" /\ UNCHANGED <<file, ended, kvkey, kvval, want, spoiled>>
      BY <2>4 DEF UpdateRead
    <3>2. Says(file, want, Torn) /\ Torn' = Torn
      BY <2>0, <3>1 DEF FileSays, Torn
    <3>3. CASE Found(file, kvkey) = 0
      <4>1. kvpc' = "append" /\ filebuf' = filebuf
        BY <2>4, <3>3 DEF UpdateRead
      <4> QED BY <2>0, <3>1, <3>2, <3>3, <4>1 DEF KvInv, KvType, FileSays, BufferSays, AppendNew, Says
    <3>4. CASE Found(file, kvkey) # 0
      <4>1. kvpc' = "closed" /\ filebuf' = Changed(file, kvkey, kvval)
        BY <2>4, <3>4 DEF UpdateRead
      <4>2. filebuf' \in Lines /\ Says(filebuf', [want EXCEPT ![kvkey] = kvval], Torn)
        BY <2>0, <3>2, <3>4, <4>1, ChangedSays DEF KvType
      <4>3. KvType' /\ FileSays' /\ AppendNew'
        BY <2>0, <3>1, <3>2, <4>1, <4>2 DEF KvType, FileSays, AppendNew, Says
      <4>4. BufferSays'
        BY <3>1, <3>2, <4>2 DEF BufferSays, Says
      <4> QED BY <4>3, <4>4 DEF KvInv
    <3> QED BY <3>3, <3>4
  <2>5. CASE UpdateAppend
    <3>1. kvpc = "append" /\ kvpc' = "rest" /\ UNCHANGED <<kvkey, kvval, filebuf>>
      BY <2>5 DEF UpdateAppend
    <3>2. CASE ended
      <4>1. /\ file' = Append(file, <<kvkey, kvval>>) /\ want' = [want EXCEPT ![kvkey] = kvval]
            /\ spoiled' = spoiled
        BY <2>5, <3>2 DEF UpdateAppend
      <4>2. file' \in Lines /\ Says(file', [want EXCEPT ![kvkey] = kvval], Torn)
        BY <2>0, <3>1, <4>1, AppendSays DEF KvType, FileSays, AppendNew
      <4>3. want' = [k \in Keys |-> want'[k]]
        BY <2>0, <4>1 DEF KvType
      <4>4. FileSays'
        BY <4>1, <4>2 DEF FileSays, Says, Torn
      <4> QED BY <2>0, <3>1, <4>2, <4>3, <4>4 DEF KvInv, KvType, BufferSays, AppendNew
    <3>3. CASE ~ended
      BY <2>5, <3>3 DEF UpdateAppend, KvInv
    <3> QED BY <3>2, <3>3
  <2>6. CASE UpdateTruncate
    <3>1. /\ kvpc = "closed" /\ UNCHANGED <<kvkey, kvval, filebuf, want, spoiled>>
          /\ (kvpc' = "trunc" /\ file' = << >>) \/ (kvpc' = "rest" /\ file' = file)
      BY <2>6 DEF UpdateTruncate
    <3>2. file' \in Lines
      <4>1. << >> \in Lines
        BY DEF Lines
      <4> QED BY <2>0, <3>1, <4>1 DEF KvType
    <3>3. FileSays' /\ BufferSays' /\ AppendNew'
      BY <2>0, <3>1 DEF FileSays, BufferSays, AppendNew, Says, Torn
    <3> QED BY <2>0, <3>1, <3>2, <3>3 DEF KvInv, KvType
  <2>7. CASE UpdateWrite
    <3>1. /\ kvpc = "trunc" /\ kvpc' = "rest" /\ file' = filebuf /\ want' = [want EXCEPT ![kvkey] = kvval]
          /\ UNCHANGED <<kvkey, kvval, filebuf, spoiled>>
      BY <2>7 DEF UpdateWrite
    <3>2. want' = [k \in Keys |-> want'[k]]
      BY <2>0, <3>1 DEF KvType
    <3>3. FileSays'
      BY <2>0, <3>1 DEF FileSays, BufferSays, Says, Torn
    <3> QED BY <2>0, <3>1, <3>2, <3>3 DEF KvInv, KvType, BufferSays, AppendNew
  <2>8. CASE KvRestart /\ kvpc = "trunc"
    <3>1. PICK n \in 0..Len(filebuf), cut \in BOOLEAN :
            /\ file' = [i \in 1..n |-> IF cut /\ i = n THEN <<filebuf[i][1], DAMAGED>> ELSE filebuf[i]]
            /\ want' = [want EXCEPT ![kvkey] = kvval]
            /\ spoiled' = spoiled \union {"torn"}
      BY <2>8 DEF KvRestart
    <3>2. kvpc' = "rest" /\ UNCHANGED <<kvkey, kvval, filebuf>>
      BY <2>8 DEF KvRestart
    <3>3. filebuf \in Lines /\ Says(filebuf, [want EXCEPT ![kvkey] = kvval], Torn)
      BY <2>0, <2>8 DEF KvType, BufferSays
    <3>4. file' \in Lines /\ Says(file', [want EXCEPT ![kvkey] = kvval], TRUE)
      BY <3>1, <3>3, PartSays
    <3>5. want' = [k \in Keys |-> want'[k]]
      BY <2>0, <3>1 DEF KvType
    <3>6. FileSays'
      BY <3>1, <3>4 DEF FileSays, Says, Torn
    <3> QED BY <2>0, <3>2, <3>4, <3>5, <3>6 DEF KvInv, KvType, BufferSays, AppendNew
  <2>9. CASE KvRestart /\ kvpc # "trunc"
    BY <2>0, <2>9 DEF KvRestart, KvInv, KvType, FileSays, BufferSays, AppendNew, Says, Torn
  <2>10. CASE UNCHANGED kvVars
    BY <2>0, <2>10 DEF kvVars, KvInv, KvType, FileSays, BufferSays, AppendNew, Says, Torn
  <2> QED BY <2>1, <2>2, <2>3, <2>4, <2>5, <2>6, <2>7, <2>8, <2>9, <2>10 DEF KvNext
<1> QED BY <1>1, <1>2

\* Between two calls every key has the value of the last update that reached the file, for
\* any keys, values and number of open files; a kill may cost it its line but brings no
\* old value back (parsekv.c:227, 234, 241).
THEOREM UpdatesSafe == KvSpec => []KvKeepsUpdates
<1>1. KvInv => KvKeepsUpdates
  BY DEF KvInv, FileSays, Says, Torn, KvKeepsUpdates
<1> QED BY <1>1, KvInitInv, KvStep, PTL DEF KvSpec

------------------------------------------------------------------------------
(* BeijingTime.                                                            *)

\* The table differs from the one the program started with exactly when it was turned.
BtInv ==
  /\ february \in {28, 29}
  /\ turned = (february = 29)
  /\ CalendarRight

\* The table of the code and the calendar agree on every month but February.
LEMMA MonthLengths ==
  ASSUME NEW y \in Nat, NEW m \in 0..11, m # 1
  PROVE  date_mday[m + 1] = DaysOf(y, m) /\ DaysOf(y, m) \in {30, 31}
BY DEF date_mday, DaysOf

\* Eight hours on from a date of the calendar (read_gps.c:377-395), whatever the table
\* says of February.
LEMMA ConvertRight ==
  ASSUME february \in {28, 29}, turned = (february = 29),
         NEW y \in Nat, NEW m \in 0..11, NEW md \in Nat, NEW h \in 0..23,
         md <= DaysOf(y, m),
         utc2btc([year |-> y, mon |-> m, mday |-> md, hour |-> h])
  PROVE  BtInv'
<1> DEFINE d == [year |-> y, mon |-> m, mday |-> md, hour |-> h]
<1>0. /\ d.year = y /\ d.mon = m /\ d.mday = md /\ d.hour = h
  OBVIOUS
<1>1. utc' = d
  BY DEF utc2btc
<1>2. CASE h < 16
  <2>1. btc' = [d EXCEPT !.hour = h + 8] /\ february' = february /\ turned' = turned
    BY <1>2 DEF utc2btc
  <2>2. EightHoursOn(d) = [d EXCEPT !.hour = h + 8]
    BY <1>2 DEF EightHoursOn
  <2> QED BY <1>1, <2>1, <2>2 DEF BtInv, CalendarRight
<1>3. CASE h >= 16
  <2>1. /\ february' = IF m = 1 /\ LeapYear(y) THEN 29 ELSE february
        /\ btc' = [Turn(february', d) EXCEPT !.hour = h - 16]
        /\ turned' = (turned \/ february' # february)
    BY <1>3 DEF utc2btc
  <2>2. february' \in {28, 29} /\ turned' = (february' = 29)
    BY <2>1
  <2>3. EightHoursOn(d) = [NextDay(d) EXCEPT !.hour = h - 16]
    <3>1. NextDay(d).hour = h /\ ~(d.hour < 16)
      BY <1>3 DEF NextDay
    <3> QED BY <1>3, <3>1 DEF EightHoursOn
  <2>4. CASE LengthOf(february', d) = DaysOf(y, m)
    <3>1. Turn(february', d) = NextDay(d)
      <4> DEFINE last == DaysOf(y, m)
      <4>0. last \in Nat
        BY DEF DaysOf
      <4>1. (md + 1 <= last) <=> (md < last)
        BY <4>0
      <4>2. (m + 1 > 11) <=> ~(m < 11)
        OBVIOUS
      <4> QED BY <2>4, <4>1, <4>2 DEF Turn, NextDay
    <3> QED BY <1>1, <2>1, <2>2, <2>3, <3>1 DEF BtInv, CalendarRight
  <2>5. CASE LengthOf(february', d) # DaysOf(y, m)
    <3>1. m = 1
      BY <2>5, MonthLengths DEF LengthOf
    <3>2. LengthOf(february', d) = february'
      BY <3>1 DEF LengthOf
    <3>3. IsLeap(y) <=> LeapYear(y)
      BY DEF IsLeap, LeapYear
    <3>4. ~IsLeap(y) /\ february' = 29 /\ DaysOf(y, m) = 28
      BY <2>1, <2>2, <2>5, <3>1, <3>2, <3>3 DEF DaysOf
    <3>5. turned'
      BY <2>2, <3>4
    <3>6. Turn(february', d) = [d EXCEPT !.mday = md + 1]
      BY <3>2, <3>4 DEF Turn
    <3>7. CASE md = 28
      <4>1. btc' = [year |-> y, mon |-> 1, mday |-> 29, hour |-> h - 16]
        <5>1. Turn(february', d) = [year |-> y, mon |-> 1, mday |-> 29, hour |-> h]
          BY <3>1, <3>6, <3>7
        <5> QED BY <2>1, <5>1
      <4> QED BY <1>1, <1>3, <2>2, <3>1, <3>4, <3>5, <3>7, <4>1 DEF BtInv, CalendarRight
    <3>8. CASE md < 28
      <4>1. NextDay(d) = [d EXCEPT !.mday = md + 1]
        BY <3>4, <3>8 DEF NextDay
      <4> QED BY <1>1, <2>1, <2>2, <2>3, <3>6, <4>1 DEF BtInv, CalendarRight
    <3> QED BY <3>4, <3>7, <3>8
  <2> QED BY <2>4, <2>5
<1> QED BY <1>2, <1>3

\* In any run of the GPS reader or of the command, every date is eight hours on in the
\* calendar, with the one exception CalendarRight names.
THEOREM CalendarSafe == BtSpec => []CalendarRight
<1>0. date_mday[2] = 28
  BY DEF date_mday
<1>1. BtInit => BtInv
  <2> SUFFICES ASSUME BtInit PROVE BtInv
    OBVIOUS
  <2>1. february = 28 /\ turned = FALSE /\ btc = EightHoursOn(utc)
    BY <1>0 DEF BtInit
  <2>2. february \in {28, 29} /\ ~(february = 29)
    BY <2>1
  <2>3. turned = (february = 29)
    BY <2>1, <2>2, Zenon
  <2>4. CalendarRight
    BY <2>1, Zenon DEF CalendarRight
  <2> QED BY <2>2, <2>3, <2>4 DEF BtInv
<1>2. BtInv /\ [BtNext]_btVars => BtInv'
  <2> SUFFICES ASSUME BtInv, [BtNext]_btVars PROVE BtInv'
    OBVIOUS
  <2>1. CASE UNCHANGED btVars
    BY <2>1 DEF btVars, BtInv, CalendarRight
  <2>2. CASE BtRestart
    <3>1. february' = 28 /\ turned' = FALSE /\ btc' = EightHoursOn(utc)'
      BY <1>0, <2>2 DEF BtRestart, EightHoursOn, NextDay, DaysOf, IsLeap, Epoch
    <3>2. february' \in {28, 29} /\ ~(february' = 29)
      BY <3>1
    <3>3. turned' = (february' = 29)
      BY <3>1, <3>2, Zenon
    <3>4. CalendarRight'
      BY <3>1, Zenon DEF CalendarRight
    <3> QED BY <3>2, <3>3, <3>4 DEF BtInv
  <2>3. ASSUME NEW y \in Years, NEW m \in 0..11, NEW md \in Days, NEW h \in Hours,
               md <= DaysOf(y, m),
               utc2btc([year |-> y, mon |-> m, mday |-> md, hour |-> h])
        PROVE  BtInv'
    BY <2>3, ConvertRight, BtAssumption DEF BtInv
  <2> QED BY <2>1, <2>2, <2>3 DEF BtNext
<1>3. BtInv => CalendarRight
  BY DEF BtInv
<1> QED BY <1>1, <1>2, <1>3, PTL DEF BtSpec

------------------------------------------------------------------------------
(* GpsFix.                                                                 *)

\* The greatest of some numbers up to n is their Max.
LEMMA MaxOfNats ==
  ASSUME NEW n \in Nat, NEW I, I \subseteq 1..n, I # {}
  PROVE  Max(I) \in I /\ \A j \in I : j <= Max(I)
<1> DEFINE T == {k \in 0..n : n - k \in I}
<1>1. T \subseteq Nat
  OBVIOUS
<1>2. \A i \in I : n - i \in T /\ i \in Nat
  <2> SUFFICES ASSUME NEW i \in I PROVE n - i \in T /\ i \in Nat
    OBVIOUS
  <2>1. i \in 1..n /\ n - i \in 0..n /\ n - (n - i) = i
    OBVIOUS
  <2> QED BY <2>1
<1>3. T # {}
  BY <1>2
<1> HIDE DEF T
<1>4. PICK m \in T : \A j \in T : ~ (<<j, m>> \in OpToRel(<, Nat))
  BY <1>1, <1>3, NatLessThanWellFounded, WFMin
<1>5. \A j \in T : ~(j < m)
  BY <1>1, <1>4 DEF OpToRel
<1>6. m \in 0..n /\ n - m \in I
  BY <1>4 DEF T
<1>7. \A i \in I : i <= n - m
  <2> SUFFICES ASSUME NEW i \in I PROVE i <= n - m
    OBVIOUS
  <2>1. ~(n - i < m) /\ i \in 1..n
    BY <1>2, <1>5
  <2> QED BY <1>6, <2>1
<1>8. \A i \in I : i \in Nat
  BY <1>2
<1>9. \E x \in I : \A y \in I : x >= y
  BY <1>6, <1>7, <1>8
<1> QED BY <1>8, <1>9 DEF Max

\* A sentence gives the field at a place.
Gives(s, place) == s.kind = place[1] /\ Valid(s) /\ s.f[place[2]] # EMPTY

\* LastGiven of any sequence of sentences.
GivenIn(h, place) ==
  LET n == SelectLastInSeq(h, LAMBDA s : s.kind = place[1] /\ Valid(s) /\ s.f[place[2]] # EMPTY)
  IN  IF n = 0 THEN EMPTY ELSE h[n].f[place[2]]

\* A sentence more gives the field, or leaves it as the ones before gave it.
LEMMA GivenAppend ==
  ASSUME NEW S, NEW h \in Seq(S), NEW s \in S, NEW place
  PROVE  GivenIn(Append(h, s), place) = IF Gives(s, place) THEN s.f[place[2]] ELSE GivenIn(h, place)
<1> DEFINE I(q) == {i \in 1..Len(q) : q[i].kind = place[1] /\ Valid(q[i]) /\ q[i].f[place[2]] # EMPTY}
           N(q) == IF I(q) # {} THEN Max(I(q)) ELSE 0
<1>1. \A q : GivenIn(q, place) = IF N(q) = 0 THEN EMPTY ELSE q[N(q)].f[place[2]]
  BY DEF GivenIn, SelectLastInSeq
<1>2. PICK t : t = Append(h, s)
  OBVIOUS
<1>3. Len(h) \in Nat /\ Len(t) = Len(h) + 1 /\ t[Len(t)] = s /\ \A i \in 1..Len(h) : t[i] = h[i]
  BY <1>2
<1>4. CASE Gives(s, place)
  <2>1. Len(t) \in I(t) /\ I(t) \subseteq 1..Len(t)
    BY <1>3, <1>4 DEF Gives
  <2>2. Max(I(t)) \in I(t) /\ \A j \in I(t) : j <= Max(I(t))
    <3> HIDE DEF I
    <3> QED BY <1>3, <2>1, MaxOfNats
  <2>3. N(t) = Len(t)
    <3> HIDE DEF I
    <3> QED BY <1>3, <2>1, <2>2
  <2> HIDE DEF N
  <2>4. GivenIn(t, place) = t[Len(t)].f[place[2]]
    BY <1>1, <1>3, <2>3
  <2> QED BY <1>2, <1>3, <1>4, <2>4
<1>5. CASE ~Gives(s, place)
  <2>1. I(t) = I(h)
    <3>1. \A i \in 1..Len(t) : i \in 1..Len(h) \/ i = Len(t)
      BY <1>3
    <3>2. \A i \in 1..Len(h) : i \in 1..Len(t)
      BY <1>3
    <3>3. \A i : i \in I(t) <=> i \in I(h)
      BY <1>3, <1>5, <3>1, <3>2 DEF Gives
    <3> QED BY <3>3
  <2>2. N(t) = N(h)
    BY <2>1
  <2>3. N(h) = 0 \/ N(h) \in 1..Len(h)
    <3>1. I(h) \subseteq 1..Len(h)
      OBVIOUS
    <3>2. I(h) # {} => Max(I(h)) \in I(h)
      <4> HIDE DEF I
      <4> QED BY <1>3, <3>1, MaxOfNats
    <3> QED BY <3>1, <3>2
  <2>4. N(h) # 0 => t[N(h)] = h[N(h)]
    BY <1>3, <2>3
  <2> HIDE DEF N
  <2> QED BY <1>1, <1>2, <1>5, <2>2, <2>4
<1> QED BY <1>4, <1>5

GpsItems == {"date_day", "latitude", "position_sn", "longitude", "position_ew", "speed", "direction",
           "date_year", "satellite", "height"}

\* One item is set and the others stay.
LEMMA OneItem ==
  ASSUME NEW g, g = [i \in GpsItems |-> g[i]], NEW x \in GpsItems, NEW v,
         NEW h, h = [g EXCEPT ![x] = v]
  PROVE  /\ h = [i \in GpsItems |-> h[i]]
         /\ h[x] = v
         /\ \A i \in GpsItems : i # x => h[i] = g[i]
OBVIOUS

\* A valid RMC leaves each of its fields that is not empty, and no other.
LEMMA RmcLeaves ==
  ASSUME NEW g, g = [i \in GpsItems |-> g[i]], NEW f, f[2] = <<"A">>
  PROVE  /\ parse_gnrmc(g, f) = [i \in GpsItems |-> parse_gnrmc(g, f)[i]]
         /\ \A i \in GpsItems : parse_gnrmc(g, f)[i] =
              IF Origin[i][1] = "rmc" THEN Keep(g[i], f[Origin[i][2]]) ELSE g[i]
<1> DEFINE g0 == g
           g1 == [g0 EXCEPT !.date_day = Keep(@, f[1])]
           g2 == [g1 EXCEPT !.latitude = Keep(@, f[3])]
           g3 == [g2 EXCEPT !.position_sn = Keep(@, f[4])]
           g4 == [g3 EXCEPT !.longitude = Keep(@, f[5])]
           g5 == [g4 EXCEPT !.position_ew = Keep(@, f[6])]
           g6 == [g5 EXCEPT !.speed = Keep(@, f[7])]
           g7 == [g6 EXCEPT !.direction = Keep(@, f[8])]
           g8 == [g7 EXCEPT !.date_year = Keep(@, f[9])]
<1>0. parse_gnrmc(g, f) = g8
  BY DEF parse_gnrmc
<1> HIDE DEF g0, g1, g2, g3, g4, g5, g6, g7, g8
<1>10. g0 = g /\ g0 = [i \in GpsItems |-> g0[i]]
  BY DEF g0
<1>11. /\ g1 = [i \in GpsItems |-> g1[i]] /\ g1.date_day = Keep(g0.date_day, f[1])
      /\ \A i \in GpsItems : i # "date_day" => g1[i] = g0[i]
  BY <1>10, OneItem DEF g1, GpsItems
<1>12. /\ g2 = [i \in GpsItems |-> g2[i]] /\ g2.latitude = Keep(g1.latitude, f[3])
      /\ \A i \in GpsItems : i # "latitude" => g2[i] = g1[i]
  BY <1>11, OneItem DEF g2, GpsItems
<1>13. /\ g3 = [i \in GpsItems |-> g3[i]] /\ g3.position_sn = Keep(g2.position_sn, f[4])
      /\ \A i \in GpsItems : i # "position_sn" => g3[i] = g2[i]
  BY <1>12, OneItem DEF g3, GpsItems
<1>14. /\ g4 = [i \in GpsItems |-> g4[i]] /\ g4.longitude = Keep(g3.longitude, f[5])
      /\ \A i \in GpsItems : i # "longitude" => g4[i] = g3[i]
  BY <1>13, OneItem DEF g4, GpsItems
<1>15. /\ g5 = [i \in GpsItems |-> g5[i]] /\ g5.position_ew = Keep(g4.position_ew, f[6])
      /\ \A i \in GpsItems : i # "position_ew" => g5[i] = g4[i]
  BY <1>14, OneItem DEF g5, GpsItems
<1>16. /\ g6 = [i \in GpsItems |-> g6[i]] /\ g6.speed = Keep(g5.speed, f[7])
      /\ \A i \in GpsItems : i # "speed" => g6[i] = g5[i]
  BY <1>15, OneItem DEF g6, GpsItems
<1>17. /\ g7 = [i \in GpsItems |-> g7[i]] /\ g7.direction = Keep(g6.direction, f[8])
      /\ \A i \in GpsItems : i # "direction" => g7[i] = g6[i]
  BY <1>16, OneItem DEF g7, GpsItems
<1>18. /\ g8 = [i \in GpsItems |-> g8[i]] /\ g8.date_year = Keep(g7.date_year, f[9])
      /\ \A i \in GpsItems : i # "date_year" => g8[i] = g7[i]
  BY <1>17, OneItem DEF g8, GpsItems
<1>19. \A i \in GpsItems : g8[i] = IF Origin[i][1] = "rmc" THEN Keep(g[i], f[Origin[i][2]]) ELSE g[i]
  <2> SUFFICES ASSUME NEW i \in GpsItems
               PROVE  g8[i] = IF Origin[i][1] = "rmc" THEN Keep(g[i], f[Origin[i][2]]) ELSE g[i]
    OBVIOUS
  <2>0. g0 = g
    BY <1>10
  <2>1. CASE i = "date_day"
    BY <1>11, <1>12, <1>13, <1>14, <1>15, <1>16, <1>17, <1>18, <2>0, <2>1 DEF GpsItems, Origin
  <2>2. CASE i = "latitude"
    BY <1>11, <1>12, <1>13, <1>14, <1>15, <1>16, <1>17, <1>18, <2>0, <2>2 DEF GpsItems, Origin
  <2>3. CASE i = "position_sn"
    BY <1>11, <1>12, <1>13, <1>14, <1>15, <1>16, <1>17, <1>18, <2>0, <2>3 DEF GpsItems, Origin
  <2>4. CASE i = "longitude"
    BY <1>11, <1>12, <1>13, <1>14, <1>15, <1>16, <1>17, <1>18, <2>0, <2>4 DEF GpsItems, Origin
  <2>5. CASE i = "position_ew"
    BY <1>11, <1>12, <1>13, <1>14, <1>15, <1>16, <1>17, <1>18, <2>0, <2>5 DEF GpsItems, Origin
  <2>6. CASE i = "speed"
    BY <1>11, <1>12, <1>13, <1>14, <1>15, <1>16, <1>17, <1>18, <2>0, <2>6 DEF GpsItems, Origin
  <2>7. CASE i = "direction"
    BY <1>11, <1>12, <1>13, <1>14, <1>15, <1>16, <1>17, <1>18, <2>0, <2>7 DEF GpsItems, Origin
  <2>8. CASE i = "date_year"
    BY <1>11, <1>12, <1>13, <1>14, <1>15, <1>16, <1>17, <1>18, <2>0, <2>8 DEF GpsItems, Origin
  <2>9. CASE i \in {"satellite", "height"}
    BY <1>11, <1>12, <1>13, <1>14, <1>15, <1>16, <1>17, <1>18, <2>0, <2>9 DEF GpsItems, Origin
  <2> QED BY <2>1, <2>2, <2>3, <2>4, <2>5, <2>6, <2>7, <2>8, <2>9 DEF GpsItems
<1> QED BY <1>0, <1>18, <1>19

\* A valid GGA leaves its two fields, unless they are empty.
LEMMA GgaLeaves ==
  ASSUME NEW g, g = [i \in GpsItems |-> g[i]], NEW f, f[6] # << 0 >>
  PROVE  /\ parse_gngga(g, f) = [i \in GpsItems |-> parse_gngga(g, f)[i]]
         /\ \A i \in GpsItems : parse_gngga(g, f)[i] =
              IF Origin[i][1] = "gga" THEN Keep(g[i], f[Origin[i][2]]) ELSE g[i]
<1> DEFINE g1 == [g EXCEPT !.satellite = Keep(@, f[7])]
           g2 == [g1 EXCEPT !.height = Keep(@, f[9])]
<1>0. parse_gngga(g, f) = g2
  BY DEF parse_gngga
<1> HIDE DEF g1, g2
<1>1. /\ g1 = [i \in GpsItems |-> g1[i]] /\ g1.satellite = Keep(g.satellite, f[7])
      /\ \A i \in GpsItems : i # "satellite" => g1[i] = g[i]
  BY OneItem DEF g1, GpsItems
<1>2. /\ g2 = [i \in GpsItems |-> g2[i]] /\ g2.height = Keep(g1.height, f[9])
      /\ \A i \in GpsItems : i # "height" => g2[i] = g1[i]
  BY <1>1, OneItem DEF g2, GpsItems
<1>3. ASSUME NEW i \in GpsItems
      PROVE  g2[i] = IF Origin[i][1] = "gga" THEN Keep(g[i], f[Origin[i][2]]) ELSE g[i]
  <2>1. CASE i = "satellite"
    BY <1>1, <1>2, <2>1 DEF GpsItems, Origin
  <2>2. CASE i = "height"
    BY <1>1, <1>2, <2>2 DEF GpsItems, Origin
  <2>3. CASE i \notin {"satellite", "height"}
    <3>1. Origin[i][1] = "rmc"
      BY <2>3 DEF GpsItems, Origin
    <3> QED BY <1>1, <1>2, <2>3, <3>1
  <2> QED BY <2>1, <2>2, <2>3
<1> QED BY <1>0, <1>2, <1>3

\* What dividing by ten thousand leaves, and that nothing else does.
LEMMA TenThousand ==
  ASSUME NEW r \in Nat
  PROVE  /\ r \div 10000 \in Nat /\ r % 10000 \in Nat /\ r % 10000 <= 9999
         /\ r = 10000 * (r \div 10000) + (r % 10000)
BY SMT

\* A quotient and a remainder under ten thousand are the ones the division gives.
LEMMA TenThousandOf ==
  ASSUME NEW q \in Nat, NEW m \in Nat, NEW p \in Nat, p <= 9999, q = 10000 * m + p
  PROVE  q \div 10000 = m /\ q % 10000 = p
BY SMT

\* The same of a million, which the degrees are cut off by.
LEMMA Million ==
  ASSUME NEW n \in Nat
  PROVE  /\ n \div 1000000 \in Nat /\ n % 1000000 \in Nat
         /\ n = 1000000 * (n \div 1000000) + (n % 1000000)
BY SMT

\* Cutting off the degrees leaves the part of a minute as it was.
LEMMA PartOfMinute ==
  ASSUME NEW n \in Nat, NEW d \in Nat, NEW r \in Nat, n = 1000000 * d + r
  PROVE  r % 10000 = n % 10000
<1>1. PICK m \in Nat, p \in Nat : m = r \div 10000 /\ p = r % 10000
  BY TenThousand, SMT
<1>2. p <= 9999 /\ r = 10000 * m + p
  BY <1>1, TenThousand, SMT
<1>3. n = 10000 * (100 * d + m) + p /\ 100 * d + m \in Nat
  BY <1>2, SMT
<1>4. n % 10000 = p
  BY <1>2, <1>3, TenThousandOf, SMT
<1> QED BY <1>1, <1>4, SMT

\* The part of a minute is less than sixty seconds.
LEMMA UnderAMinute ==
  ASSUME NEW p \in Nat, p <= 9999
  PROVE  (p * 60) \div 10000 \in Nat /\ (p * 60) \div 10000 <= 59
BY SMT

\* A part of a minute that makes whole seconds and is not exact makes one at least.
LEMMA SecondThere ==
  ASSUME NEW p \in Nat, p <= 9999, (p * 60) % 10000 = 0, p % 2500 # 0
  PROVE  (p * 60) \div 10000 >= 1
<1>1. p # 0
  BY SMT
<1> QED BY <1>1, SMT

\* Minutes and a part of one are as many seconds as both make.
LEMMA MinutesAndPart ==
  ASSUME NEW r \in Nat, NEW m \in Nat, NEW p \in Nat, p <= 9999, r = 10000 * m + p
  PROVE  (r * 60) \div 10000 = m * 60 + (p * 60) \div 10000
<1>1. PICK q \in Nat : q = p * 60
  BY SMT
<1>2. PICK s \in Nat : s = q \div 10000
  BY TenThousand, SMT
<1>3. PICK t \in Nat : t = q % 10000 /\ t <= 9999
  BY TenThousand, SMT
<1>4. q = 10000 * s + t
  BY <1>2, <1>3, TenThousand, SMT
<1>5. r * 60 = 10000 * (m * 60 + s) + t /\ r * 60 \in Nat /\ m * 60 + s \in Nat
  BY <1>1, <1>4, SMT
<1>6. (r * 60) \div 10000 = m * 60 + s
  BY <1>3, <1>5, TenThousandOf, SMT
<1> QED BY <1>1, <1>2, <1>6, SMT

\* The angle printed is the one received, cut to whole seconds or one less.
LEMMA AngleRight ==
  ASSUME NEW field, field # EMPTY => field[1] \in Nat, NEW a \in Angle(field)
  PROVE  AsAngle(field, a)
<1>1. PICK n \in Nat : n = IF field = EMPTY THEN 0 ELSE field[1]
  BY SMT
<1>2. PICK d \in Nat, r \in Nat : d = n \div 1000000 /\ r = n % 1000000 /\ n = 1000000 * d + r
  BY Million, SMT
<1>3. PICK m \in Nat, p \in Nat : m = r \div 10000 /\ p = r % 10000 /\ p <= 9999 /\ r = 10000 * m + p
  BY TenThousand, SMT
<1>4. PICK s \in Nat : s = (p * 60) \div 10000 /\ s <= 59
  BY <1>3, UnderAMinute, SMT
<1>5. n % 10000 = p
  BY <1>2, <1>3, PartOfMinute, SMT
<1>6. (r * 60) \div 10000 = m * 60 + s
  BY <1>3, <1>4, MinutesAndPart, SMT
<1>7. /\ a.degree = d /\ a.minute = m
      /\ a.second \in IF (p * 60) % 10000 = 0 /\ p % 2500 # 0 THEN {s, s - 1} ELSE {s}
  <2> DEFINE n0 == IF field = EMPTY THEN 0 ELSE field[1]
             whole == (p * 60) % 10000 = 0 /\ p % 2500 # 0
             seconds == IF whole THEN {s, s - 1} ELSE {s}
  <2>1. n0 = n
    BY <1>1
  <2> HIDE DEF n0
  <2>2. Angle(field) = [degree : {n0 \div 1000000}, minute : {(n0 % 1000000) \div 10000},
                        second : IF ((n0 % 10000) * 60) % 10000 = 0 /\ (n0 % 10000) % 2500 # 0
                                 THEN {((n0 % 10000) * 60) \div 10000, ((n0 % 10000) * 60) \div 10000 - 1}
                                 ELSE {((n0 % 10000) * 60) \div 10000}]
    BY SMT DEF Angle, n0
  <2>3. a.degree = d /\ a.minute = m /\ a.second \in seconds
    BY <1>2, <1>3, <1>4, <1>5, <2>1, <2>2, SMT
  <2> QED BY <2>3
<1>8. a.second \in {s, s - 1} /\ a.second \in Int /\ 0 <= a.second /\ a.second <= 59
  BY <1>3, <1>4, <1>7, SecondThere, SMT
<1>9. PICK e \in Nat : e = d * 3600 + (m * 60 + s)
  BY SMT
<1>10. a.degree * 3600 + a.minute * 60 + a.second \in {e, e - 1}
  BY <1>7, <1>8, <1>9, SMT
<1>11. e = (n \div 1000000) * 3600 + ((n % 1000000) * 60) \div 10000
  BY <1>2, <1>6, <1>9, SMT
<1>12. /\ a.degree * 3600 + a.minute * 60 + a.second \in
            {(n \div 1000000) * 3600 + ((n % 1000000) * 60) \div 10000,
             (n \div 1000000) * 3600 + ((n % 1000000) * 60) \div 10000 - 1}
       /\ a.second \in 0..59
  BY <1>8, <1>10, <1>11, SMT
<1> QED BY <1>1, <1>12, SMT DEF AsAngle

Sentence == [kind : {"rmc"}, f : RmcSentences] \cup [kind : {"gga"}, f : GgaSentences]

GfType == heard \in Seq(Sentence) /\ gps = [i \in GpsItems |-> gps[i]]

\* Each item is what the last valid sentence that gave it said, printed or not.
Remembered == \A i \in GpsItems : gps[i] = GivenIn(heard, Origin[i])

\* What a receiver leaves in a field: nothing, or an hour, an angle, a day of the calendar.
AnHour(v) == v # EMPTY => v[1] \in 0..23

AnAngle(v) == v # EMPTY => v[1] \in Nat

ADay(v) ==
  v # EMPTY => /\ v = <<v[1], v[2], v[3]>> /\ v[2] \in 1..12 /\ v[3] \in 0..99
               /\ v[1] \in 1..DaysOf(2000 + v[3], v[2] - 1)

\* The items the angles and the date are made of are ones a receiver says.
Said(g) ==
  AnHour(g.date_day) /\ AnAngle(g.latitude) /\ AnAngle(g.longitude) /\ ADay(g.date_year)

GfInv == GfType /\ Remembered /\ Said(gps) /\ BtInv /\ FixTold

\* LastGiven is GivenIn of what was heard.
LEMMA GivenNow == \A place : LastGiven(place) = GivenIn(heard, place)
BY DEF LastGiven, GivenIn, SelectLastInSeq

\* A sentence parsed (read_gps.c:402-550) leaves every item what the last valid sentence
\* said, and something a receiver says.
LEMMA RmcRemembered ==
  ASSUME GfType, Remembered, Said(gps), NEW f \in RmcSentences,
         gps' = parse_gnrmc(gps, f), heard' = Append(heard, [kind |-> "rmc", f |-> f])
  PROVE  GfType' /\ Remembered' /\ Said(gps')
<1> DEFINE s == [kind |-> "rmc", f |-> f]
<1>0. s \in Sentence /\ s.kind = "rmc" /\ s.f = f
  BY DEF Sentence
<1>1. \A place : Gives(s, place) <=> place[1] = "rmc" /\ f[2] = <<"A">> /\ f[place[2]] # EMPTY
  BY <1>0 DEF Gives, Valid
<1>2. \A place : GivenIn(heard', place) = IF Gives(s, place) THEN s.f[place[2]] ELSE GivenIn(heard, place)
  BY <1>0, GivenAppend DEF GfType
<1> HIDE DEF s
<1>3. heard' \in Seq(Sentence)
  BY <1>0 DEF GfType, s
<1>4. CASE f[2] # <<"A">>
  <2>1. gps' = gps
    BY <1>4 DEF parse_gnrmc
  <2>2. \A i \in GpsItems : gps'[i] = GivenIn(heard', Origin[i])
    BY <1>1, <1>2, <1>4, <2>1 DEF Remembered
  <2> QED BY <1>3, <2>1, <2>2 DEF GfType, Remembered
<1>5. CASE f[2] = <<"A">>
  <2>1. /\ gps' = [i \in GpsItems |-> gps'[i]]
        /\ \A i \in GpsItems : gps'[i] = IF Origin[i][1] = "rmc" THEN Keep(gps[i], f[Origin[i][2]]) ELSE gps[i]
    BY <1>5, RmcLeaves DEF GfType
  <2>2. \A i \in GpsItems : gps'[i] = GivenIn(heard', Origin[i])
    BY <1>0, <1>1, <1>2, <1>5, <2>1 DEF Remembered, Keep
  <2>3. /\ gps'.date_day \in {gps.date_day, f[1]} /\ gps'.latitude \in {gps.latitude, f[3]}
        /\ gps'.longitude \in {gps.longitude, f[5]} /\ gps'.date_year \in {gps.date_year, f[9]}
    BY <2>1 DEF GpsItems, Origin, Keep
  <2>4. Said(gps')
    <3>1. AnHour(f[1]) /\ AnAngle(f[3]) /\ AnAngle(f[5]) /\ ADay(f[9])
      BY ReceiverAssumption, SMT DEF AnHour, AnAngle, ADay, EMPTY
    <3>2. AnHour(gps'.date_day) /\ AnAngle(gps'.latitude) /\ AnAngle(gps'.longitude)
      BY <2>3, <3>1, Zenon DEF Said
    <3>3. ADay(gps'.date_year)
      BY <2>3, <3>1, Zenon DEF Said
    <3> QED BY <3>2, <3>3 DEF Said
  <2> QED BY <1>3, <2>1, <2>2, <2>4 DEF GfType, Remembered
<1> QED BY <1>4, <1>5

\* The same of a GGA (read_gps.c:435-474).
LEMMA GgaRemembered ==
  ASSUME GfType, Remembered, Said(gps), NEW f \in GgaSentences,
         gps' = parse_gngga(gps, f), heard' = Append(heard, [kind |-> "gga", f |-> f])
  PROVE  GfType' /\ Remembered' /\ Said(gps')
<1> DEFINE s == [kind |-> "gga", f |-> f]
<1>0. s \in Sentence /\ s.kind = "gga" /\ s.f = f
  BY DEF Sentence
<1>1. \A place : Gives(s, place) <=> place[1] = "gga" /\ f[6] # << 0 >> /\ f[place[2]] # EMPTY
  BY <1>0 DEF Gives, Valid
<1>2. \A place : GivenIn(heard', place) = IF Gives(s, place) THEN s.f[place[2]] ELSE GivenIn(heard, place)
  BY <1>0, GivenAppend DEF GfType
<1> HIDE DEF s
<1>3. heard' \in Seq(Sentence)
  BY <1>0 DEF GfType, s
<1>4. CASE f[6] = << 0 >>
  <2>1. gps' = gps
    BY <1>4 DEF parse_gngga
  <2>2. \A i \in GpsItems : gps'[i] = GivenIn(heard', Origin[i])
    BY <1>1, <1>2, <1>4, <2>1 DEF Remembered
  <2> QED BY <1>3, <2>1, <2>2 DEF GfType, Remembered
<1>5. CASE f[6] # << 0 >>
  <2>1. /\ gps' = [i \in GpsItems |-> gps'[i]]
        /\ \A i \in GpsItems : gps'[i] = IF Origin[i][1] = "gga" THEN Keep(gps[i], f[Origin[i][2]]) ELSE gps[i]
    BY <1>5, GgaLeaves DEF GfType
  <2>2. \A i \in GpsItems : gps'[i] = GivenIn(heard', Origin[i])
    BY <1>0, <1>1, <1>2, <1>5, <2>1 DEF Remembered, Keep
  <2>3. /\ gps'.date_day = gps.date_day /\ gps'.latitude = gps.latitude
        /\ gps'.longitude = gps.longitude /\ gps'.date_year = gps.date_year
    BY <2>1 DEF GpsItems, Origin
  <2>4. Said(gps')
    BY <2>3 DEF Said
  <2> QED BY <1>3, <2>1, <2>2, <2>4 DEF GfType, Remembered
<1> QED BY <1>4, <1>5

\* The date is the hour and the day of the items, when both are known.
DateOf(g, u) ==
  g.date_day # EMPTY /\ g.date_year # EMPTY =>
    /\ u.hour = g.date_day[1]
    /\ <<u.mday, u.mon + 1, u.year - 2000>> = g.date_year

\* The date made of an hour and a day that were received (read_gps.c:587-593).
LEMMA DateMade ==
  ASSUME BtInv, NEW g, Said(g), DateTm(g)
  PROVE  BtInv' /\ DateOf(g, utc')
<1>1. CASE ~(g.date_day # EMPTY /\ g.date_year # EMPTY)
  <2>1. DateOf(g, utc')
    BY <1>1, SMT DEF DateOf
  <2>2. BtInv'
    BY <1>1 DEF DateTm, btVars, BtInv, CalendarRight
  <2> QED BY <2>1, <2>2
<1>2. CASE g.date_day # EMPTY /\ g.date_year # EMPTY
  <2> DEFINE y == 2000 + g.date_year[3]
             m == g.date_year[2] - 1
             md == g.date_year[1]
             h == g.date_day[1]
  <2>1. y \in Nat /\ m \in 0..11 /\ md \in Nat /\ h \in 0..23 /\ md <= DaysOf(y, m)
    BY <1>2, SMT DEF Said, ADay, AnHour, DaysOf
  <2>2. utc2btc([year |-> y, mon |-> m, mday |-> md, hour |-> h])
    BY <1>2, SMT DEF DateTm
  <2>3. m + 1 = g.date_year[2] /\ y - 2000 = g.date_year[3]
    BY <1>2, SMT DEF Said, ADay
  <2> HIDE DEF y, m, md, h
  <2>4. BtInv'
    BY <2>1, <2>2, ConvertRight DEF BtInv
  <2>5. utc' = [year |-> y, mon |-> m, mday |-> md, hour |-> h]
    BY <2>2 DEF utc2btc
  <2>6. utc'.hour = h /\ utc'.mday = md /\ utc'.mon + 1 = m + 1 /\ utc'.year - 2000 = y - 2000
    BY <2>5
  <2>7. g.date_year = <<g.date_year[1], g.date_year[2], g.date_year[3]>>
    BY <1>2 DEF Said, ADay
  <2>8. DateOf(g, utc')
    BY <2>6, <2>3, <2>7, SMT DEF DateOf, md, h
  <2> QED BY <2>4, <2>8
<1> QED BY <1>1, <1>2

\* A GGA parsed prints what FixTold says, when the timer asked.
LEMMA PrintTold ==
  ASSUME Remembered', Said(gps'), DateTm(gps'), print_gps(gps'), BtInv
  PROVE  FixTold'
<1>1. PICK lat \in Angle(gps'.latitude), lon \in Angle(gps'.longitude) :
        report' = <<[gps |-> gps', latitude |-> lat, longitude |-> lon]>>
  BY Zenon DEF print_gps
<1>2. AsAngle(gps'.latitude, lat) /\ AsAngle(gps'.longitude, lon)
  BY AngleRight, Zenon DEF Said, AnAngle
<1>3. report'[1] = [gps |-> gps', latitude |-> lat, longitude |-> lon]
  BY <1>1
<1>4. report'[1].gps = gps' /\ report'[1].latitude = lat /\ report'[1].longitude = lon
  BY <1>3
<1>5. \A place : LastGiven(place)' = GivenIn(heard', place)
  BY DEF LastGiven, GivenIn, SelectLastInSeq
<1>6. \A i \in DOMAIN Origin : gps'[i] = LastGiven(Origin[i])'
  BY <1>5 DEF Remembered, GpsItems, Origin
<1>7. /\ gps'.date_day = LastGiven(<<"rmc", 1>>)' /\ gps'.date_year = LastGiven(<<"rmc", 9>>)'
  BY <1>6 DEF Origin
<1>8. DateOf(gps', utc')
  BY DateMade, Zenon
<1> QED BY <1>2, <1>4, <1>6, <1>7, <1>8, SMT DEF FixTold, DateOf

\* GfInv holds from the start and every action keeps it.
LEMMA Fixed == GfSpec => []GfInv
<1>1. GfInit => GfInv
  <2> SUFFICES ASSUME GfInit PROVE GfInv
    OBVIOUS
  <2>1. BtInv
    <3>1. february = 28 /\ turned = FALSE /\ btc = EightHoursOn(utc)
      BY DEF GfInit, BtInit, date_mday
    <3>2. february \in {28, 29} /\ ~(february = 29)
      BY <3>1
    <3>3. turned = (february = 29)
      BY <3>1, <3>2, Zenon
    <3> QED BY <3>1, <3>2, <3>3 DEF BtInv, CalendarRight
  <2>2. gps = [i \in GpsItems |-> EMPTY] /\ heard = << >> /\ report = << >>
    BY DEF GfInit, GpsItems, Origin
  <2>3. \A place : GivenIn(heard, place) = EMPTY
    <3>1. 1..Len(heard) = {}
      BY <2>2
    <3> QED BY <3>1 DEF GivenIn, SelectLastInSeq
  <2>4. GfType /\ Remembered /\ Said(gps)
    BY <2>2, <2>3 DEF GfType, Remembered, Said, GpsItems, AnHour, AnAngle, ADay
  <2> QED BY <2>1, <2>2, <2>4 DEF GfInv, FixTold
<1>2. GfInv /\ [GfNext]_gfVars => GfInv'
  <2> SUFFICES ASSUME GfInv, [GfNext]_gfVars PROVE GfInv'
    OBVIOUS
  <2>0. GfType /\ Remembered /\ Said(gps) /\ BtInv /\ FixTold
    BY DEF GfInv
  <2>1. CASE UNCHANGED gfVars
    <3>1. UNCHANGED btVars /\ UNCHANGED fixVars
      BY <2>1 DEF gfVars
    <3>2. GfType' /\ Remembered' /\ Said(gps')
      BY <2>0, <3>1 DEF fixVars, GfType, Remembered
    <3>3. BtInv'
      BY <2>0, <3>1 DEF btVars, BtInv, CalendarRight
    <3>4. FixTold'
      <4>1. gps' = gps /\ report' = report /\ heard' = heard /\ utc' = utc
        BY <3>1 DEF fixVars, btVars
      <4>2. \A place : LastGiven(place)' = LastGiven(place)
        BY <4>1 DEF LastGiven, SelectLastInSeq
      <4> QED BY <2>0, <4>1, <4>2, SMT DEF FixTold
    <3> QED BY <3>2, <3>3, <3>4 DEF GfInv
  <2>2. CASE itmer_func
    <3>1. GfType' /\ Remembered' /\ Said(gps')
      BY <2>0, <2>2 DEF itmer_func, GfType, Remembered
    <3>2. BtInv'
      BY <2>0, <2>2 DEF itmer_func, btVars, BtInv, CalendarRight
    <3>3. FixTold'
      BY <2>2 DEF itmer_func, FixTold
    <3> QED BY <3>1, <3>2, <3>3 DEF GfInv
  <2>3. CASE PacketRmc
    <3>1. GfType' /\ Remembered' /\ Said(gps')
      BY <2>0, <2>3, RmcRemembered DEF PacketRmc
    <3>2. BtInv'
      BY <2>0, <2>3 DEF PacketRmc, btVars, BtInv, CalendarRight
    <3>3. FixTold'
      BY <2>3 DEF PacketRmc, FixTold
    <3> QED BY <3>1, <3>2, <3>3 DEF GfInv
  <2>4. CASE PacketGga
    <3>1. GfType' /\ Remembered' /\ Said(gps')
      BY <2>0, <2>4, GgaRemembered DEF PacketGga
    <3>2. CASE flag_send
      <4>1. DateTm(gps') /\ print_gps(gps')
        BY <2>4, <3>2 DEF PacketGga
      <4>2. BtInv'
        BY <2>0, <3>1, <4>1, DateMade, Zenon
      <4>3. FixTold'
        BY <2>0, <3>1, <4>1, PrintTold, Zenon
      <4> QED BY <3>1, <4>2, <4>3 DEF GfInv
    <3>3. CASE ~flag_send
      <4>1. report' = << >> /\ UNCHANGED btVars
        BY <2>4, <3>3 DEF PacketGga
      <4>2. BtInv'
        BY <2>0, <4>1 DEF btVars, BtInv, CalendarRight
      <4> QED BY <3>1, <4>1, <4>2 DEF GfInv, FixTold
    <3> QED BY <3>2, <3>3
  <2> QED BY <2>1, <2>2, <2>3, <2>4 DEF GfNext
<1> QED BY <1>1, <1>2, PTL DEF GfSpec

\* Whatever sentences come, valid or not, what print_gps prints is what FixTold says
\* (read_gps.c:402-550, 587-593).
THEOREM FixSafe == GfSpec => []FixTold
<1>1. GfInv => FixTold
  BY DEF GfInv
<1> QED BY <1>1, Fixed, PTL

\* The dates it prints in Beijing time are right as those of the command are
\* (read_gps.c:377-395).
THEOREM FixDatesSafe == GfSpec => []CalendarRight
<1>1. GfInv => CalendarRight
  BY DEF GfInv, BtInv
<1> QED BY <1>1, Fixed, PTL
(* MsgQueue.                                                                *)

\* What a message is.
Msg == [type : Nat, len : Nat, no : Nat]

MqType ==
  /\ mqueue \in Seq(Msg) /\ given \in Seq(Msg) /\ sent \in Seq(Msg)
  /\ lost \subseteq Msg /\ removed \in BOOLEAN /\ mtype \in [Receivers -> Types \union {0}]
  /\ count \in [Receivers -> Nat]
  /\ receiving \in [Receivers -> {"no", "poll", "block", "receive"}]

\* msq_send works on the next message, and none but it sends.
NextIsSent ==
  /\ sending = << >> \/ \E m \in Msg : sending = << m >> /\ m.no = Len(sent) + 1
  /\ older => sending = << >>

\* A message has the number of its place, those that were lost were sent, and a queue
\* that was removed holds nothing.
Numbered ==
  /\ \A n \in 1..Len(sent) : sent[n].no = n
  /\ \A m \in lost : m.no \in 1..Len(sent) /\ sent[m.no] = m
  /\ removed => mqueue = << >>

MqInv == MqType /\ NextIsSent /\ Numbered /\ MessagesGivenOnce

\* One message more at the end.
LEMMA OneMore ==
  ASSUME NEW s \in Seq(Msg), NEW m \in Msg
  PROVE  /\ Append(s, m) \in Seq(Msg) /\ s \o << m >> = Append(s, m)
         /\ Len(Append(s, m)) = Len(s) + 1 /\ Len(s) \in Nat
         /\ Append(s, m)[Len(s) + 1] = m
         /\ \A i \in 1..Len(s) : Append(s, m)[i] = s[i]
  OBVIOUS

\* One sequence behind another.
LEMMA Behind ==
  ASSUME NEW s \in Seq(Msg), NEW t \in Seq(Msg)
  PROVE  /\ s \o t \in Seq(Msg) /\ Len(s \o t) = Len(s) + Len(t)
         /\ Len(s) \in Nat /\ Len(t) \in Nat
         /\ \A i \in 1..Len(s) : (s \o t)[i] = s[i]
         /\ \A i \in 1..Len(t) : (s \o t)[Len(s) + i] = t[i]
<1>1. /\ s \o t \in Seq(Msg) /\ Len(s \o t) = Len(s) + Len(t)
      /\ Len(s) \in Nat /\ Len(t) \in Nat
  OBVIOUS
<1>2. \A i \in 1..(Len(s) + Len(t)) : (s \o t)[i] = IF i <= Len(s) THEN s[i] ELSE t[i - Len(s)]
  BY ConcatProperties
<1> QED BY <1>1, <1>2

\* A sequence without its message f.
LEMMA Without ==
  ASSUME NEW s \in Seq(Msg), NEW f \in 1..Len(s)
  PROVE  /\ RemoveAt(s, f) \in Seq(Msg) /\ Len(RemoveAt(s, f)) = Len(s) - 1 /\ Len(s) \in Nat
         /\ \A i \in 1..(f - 1) : RemoveAt(s, f)[i] = s[i]
         /\ \A i \in f..(Len(s) - 1) : RemoveAt(s, f)[i] = s[i + 1]
<1> DEFINE a == SubSeq(s, 1, f - 1)
           b == SubSeq(s, f + 1, Len(s))
<1>1. a \in Seq(Msg) /\ Len(a) = f - 1 /\ \A i \in 1..(f - 1) : a[i] = s[i]
  BY SubSeqProperties
<1>2. b \in Seq(Msg) /\ Len(b) = Len(s) - f /\ \A i \in 1..(Len(s) - f) : b[i] = s[f + i]
  BY SubSeqProperties
<1>3. RemoveAt(s, f) = a \o b
  BY DEF RemoveAt
<1>4. Len(s) \in Nat /\ f \in Nat /\ f >= 1 /\ f <= Len(s)
  OBVIOUS
<1> HIDE DEF a, b
<1>5. RemoveAt(s, f) \in Seq(Msg) /\ Len(RemoveAt(s, f)) = Len(s) - 1
  BY <1>1, <1>2, <1>3, <1>4, Behind
<1>6. \A i \in 1..(f - 1) : RemoveAt(s, f)[i] = s[i]
  BY <1>1, <1>2, <1>3, Behind
<1>7. ASSUME NEW i \in f..(Len(s) - 1) PROVE RemoveAt(s, f)[i] = s[i + 1]
  <2>1. PICK j : j = i - (f - 1)
    OBVIOUS
  <2>2. j \in 1..(Len(s) - f) /\ i = Len(a) + j /\ f + j = i + 1
    BY <1>1, <1>4, <2>1
  <2>3. (a \o b)[Len(a) + j] = b[j]
    BY <1>1, <1>2, <2>2, Behind
  <2> QED BY <1>2, <1>3, <2>2, <2>3
<1> QED BY <1>4, <1>5, <1>6, <1>7

\* msgrcv takes the first message of the type that is asked for.
LEMMA FirstOfType ==
  ASSUME MqType, NEW t \in Nat, Found1st(t) # 0
  PROVE  /\ Found1st(t) \in 1..Len(mqueue) /\ (t # 0 => mqueue[Found1st(t)].type = t)
         /\ \A i \in 1..Len(mqueue) : i < Found1st(t) => t # 0 /\ mqueue[i].type # t
<1> DEFINE I == {i \in 1..Len(mqueue) : t = 0 \/ mqueue[i].type = t}
<1>1. Found1st(t) = IF I # {} THEN Min(I) ELSE 0
  BY DEF Found1st, SelectInSeq
<1>2. I # {} /\ Found1st(t) = Min(I)
  BY <1>1
<1>3. I \subseteq Nat
  OBVIOUS
<1>4. Min(I) \in I /\ \A y \in I : Min(I) <= y
  <2> HIDE DEF I
  <2> QED BY <1>2, <1>3, MinOfNats
<1>5. ASSUME NEW i \in I PROVE ~ (i < Min(I))
  <2>1. PICK f : f = Min(I)
    OBVIOUS
  <2>2. f \in Nat /\ i \in Nat /\ f <= i
    BY <1>3, <1>4, <2>1
  <2> QED BY <2>1, <2>2
<1> QED BY <1>2, <1>4, <1>5

\* o is what was given out and what is left of the messages s, of which l are lost;
\* those at the end may be gone with the queue.
Handed(o, s, l, gone) ==
  /\ \A i, j \in 1..Len(o) : i < j /\ o[i].type = o[j].type => o[i].no < o[j].no
  /\ \A i \in 1..Len(o) : o[i] \notin l /\ o[i].no \in 1..Len(s) /\ s[o[i].no] = o[i]
  /\ \A n \in 1..Len(s) :
       \/ s[n] \in l
       \/ \E i \in 1..Len(o) : o[i] = s[n]
       \/ gone /\ \A i \in 1..Len(o) : o[i].type = s[n].type => o[i].no < n

\* A message that is sent comes behind all others.
LEMMA Adds ==
  ASSUME NEW o \in Seq(Msg), NEW s \in Seq(Msg), NEW m \in Msg, NEW l, m.no = Len(s) + 1,
         \A x \in l : x.no \in 1..Len(s), Handed(o, s, l, FALSE)
  PROVE  Handed(Append(o, m), Append(s, m), l, FALSE)
<1> DEFINE p == Append(o, m)
           t == Append(s, m)
           a == Len(o)
           b == Len(s)
<1>1. /\ a \in Nat /\ b \in Nat /\ Len(o) = a /\ Len(s) = b /\ Len(p) = a + 1 /\ Len(t) = b + 1
      /\ p[a + 1] = m /\ t[b + 1] = m
      /\ \A i \in 1..a : p[i] = o[i]
      /\ \A i \in 1..b : t[i] = s[i]
  BY OneMore
<1>2. m.no = b + 1 /\ m \notin l
  BY <1>1
<1> HIDE DEF p, t, a, b
<1>3. \A i \in 1..(a + 1) : i = a + 1 \/ i \in 1..a
  BY <1>1
<1>4. \A i \in 1..(b + 1) : i = b + 1 \/ i \in 1..b
  BY <1>1
<1>5. \A i \in 1..a : o[i] \notin l /\ o[i].no \in 1..b /\ s[o[i].no] = o[i]
  BY <1>1 DEF Handed
<1>6. ASSUME NEW i \in 1..(a + 1), NEW j \in 1..(a + 1), i < j, p[i].type = p[j].type
      PROVE  p[i].no < p[j].no
  <2>1. i \in 1..a
    BY <1>1, <1>6
  <2>2. CASE j = a + 1
    <3>1. p[i].no \in 1..b /\ p[j].no = b + 1
      BY <1>1, <1>2, <1>5, <2>1, <2>2
    <3> QED BY <1>1, <3>1
  <2>3. CASE j \in 1..a
    BY <1>1, <1>6, <2>1, <2>3 DEF Handed
  <2> QED BY <1>3, <2>2, <2>3
<1>7. ASSUME NEW i \in 1..(a + 1) PROVE p[i] \notin l /\ p[i].no \in 1..(b + 1) /\ t[p[i].no] = p[i]
  <2>1. CASE i = a + 1
    BY <1>1, <1>2, <2>1
  <2>2. CASE i \in 1..a
    BY <1>1, <1>5, <2>2
  <2> QED BY <1>3, <2>1, <2>2
<1>8. ASSUME NEW n \in 1..(b + 1) PROVE t[n] \in l \/ \E i \in 1..(a + 1) : p[i] = t[n]
  <2>1. CASE n = b + 1
    BY <1>1, <2>1
  <2>2. CASE n \in 1..b
    <3>1. s[n] \in l \/ \E i \in 1..a : o[i] = s[n]
      BY <1>1, <2>2 DEF Handed
    <3> QED BY <1>1, <2>2, <3>1
  <2> QED BY <1>4, <2>1, <2>2
<1>9. Handed(p, t, l, FALSE)
  BY <1>1, <1>6, <1>7, <1>8 DEF Handed
<1> QED BY <1>9 DEF p, t

\* The message at k is moved forward to h, past others of other types.
Forward(o, p, h, k) ==
  /\ Len(p) = Len(o) /\ h \in 1..k /\ k \in 1..Len(o)
  /\ \A i \in h..(k - 1) : o[i].type # o[k].type
  /\ \A i \in 1..(h - 1) : p[i] = o[i]
  /\ p[h] = o[k]
  /\ \A i \in (h + 1)..k : p[i] = o[i - 1]
  /\ \A i \in (k + 1)..Len(o) : p[i] = o[i]

\* Messages of one type stay in order when another is moved past them.
LEMMA Moves ==
  ASSUME NEW o \in Seq(Msg), NEW p \in Seq(Msg), NEW s \in Seq(Msg), NEW l, NEW h, NEW k,
         Forward(o, p, h, k), Handed(o, s, l, FALSE)
  PROVE  Handed(p, s, l, FALSE)
<1> DEFINE a == Len(o)
           From(i) == IF i = h THEN k ELSE IF h < i /\ i <= k THEN i - 1 ELSE i
           To(i) == IF i = k THEN h ELSE IF h <= i /\ i < k THEN i + 1 ELSE i
<1>1. /\ a \in Nat /\ Len(o) = a /\ Len(p) = a /\ h \in 1..k /\ k \in 1..a
      /\ \A i \in h..(k - 1) : o[i].type # o[k].type
  BY DEF Forward
<1> HIDE DEF a
<1>2. \A i \in 1..a : From(i) \in 1..a /\ p[i] = o[From(i)]
  <2> SUFFICES ASSUME NEW i \in 1..a PROVE From(i) \in 1..a /\ p[i] = o[From(i)]
    OBVIOUS
  <2>1. From(i) \in 1..a
    BY <1>1
  <2>2. CASE i = h
    BY <2>1, <2>2 DEF Forward
  <2>3. CASE h < i /\ i <= k
    BY <1>1, <2>3 DEF Forward
  <2>4. CASE i < h \/ k < i
    BY <1>1, <2>4 DEF Forward
  <2> QED BY <1>1, <2>1, <2>2, <2>3, <2>4
<1>3. \A i \in 1..a : To(i) \in 1..a /\ From(To(i)) = i
  BY <1>1
<1>4. \A i, j \in 1..a : i < j => From(i) < From(j) \/ (i = h /\ From(j) \in h..(k - 1))
  BY <1>1
<1>5. ASSUME NEW i \in 1..a, NEW j \in 1..a, i < j, p[i].type = p[j].type
      PROVE  p[i].no < p[j].no
  <2>1. From(i) \in 1..a /\ p[i] = o[From(i)] /\ From(j) \in 1..a /\ p[j] = o[From(j)]
    BY <1>2
  <2>2. CASE From(i) < From(j)
    <3> HIDE DEF From
    <3> QED BY <1>1, <1>5, <2>1, <2>2 DEF Handed
  <2>3. CASE i = h /\ From(j) \in h..(k - 1)
    <3>1. p[i] = o[k]
      BY <2>1, <2>3
    <3> HIDE DEF From
    <3> QED BY <1>1, <1>5, <2>1, <2>3, <3>1
  <2> QED BY <1>4, <1>5, <2>2, <2>3
<1> HIDE DEF From, To
<1>6. \A i \in 1..a : p[i] \notin l /\ p[i].no \in 1..Len(s) /\ s[p[i].no] = p[i]
  <2>1. \A i \in 1..a : o[i] \notin l /\ o[i].no \in 1..Len(s) /\ s[o[i].no] = o[i]
    BY <1>1 DEF Handed
  <2> QED BY <1>2, <2>1
<1>7. ASSUME NEW n \in 1..Len(s) PROVE s[n] \in l \/ \E i \in 1..a : p[i] = s[n]
  <2>1. CASE s[n] \in l
    BY <2>1
  <2>2. CASE \E i \in 1..a : o[i] = s[n]
    <3>1. PICK i \in 1..a : o[i] = s[n]
      BY <2>2
    <3>2. To(i) \in 1..a /\ p[To(i)] = s[n]
      BY <1>2, <1>3, <3>1
    <3> QED BY <3>2
  <2> QED BY <1>1, <2>1, <2>2 DEF Handed
<1> QED BY <1>1, <1>5, <1>6, <1>7 DEF Handed

\* p is o without the message at k, which is lost as those of l were.
Short(o, p, k, l, e) ==
  /\ e = l \union {o[k]} /\ k \in 1..Len(o) /\ Len(p) = Len(o) - 1
  /\ \A i \in 1..(k - 1) : p[i] = o[i]
  /\ \A i \in k..(Len(o) - 1) : p[i] = o[i + 1]

\* A message that is lost is missing and nothing else is.
LEMMA Misses ==
  ASSUME NEW o \in Seq(Msg), NEW p \in Seq(Msg), NEW s \in Seq(Msg), NEW l, NEW k, NEW e,
         Short(o, p, k, l, e), Handed(o, s, l, FALSE)
  PROVE  Handed(p, s, e, FALSE)
<1> DEFINE a == Len(o)
           From(i) == IF i < k THEN i ELSE i + 1
<1>1. a \in Nat /\ Len(o) = a /\ Len(p) = a - 1 /\ k \in 1..a /\ a - 1 \in Nat /\ k \in Nat
      /\ e = l \union {o[k]}
  BY DEF Short
<1> HIDE DEF a
<1>2. \A i \in 1..(a - 1) : From(i) \in 1..a /\ From(i) # k /\ p[i] = o[From(i)]
  <2> SUFFICES ASSUME NEW i \in 1..(a - 1) PROVE From(i) \in 1..a /\ From(i) # k /\ p[i] = o[From(i)]
    OBVIOUS
  <2>1. CASE i < k
    BY <1>1, <2>1 DEF Short
  <2>2. CASE k <= i
    BY <1>1, <2>2 DEF Short
  <2> QED BY <1>1, <2>1, <2>2
<1>3. \A i, j \in 1..(a - 1) : i < j => From(i) < From(j)
  BY <1>1
<1>4. \A i \in 1..a : i # k => \E j \in 1..(a - 1) : From(j) = i
  <2> SUFFICES ASSUME NEW i \in 1..a, i # k PROVE \E j \in 1..(a - 1) : From(j) = i
    OBVIOUS
  <2>1. CASE i < k
    <3>1. i \in 1..(a - 1) /\ From(i) = i
      BY <1>1, <2>1
    <3> QED BY <3>1
  <2>2. CASE k < i
    <3>1. i - 1 \in 1..(a - 1) /\ From(i - 1) = i
      BY <1>1, <2>2
    <3> QED BY <3>1
  <2> QED BY <1>1, <2>1, <2>2
<1> HIDE DEF From
<1>5. \A i, j \in 1..a : i < j /\ o[i].type = o[j].type => o[i].no < o[j].no
  BY <1>1 DEF Handed
<1>6. \A i \in 1..a : o[i] \notin l /\ o[i].no \in 1..Len(s) /\ s[o[i].no] = o[i] /\ o[i].no \in Nat
  BY <1>1 DEF Handed
<1>7. \A i, j \in 1..a : i # j => o[i] # o[j]
  <2> SUFFICES ASSUME NEW i \in 1..a, NEW j \in 1..a, i # j, o[i] = o[j] PROVE FALSE
    OBVIOUS
  <2>1. i < j \/ j < i
    OBVIOUS
  <2>2. o[i].no < o[i].no
    BY <1>5, <2>1
  <2> QED BY <1>6, <2>2
<1>8. \A i, j \in 1..(a - 1) : i < j /\ p[i].type = p[j].type => p[i].no < p[j].no
  BY <1>2, <1>3, <1>5
<1>9. \A i \in 1..(a - 1) : p[i] \notin e /\ p[i].no \in 1..Len(s) /\ s[p[i].no] = p[i]
  BY <1>1, <1>2, <1>6, <1>7
<1>10. ASSUME NEW n \in 1..Len(s) PROVE s[n] \in e \/ \E i \in 1..(a - 1) : p[i] = s[n]
  <2>1. CASE s[n] \in l
    BY <1>1, <2>1
  <2>2. CASE \E i \in 1..a : o[i] = s[n]
    <3>1. PICK i \in 1..a : o[i] = s[n]
      BY <2>2
    <3>2. CASE i = k
      BY <1>1, <3>1, <3>2
    <3>3. CASE i # k
      BY <1>2, <1>4, <3>1, <3>3
    <3> QED BY <3>2, <3>3
  <2> QED BY <1>1, <2>1, <2>2 DEF Handed
<1> QED BY <1>1, <1>6, <1>8, <1>9, <1>10 DEF Handed

\* The messages behind the first h are gone.
LEMMA CutOff ==
  ASSUME NEW o \in Seq(Msg), NEW p \in Seq(Msg), NEW s \in Seq(Msg), NEW l, Len(p) <= Len(o),
         \A i \in 1..Len(p) : p[i] = o[i], \A n \in 1..Len(s) : s[n].no = n, Handed(o, s, l, FALSE)
  PROVE  Handed(p, s, l, TRUE)
<1> DEFINE a == Len(o)
           b == Len(p)
<1>1. a \in Nat /\ b \in Nat /\ Len(o) = a /\ Len(p) = b /\ b <= a /\ \A i \in 1..b : p[i] = o[i]
  OBVIOUS
<1> HIDE DEF a, b
<1>2. \A i \in 1..b : i \in 1..a
  BY <1>1
<1>3. \A i, j \in 1..b : i < j /\ p[i].type = p[j].type => p[i].no < p[j].no
  BY <1>1, <1>2 DEF Handed
<1>4. \A i \in 1..b : p[i] \notin l /\ p[i].no \in 1..Len(s) /\ s[p[i].no] = p[i]
  BY <1>1, <1>2 DEF Handed
<1>5. ASSUME NEW n \in 1..Len(s), s[n] \notin l, \A i \in 1..b : p[i] # s[n],
             NEW i \in 1..b, p[i].type = s[n].type
      PROVE  p[i].no < n
  <2>1. PICK j \in 1..a : o[j] = s[n]
    BY <1>1, <1>5 DEF Handed
  <2>2. j \notin 1..b
    BY <1>1, <1>5, <2>1
  <2>3. i < j
    BY <1>1, <2>2
  <2>4. i \in 1..a /\ p[i] = o[i] /\ s[n].no = n
    BY <1>1, <1>2
  <2> QED BY <1>1, <1>5, <2>1, <2>3, <2>4 DEF Handed
<1> QED BY <1>1, <1>3, <1>4, <1>5 DEF Handed

\* The invariant speaks of what was given and what is in the queue as of one sequence.
LEMMA InHand ==
  /\ MessagesGivenOnce <=> (\A m \in lost : m.len = 0) /\ Handed(Out, sent, lost, removed)
  /\ MessagesGivenOnce /\ ~removed => Handed(Out, sent, lost, FALSE)
  /\ MqType => Out \in Seq(Msg)
<1>1. MqType => Out \in Seq(Msg)
  BY Behind DEF MqType, Out
<1>2. MessagesGivenOnce <=> (\A m \in lost : m.len = 0) /\ Handed(Out, sent, lost, removed)
  BY DEF MessagesGivenOnce, Handed
<1>3. MessagesGivenOnce /\ ~removed => Handed(Out, sent, lost, FALSE)
  BY DEF MessagesGivenOnce, Handed
<1> QED BY <1>1, <1>2, <1>3

\* It begins with nothing.
LEMMA MqInitInv == MqInit => MqInv
<1> SUFFICES ASSUME MqInit PROVE MqInv
  OBVIOUS
<1>1. MqType
  <2>1. mqueue \in Seq(Msg) /\ given \in Seq(Msg) /\ sent \in Seq(Msg) /\ lost \subseteq Msg
    BY DEF MqInit, msg_queue_init
  <2>2. /\ removed \in BOOLEAN /\ mtype \in [Receivers -> Types \union {0}]
        /\ count \in [Receivers -> Nat] /\ receiving \in [Receivers -> {"no", "poll", "block", "receive"}]
    BY DEF MqInit, msg_queue_init
  <2> QED BY <2>1, <2>2 DEF MqType
<1>2. NextIsSent /\ Numbered
  BY DEF MqInit, msg_queue_init, NextIsSent, Numbered
<1>3. Len(Out) = 0 /\ Len(sent) = 0
  BY DEF MqInit, msg_queue_init, Out
<1>4. MessagesGivenOnce
  BY <1>3 DEF MqInit, MessagesGivenOnce
<1> QED BY <1>1, <1>2, <1>4 DEF MqInv

\* A message is put at the end of the queue and reported as sent.
LEMMA SendKeeps ==
  ASSUME MqInv, ~removed, NEW m \in Msg, m.no = Len(sent) + 1, sending' = << >>,
         mqueue' = Append(mqueue, m), sent' = Append(sent, m), MqType',
         UNCHANGED <<removed, given, lost>>
  PROVE  MqInv'
<1> USE DEF MqInv
<1>1. sent' \in Seq(Msg) /\ Len(sent) \in Nat /\ Len(sent') = Len(sent) + 1
      /\ sent'[Len(sent) + 1] = m /\ \A i \in 1..Len(sent) : sent'[i] = sent[i]
  BY OneMore DEF MqType
<1>2. NextIsSent'
  BY DEF NextIsSent
<1>3. Numbered'
  <2>1. \A n \in 1..Len(sent') : sent'[n].no = n
    BY <1>1 DEF Numbered
  <2>2. \A x \in lost : x.no \in 1..Len(sent') /\ sent'[x.no] = x
    BY <1>1 DEF Numbered
  <2> QED BY <2>1, <2>2 DEF Numbered
<1>4. Out' = Append(Out, m)
  <2>1. mqueue \in Seq(Msg) /\ given \in Seq(Msg) /\ << m >> \in Seq(Msg)
    BY DEF MqType
  <2>2. Out' = given \o (mqueue \o << m >>)
    BY <2>1, OneMore DEF Out
  <2>3. given \o (mqueue \o << m >>) = (given \o mqueue) \o << m >>
    BY <2>1, ConcatAssociative
  <2> QED BY <2>1, <2>2, <2>3, OneMore, InHand DEF Out
<1>5. Handed(Out, sent, lost, FALSE) /\ Out \in Seq(Msg)
  BY InHand
<1>6. \A x \in lost : x.no \in 1..Len(sent)
  BY DEF Numbered
<1>7. Handed(Append(Out, m), sent', lost, FALSE)
  BY <1>5, <1>6, Adds DEF MqType
<1>8. MessagesGivenOnce'
  BY <1>4, <1>7 DEF MessagesGivenOnce, Handed
<1> QED BY <1>2, <1>3, <1>8

\* msgrcv takes a message and hands it out.
LEMMA GiveKeeps ==
  ASSUME MqInv, NEW t \in Nat, Fits(t), Take(t), Give(t), MqType'
  PROVE  MqInv'
<1> USE DEF MqInv
<1> DEFINE f == Found1st(t)
           g == Len(given)
           q == Len(mqueue)
<1>1. /\ f \in 1..q /\ (t # 0 => mqueue[f].type = t) /\ q \in Nat /\ g \in Nat
      /\ \A i \in 1..q : i < f => t # 0 /\ mqueue[i].type # t
  BY FirstOfType DEF Fits, MqType
<1>2. ~removed /\ UNCHANGED <<older, removed, sending, sent, lost>>
  BY DEF Fits, Take, Give
<1>3. mqueue' = RemoveAt(mqueue, f) /\ given' = Append(given, mqueue[f]) /\ mqueue[f] \in Msg
  BY <1>1 DEF Take, Give, Message, MqType
<1>4. /\ Len(Out) = g + q /\ Out \in Seq(Msg)
      /\ \A i \in 1..g : Out[i] = given[i]
      /\ \A i \in 1..q : Out[g + i] = mqueue[i]
  BY Behind DEF Out, MqType
<1>5. /\ Len(mqueue') = q - 1
      /\ \A i \in 1..(f - 1) : mqueue'[i] = mqueue[i]
      /\ \A i \in f..(q - 1) : mqueue'[i] = mqueue[i + 1]
  BY <1>1, <1>3, Without DEF MqType
<1>6. /\ Len(given') = g + 1 /\ given'[g + 1] = mqueue[f]
      /\ \A i \in 1..g : given'[i] = given[i]
  BY <1>3, OneMore DEF MqType
<1>7. /\ Len(Out') = Len(given') + Len(mqueue') /\ Out' \in Seq(Msg)
      /\ \A i \in 1..Len(given') : Out'[i] = given'[i]
      /\ \A i \in 1..Len(mqueue') : Out'[Len(given') + i] = mqueue'[i]
  BY Behind DEF Out, MqType
<1>8. PICK o : o = Out
  OBVIOUS
<1>9. PICK p : p = Out'
  OBVIOUS
<1> HIDE DEF f, g, q
<1>10. Len(o) = g + q /\ Len(p) = g + q
  BY <1>1, <1>4, <1>5, <1>6, <1>7, <1>8, <1>9
<1>11. g + 1 \in 1..(g + f) /\ g + f \in 1..(g + q) /\ f \in Nat
  BY <1>1
<1>12. o[g + f] = mqueue[f]
  BY <1>1, <1>4, <1>8
<1>13. \A i \in (g + 1)..(g + f - 1) : o[i].type # o[g + f].type
  <2> SUFFICES ASSUME NEW i \in (g + 1)..(g + f - 1) PROVE o[i].type # o[g + f].type
    OBVIOUS
  <2>1. PICK j \in 1..(f - 1) : i = g + j
    <3>1. i - g \in 1..(f - 1) /\ i = g + (i - g)
      BY <1>1, <1>11
    <3> QED BY <3>1
  <2>2. j \in 1..q /\ j < f
    BY <1>1, <1>11
  <2> QED BY <1>1, <1>4, <1>8, <1>12, <2>1, <2>2
<1>14. \A i \in 1..g : p[i] = o[i]
  BY <1>1, <1>4, <1>6, <1>7, <1>8, <1>9
<1>15. p[g + 1] = o[g + f]
  BY <1>1, <1>6, <1>7, <1>9, <1>12
<1>16. \A i \in (g + 2)..(g + f) : p[i] = o[i - 1]
  <2> SUFFICES ASSUME NEW i \in (g + 2)..(g + f) PROVE p[i] = o[i - 1]
    OBVIOUS
  <2>1. PICK j \in 1..(f - 1) : i = g + 1 + j /\ i - 1 = g + j
    BY <1>1, <1>11
  <2>2. j \in 1..q /\ j \in 1..(q - 1)
    BY <1>1, <1>11
  <2>3. p[i] = mqueue'[j]
    BY <1>5, <1>6, <1>7, <1>9, <2>1, <2>2
  <2> QED BY <1>4, <1>5, <1>8, <2>1, <2>2, <2>3
<1>17. \A i \in (g + f + 1)..(g + q) : p[i] = o[i]
  <2> SUFFICES ASSUME NEW i \in (g + f + 1)..(g + q) PROVE p[i] = o[i]
    OBVIOUS
  <2>1. PICK j \in f..(q - 1) : i = g + 1 + j /\ i = g + (j + 1)
    BY <1>1, <1>11
  <2>2. j \in 1..(q - 1) /\ j + 1 \in 1..q
    BY <1>1, <1>11
  <2>3. p[i] = mqueue'[j]
    BY <1>5, <1>6, <1>7, <1>9, <2>1, <2>2
  <2>4. o[i] = mqueue[j + 1]
    BY <1>4, <1>8, <2>1, <2>2
  <2> QED BY <1>5, <2>1, <2>3, <2>4
<1>18. Forward(o, p, g + 1, g + f)
  BY <1>1, <1>10, <1>11, <1>13, <1>14, <1>15, <1>16, <1>17 DEF Forward
<1>19. Handed(o, sent, lost, FALSE)
  BY <1>2, <1>8, InHand
<1>20. Handed(p, sent, lost, FALSE)
  BY <1>4, <1>7, <1>8, <1>9, <1>18, <1>19, Moves DEF MqType
<1>21. MessagesGivenOnce'
  BY <1>2, <1>9, <1>20 DEF MessagesGivenOnce, Handed
<1>22. NextIsSent' /\ Numbered'
  BY <1>2 DEF NextIsSent, Numbered
<1> QED BY <1>21, <1>22

\* msgrcv takes a message of no length, and the receiver takes that for a failure.
LEMMA LoseKeeps ==
  ASSUME MqInv, NEW t \in Nat, Fits(t), Take(t), Lose(t), Message(t).len = 0, MqType'
  PROVE  MqInv'
<1> USE DEF MqInv
<1> DEFINE f == Found1st(t)
           g == Len(given)
           q == Len(mqueue)
<1>1. f \in 1..q /\ q \in Nat /\ g \in Nat
  BY FirstOfType DEF Fits, MqType
<1>2. ~removed /\ UNCHANGED <<older, removed, sending, sent, given>>
  BY DEF Fits, Take, Lose
<1>3. mqueue' = RemoveAt(mqueue, f) /\ lost' = lost \union {mqueue[f]} /\ mqueue[f].len = 0
  BY DEF Take, Lose, Message
<1>4. /\ Len(Out) = g + q /\ Out \in Seq(Msg)
      /\ \A i \in 1..g : Out[i] = given[i]
      /\ \A i \in 1..q : Out[g + i] = mqueue[i]
  BY Behind DEF Out, MqType
<1>5. /\ Len(mqueue') = q - 1
      /\ \A i \in 1..(f - 1) : mqueue'[i] = mqueue[i]
      /\ \A i \in f..(q - 1) : mqueue'[i] = mqueue[i + 1]
  BY <1>1, <1>3, Without DEF MqType
<1>6. /\ Len(Out') = g + Len(mqueue') /\ Out' \in Seq(Msg)
      /\ \A i \in 1..g : Out'[i] = given[i]
      /\ \A i \in 1..Len(mqueue') : Out'[g + i] = mqueue'[i]
  BY <1>2, Behind DEF Out, MqType
<1>7. PICK o : o = Out
  OBVIOUS
<1>8. PICK p : p = Out'
  OBVIOUS
<1> HIDE DEF f, g, q
<1>9. Len(o) = g + q /\ Len(p) = g + q - 1 /\ f \in Nat /\ g + f \in 1..(g + q)
  BY <1>1, <1>4, <1>5, <1>6, <1>7, <1>8
<1>10. o[g + f] = mqueue[f]
  BY <1>1, <1>4, <1>7
<1>11. \A i \in 1..(g + f - 1) : p[i] = o[i]
  <2> SUFFICES ASSUME NEW i \in 1..(g + f - 1) PROVE p[i] = o[i]
    OBVIOUS
  <2>1. CASE i \in 1..g
    BY <1>4, <1>6, <1>7, <1>8, <2>1
  <2>2. CASE i \notin 1..g
    <3>1. PICK j \in 1..(f - 1) : i = g + j
      BY <1>1, <1>9, <2>2
    <3>2. j \in 1..q /\ j \in 1..(q - 1)
      BY <1>1, <1>9
    <3> QED BY <1>4, <1>5, <1>6, <1>7, <1>8, <3>1, <3>2
  <2> QED BY <2>1, <2>2
<1>12. \A i \in (g + f)..(g + q - 1) : p[i] = o[i + 1]
  <2> SUFFICES ASSUME NEW i \in (g + f)..(g + q - 1) PROVE p[i] = o[i + 1]
    OBVIOUS
  <2>1. PICK j \in f..(q - 1) : i = g + j /\ i + 1 = g + (j + 1)
    BY <1>1, <1>9
  <2>2. j \in 1..(q - 1) /\ j + 1 \in 1..q
    BY <1>1, <1>9
  <2>3. p[i] = mqueue'[j]
    BY <1>5, <1>6, <1>8, <2>1, <2>2
  <2>4. o[i + 1] = mqueue[j + 1]
    BY <1>4, <1>7, <2>1, <2>2
  <2> QED BY <1>5, <2>1, <2>3, <2>4
<1>13. Short(o, p, g + f, lost, lost')
  BY <1>3, <1>10, <1>1, <1>9, <1>11, <1>12 DEF Short
<1>14. Handed(o, sent, lost, FALSE)
  BY <1>2, <1>7, InHand
<1>15. /\ Handed(p, sent, lost', FALSE)
       /\ o[g + f].no \in 1..Len(sent) /\ sent[o[g + f].no] = o[g + f]
  <2>1. PICK k : k = g + f
    OBVIOUS
  <2>2. o \in Seq(Msg) /\ p \in Seq(Msg) /\ sent \in Seq(Msg)
    BY <1>4, <1>6, <1>7, <1>8 DEF MqType
  <2>3. PICK e : e = lost'
    OBVIOUS
  <2>4. Short(o, p, k, lost, e)
    BY <1>13, <2>1, <2>3
  <2>5. Handed(p, sent, e, FALSE)
    BY <1>14, <2>2, <2>4, Misses
  <2>6. o[k].no \in 1..Len(sent) /\ sent[o[k].no] = o[k]
    BY <1>9, <1>14, <2>1 DEF Handed
  <2> QED BY <2>1, <2>3, <2>5, <2>6
<1>16. MessagesGivenOnce'
  <2>1. \A m \in lost' : m.len = 0
    BY <1>3 DEF MessagesGivenOnce
  <2> QED BY <1>2, <1>3, <1>8, <1>10, <1>15, <2>1 DEF MessagesGivenOnce, Handed
<1>17. NextIsSent' /\ Numbered'
  BY <1>2, <1>3, <1>10, <1>15 DEF NextIsSent, Numbered
<1> QED BY <1>16, <1>17

\* The queue is removed with what is in it.
LEMMA CloseKeeps == ASSUME MqInv, msq_close PROVE MqInv'
<1> USE DEF MqInv
<1>1. /\ ~removed /\ removed' = TRUE /\ mqueue' = << >>
      /\ UNCHANGED <<older, sending, receiving, mtype, count, sent, given, lost>>
  BY DEF msq_close
<1>2. MqType' /\ NextIsSent' /\ Numbered'
  BY <1>1 DEF MqType, NextIsSent, Numbered
<1>3. Out' = given
  BY <1>1 DEF Out, MqType
<1>4. /\ Len(given) <= Len(Out) /\ \A i \in 1..Len(given) : given[i] = Out[i]
  BY Behind DEF Out, MqType
<1>5. Handed(Out, sent, lost, FALSE) /\ Out \in Seq(Msg)
  BY <1>1, InHand
<1>6. Handed(given, sent, lost, TRUE)
  <2>1. PICK o : o = Out
    OBVIOUS
  <2>2. given \in Seq(Msg) /\ sent \in Seq(Msg) /\ \A n \in 1..Len(sent) : sent[n].no = n
    BY DEF MqType, Numbered
  <2>3. o \in Seq(Msg) /\ Len(given) <= Len(o) /\ \A i \in 1..Len(given) : given[i] = o[i]
    BY <1>4, <1>5, <2>1
  <2>4. Handed(o, sent, lost, FALSE)
    BY <1>5, <2>1
  <2> QED BY <2>2, <2>3, <2>4, CutOff
<1> QED BY <1>1, <1>2, <1>3, <1>6 DEF MessagesGivenOnce, Handed

\* Nothing that is counted changes: calls begin, wait, fail and return.
LEMMA WaitKeeps ==
  ASSUME MqInv, UNCHANGED <<mqueue, removed, sent, given, lost>>, MqType', NextIsSent'
  PROVE  MqInv'
<1>1. Out' = Out
  BY DEF Out
<1>2. Numbered'
  BY DEF MqInv, Numbered
<1>3. MessagesGivenOnce'
  BY <1>1 DEF MqInv, MessagesGivenOnce
<1> QED BY <1>2, <1>3 DEF MqInv

\* What a call of a receiver does to its own variables.
LEMMA CallsTyped ==
  ASSUME MqType, NEW r \in Receivers, NEW t \in Types \union {0}, NEW n \in Nat,
         NEW how \in {"no", "poll", "block", "receive"}, Waits(r, how, t, n)
  PROVE  /\ receiving' \in [Receivers -> {"no", "poll", "block", "receive"}]
         /\ mtype' \in [Receivers -> Types \union {0}] /\ count' \in [Receivers -> Nat]
BY DEF MqType, Waits

\* Messages that are taken keep the types.
LEMMA TakesTyped ==
  ASSUME MqType, NEW t \in Types \union {0}, Fits(t), Take(t), Give(t) \/ Lose(t),
         receiving' \in [Receivers -> {"no", "poll", "block", "receive"}],
         mtype' \in [Receivers -> Types \union {0}], count' \in [Receivers -> Nat]
  PROVE  MqType'
<1>1. t \in Nat
  BY MqAssumption DEF MqAssumption
<1>2. Found1st(t) \in 1..Len(mqueue) /\ Message(t) \in Msg
  BY <1>1, FirstOfType DEF Fits, Message, MqType
<1>3. mqueue' \in Seq(Msg) /\ UNCHANGED <<removed, sent>>
  BY <1>2, Without DEF Take, MqType
<1>4. given' \in Seq(Msg) /\ lost' \subseteq Msg
  <2>1. PICK m \in Msg : m = Message(t)
    BY <1>2
  <2>2. CASE Give(t)
    BY <2>1, <2>2, OneMore DEF Give, MqType
  <2>3. CASE Lose(t)
    BY <2>1, <2>3 DEF Lose, MqType
  <2> QED BY <2>2, <2>3
<1> QED BY <1>3, <1>4 DEF MqType

\* The invariant holds of every behaviour of the senders and receivers.
LEMMA MqAlways == MqInit /\ [][MqNext]_mqVars => []MqInv
<1>0. /\ \A t \in Types \union {0} : t \in Nat
      /\ Types # {} /\ Lengths \subseteq Nat /\ BufLen \in Nat /\ Polls \in Nat
  BY MqAssumption DEF MqAssumption
<1>1. ASSUME MqInv, NEW t \in Types, NEW n \in Lengths, msq_send(t, n) PROVE MqInv'
  <2>1. MqType'
    BY <1>1 DEF msq_send, MqInv, MqType
  <2>2. NextIsSent'
    <3>1. [type |-> t, len |-> n, no |-> Len(sent) + 1] \in Msg
      BY <1>0, <1>1 DEF MqInv, MqType, Msg
    <3> QED BY <1>1, <3>1 DEF msq_send, NextIsSent
  <2> QED BY <1>1, <2>1, <2>2, WaitKeeps DEF msq_send
<1>2. ASSUME MqInv, Sent PROVE MqInv'
  <2>1. PICK m \in Msg : sending = << m >> /\ m.no = Len(sent) + 1
    BY <1>2 DEF Sent, MqInv, NextIsSent
  <2>2. mqueue' = Append(mqueue, m) /\ sent' = Append(sent, m)
    BY <1>2, <2>1, OneMore DEF Sent, MqInv, MqType
  <2>3. MqType'
    BY <1>2, <2>2, OneMore DEF Sent, MqInv, MqType
  <2> QED BY <1>2, <2>1, <2>2, <2>3, SendKeeps DEF Sent
<1>3. ASSUME MqInv, SendFails PROVE MqInv'
  <2>1. MqType' /\ NextIsSent'
    BY <1>3 DEF SendFails, MqInv, MqType, NextIsSent
  <2> QED BY <1>3, <2>1, WaitKeeps DEF SendFails
<1>4. ASSUME MqInv, NEW r \in Receivers, NEW t \in Types \union {0}, NEW n \in Nat,
             NEW how \in {"no", "poll", "block", "receive"}, Waits(r, how, t, n), NotTaken
      PROVE  MqInv'
  <2>1. MqType'
    BY <1>4, CallsTyped DEF NotTaken, MqInv, MqType
  <2>2. NextIsSent'
    BY <1>4 DEF NotTaken, MqInv, NextIsSent
  <2> QED BY <1>4, <2>1, <2>2, WaitKeeps DEF NotTaken
<1>5. ASSUME MqInv, NEW r \in Receivers, NEW t \in Types \union {0}, NEW n \in Nat,
             NEW how \in {"no", "poll", "block", "receive"}, Waits(r, how, t, n),
             NEW u \in Types \union {0}, Fits(u), Take(u),
             Give(u) \/ (Lose(u) /\ Message(u).len = 0)
      PROVE  MqInv'
  <2>1. MqType'
    BY <1>5, CallsTyped, TakesTyped DEF MqInv
  <2>2. u \in Nat
    BY <1>0
  <2> QED BY <1>5, <2>1, <2>2, GiveKeeps, LoseKeeps
<1>6. ASSUME MqInv, NEW r \in Receivers, NEW t \in Types \union {0},
             msq_recv_timeout(r, t) \/ msq_recv_block(r, t)
      PROVE  MqInv'
  BY <1>0, <1>4, <1>6 DEF msq_recv_timeout, msq_recv_block
<1>7. ASSUME MqInv, NEW r \in Receivers, NEW t \in Types \union {0}, msq_recv_noblock(r, t)
      PROVE  MqInv'
  <2>1. MqType'
    BY <1>7, TakesTyped DEF msq_recv_noblock, MqInv, MqType
  <2>2. t \in Nat
    BY <1>0
  <2> QED BY <1>7, <2>1, <2>2, GiveKeeps DEF msq_recv_noblock
<1>8. ASSUME MqInv, NEW r \in Receivers PROVE 0 \in Types \union {0} /\ mtype[r] \in Types \union {0}
                                              /\ count[r] \in Nat /\ Polls \in Nat
  BY <1>0, <1>8 DEF MqInv, MqType
<1>9. ASSUME MqInv, NEW t \in Types \union {0}, Fits(t) PROVE Message(t).len \in Nat
  <2>1. t \in Nat
    BY <1>0
  <2>2. Message(t) \in Msg
    <3>1. Found1st(t) \in 1..Len(mqueue) /\ mqueue \in Seq(Msg)
      BY <1>9, <2>1, FirstOfType DEF Fits, MqInv, MqType
    <3> QED BY <3>1, ElementOfSeq DEF Message
  <2> QED BY <2>2 DEF Msg
<1>10. ASSUME MqInv, NEW r \in Receivers, PollTakes(r) PROVE MqInv'
  <2>1. CASE Message(mtype[r]).len > 0
    BY <1>5, <1>8, <1>10, <2>1 DEF PollTakes, Returns
  <2>2. CASE ~ (Message(mtype[r]).len > 0)
    <3>4. mtype[r] \in Types \union {0} /\ Fits(mtype[r])
      BY <1>8, <1>10 DEF PollTakes
    <3>2. Message(mtype[r]).len \in Nat
      BY <1>9, <1>10, <3>4
    <3>3. count[r] \in Nat /\ count[r] > 0
      BY <1>8, <1>10 DEF PollTakes
    <3>1. Message(mtype[r]).len = 0 /\ count[r] - 1 \in Nat
      BY <2>2, <3>2, <3>3
    <3> QED BY <1>5, <1>8, <1>10, <2>2, <3>1 DEF PollTakes
  <2> QED BY <2>1, <2>2
<1>11. ASSUME MqInv, NEW r \in Receivers, PollFails(r) PROVE MqInv'
  <2>1. count[r] - 1 \in Nat
    BY <1>8, <1>11 DEF PollFails
  <2> QED BY <1>4, <1>8, <1>11, <2>1 DEF PollFails
<1>12. ASSUME MqInv, NEW r \in Receivers, PollEnds(r) \/ BlockFails(r) \/ ReceiveFails(r) PROVE MqInv'
  BY <1>0, <1>4, <1>8, <1>12 DEF PollEnds, BlockFails, ReceiveFails, Returns
<1>13. ASSUME MqInv, NEW r \in Receivers, BlockTakes(r) PROVE MqInv'
  <2>1. Message(mtype[r]).len \in Nat
    BY <1>8, <1>9, <1>13 DEF BlockTakes
  <2>2. Give(mtype[r]) \/ (Lose(mtype[r]) /\ Message(mtype[r]).len = 0)
    BY <1>13, <2>1 DEF BlockTakes
  <2> QED BY <1>5, <1>8, <1>13, <2>2 DEF BlockTakes, Returns
<1>14. OldMessage.type \in Types /\ OldMessage.no = Len(sent) + 1 /\ (MqInv => OldMessage \in Msg)
  <2>1. (CHOOSE t \in Types : TRUE) \in Types
    BY <1>0
  <2>2. OldMessage.type \in Types /\ OldMessage.no = Len(sent) + 1
    BY <2>1 DEF OldMessage
  <2>3. MqInv => Len(sent) + 1 \in Nat
    BY OneMore DEF MqInv, MqType
  <2>4. \A a \in Types, b \in Nat : [type |-> a, len |-> BufLen, no |-> b] \in Msg
    BY <1>0 DEF Msg
  <2> QED BY <2>1, <2>2, <2>3, <2>4 DEF OldMessage
<1>15. ASSUME MqInv, NEW r \in Receivers, msg_queue_receive(r) PROVE MqInv'
  BY <1>4, <1>8, <1>14, <1>15 DEF msg_queue_receive
<1>16. ASSUME MqInv, NEW r \in Receivers, ReceiveTakes(r) PROVE MqInv'
  BY <1>5, <1>8, <1>16 DEF ReceiveTakes, Returns
<1>17. ASSUME MqInv, msg_queue_send PROVE MqInv'
  <2>1. sending' = << >>
    BY <1>17 DEF msg_queue_send, MqInv, NextIsSent
  <2>2. MqType'
    BY <1>14, <1>17, OneMore DEF msg_queue_send, MqInv, MqType
  <2> QED BY <1>14, <1>17, <2>1, <2>2, SendKeeps DEF msg_queue_send
<1>18. ASSUME MqInv, UNCHANGED mqVars PROVE MqInv'
  BY <1>18, WaitKeeps DEF mqVars, MqInv, MqType, NextIsSent
<1>19. MqInv /\ [MqNext]_mqVars => MqInv'
  BY <1>1, <1>2, <1>3, <1>6, <1>7, <1>10, <1>11, <1>12, <1>13, <1>15, <1>16, <1>17, <1>18,
     CloseKeeps DEF MqNext
<1> QED BY MqInitInv, <1>19, PTL

\* Each message that is reported as sent is given out once and in the order of its type
\* (ipc/queue/msg_queue.c, bak/mmsg.c), for any types, lengths, receivers, limit of the
\* queue and number of retries and polls.
THEOREM MessagesSafe == MqSpec => []MessagesGivenOnce
<1>1. MqInv => MessagesGivenOnce
  BY DEF MqInv
<1> QED BY <1>1, MqAlways, PTL DEF MqSpec
=============================================================================
