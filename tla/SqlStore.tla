------------------------------ MODULE SqlStore ------------------------------
(***************************************************************************)
(* database/sqlite.c: processes that each add their rows one by one, every *)
(* row in an exclusive transaction of its own (modify_sql), in two loops   *)
(* that stop at the first failure, and then close the database.            *)
(*                                                                         *)
(* SQLite is external: one connection at a time holds the exclusive lock,  *)
(* a connection that finds it taken asks the busy handler, BEGIN fails     *)
(* inside a transaction, and a connection that goes away is rolled back.   *)
(***************************************************************************)
EXTENDS Naturals, FiniteSets

CONSTANTS
  Procs,
  NRows,     \* rows of one loop
  BusyTimes  \* SQLITE_BUSY_TIMEOUT

ASSUME SqlAssumption == {NRows, BusyTimes} \subseteq Nat

VARIABLES
  sqlpc,     \* per process: "begin", "exec" or "commit" in modify_sql, "select" or "gone"
  loop,      \* which of the two loops it is in
  row,       \* the row of that loop it is at
  repeat,    \* calls of the busy handler for this BEGIN
  tx,        \* it has a transaction open
  written,   \* rows written in the open transaction
  table,     \* the rows committed
  told       \* history: the rows for which modify_sql returned 0

sqlVars == <<sqlpc, loop, row, repeat, tx, written, table, told>>

SqlInit ==
  /\ sqlpc = [p \in Procs |-> "begin"]
  /\ loop = [p \in Procs |-> 1] /\ row = [p \in Procs |-> 1]
  /\ repeat = [p \in Procs |-> 0]
  /\ tx = [p \in Procs |-> FALSE]
  /\ written = [p \in Procs |-> {}]
  /\ table = {} /\ told = {}

\* "insert" adds a row of the process's own; "replace" keeps one row of each name,
\* whichever process writes it.
Row(p) == IF loop[p] = 1 THEN <<p, row[p]>> ELSE <<"water", row[p]>>
Locked(p) == \E q \in Procs \ {p} : tx[q]

\* The loop breaks at a failure, and the next one begins.
LoopEnds(p) ==
  /\ loop' = [loop EXCEPT ![p] = 2]
  /\ row' = [row EXCEPT ![p] = 1]
  /\ repeat' = [repeat EXCEPT ![p] = 0]
  /\ sqlpc' = [sqlpc EXCEPT ![p] = IF loop[p] = 1 THEN "begin" ELSE "select"]

Goto(p, where) == sqlpc' = [sqlpc EXCEPT ![p] = where]

\* Mutant of Begin: a transaction left open is taken for the new one.
BeginAgain(p) ==
  /\ sqlpc[p] = "begin" /\ ~Locked(p)
  /\ tx' = [tx EXCEPT ![p] = TRUE]
  /\ repeat' = [repeat EXCEPT ![p] = 0]
  /\ Goto(p, "exec")
  /\ UNCHANGED <<loop, row, written, table, told>>

Begin(p) ==
  /\ sqlpc[p] = "begin" /\ ~Locked(p) /\ ~tx[p]
  /\ tx' = [tx EXCEPT ![p] = TRUE]
  /\ repeat' = [repeat EXCEPT ![p] = 0]
  /\ Goto(p, "exec")
  /\ UNCHANGED <<loop, row, written, table, told>>

\* busy_handler waits and has BEGIN tried again.
Busy(p) ==
  /\ sqlpc[p] = "begin" /\ Locked(p) /\ repeat[p] < BusyTimes
  /\ repeat' = [repeat EXCEPT ![p] = @ + 1]
  /\ UNCHANGED <<sqlpc, loop, row, tx, written, table, told>>

\* The handler gives up, or the last failure has left a transaction open.
BeginFails(p) ==
  /\ sqlpc[p] = "begin"
  /\ tx[p] \/ (Locked(p) /\ repeat[p] = BusyTimes)
  /\ LoopEnds(p)
  /\ UNCHANGED <<tx, written, table, told>>

Exec(p) ==
  /\ sqlpc[p] = "exec"
  /\ written' = [written EXCEPT ![p] = @ \union {Row(p)}]
  /\ Goto(p, "commit")
  /\ UNCHANGED <<loop, row, repeat, tx, table, told>>

\* A failed statement or commit returns without ROLLBACK; after some errors SQLite
\* has rolled back by itself, after the others the transaction stays open.
ExecFails(p) ==
  /\ sqlpc[p] \in {"exec", "commit"}
  /\ \/ UNCHANGED <<tx, written>>
     \/ tx' = [tx EXCEPT ![p] = FALSE] /\ written' = [written EXCEPT ![p] = {}]
  /\ LoopEnds(p)
  /\ UNCHANGED <<table, told>>

Commit(p) ==
  /\ sqlpc[p] = "commit"
  /\ table' = table \union written[p]
  /\ written' = [written EXCEPT ![p] = {}]
  /\ tx' = [tx EXCEPT ![p] = FALSE]
  /\ told' = told \union {Row(p)}
  /\ IF row[p] < NRows
     THEN /\ row' = [row EXCEPT ![p] = @ + 1]
          /\ Goto(p, "begin") /\ UNCHANGED <<loop, repeat>>
     ELSE LoopEnds(p)

\* After the selects the database is closed; a process may also be killed anywhere.
Gone(p) ==
  /\ sqlpc[p] # "gone"
  /\ Goto(p, "gone")
  /\ tx' = [tx EXCEPT ![p] = FALSE]
  /\ written' = [written EXCEPT ![p] = {}]
  /\ UNCHANGED <<loop, row, repeat, table, told>>

SqlNext ==
  \E p \in Procs :
    \/ Begin(p)
    \/ Busy(p)
    \/ BeginFails(p)
    \/ Exec(p)
    \/ ExecFails(p)
    \/ Commit(p)
    \/ Gone(p)

SqlSpec == SqlInit /\ [][SqlNext]_sqlVars

\* The transaction a failure leaves open (sqlite.c:116, 123) never carries a row of
\* its own into a later commit: the table holds the rows modify_sql reported and no
\* others, whatever fails, in whatever order the processes meet the lock.
RowsAsTold == table = told
=============================================================================
