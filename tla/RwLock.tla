------------------------------- MODULE RwLock -------------------------------
(***************************************************************************)
(* pthread/rwlock/rwlock.c: writers add to love under a read-write lock    *)
(* until it has passed a limit, readers print it, and main waits for the   *)
(* limit, then cancels and joins the threads one by one, writers first.    *)
(*                                                                         *)
(* love counts steps of 40, so the limit 520 is 13.  Cancellation is       *)
(* deferred: a thread acts on it in printf, which it calls with the lock   *)
(* held, or in sleep, and not in pthread_rwlock_wrlock or _rdlock.  The    *)
(* lock lets readers in while readers hold it.                             *)
(***************************************************************************)
EXTENDS Naturals, FiniteSets

CONSTANTS
  NWriters, NReaders,  \* 5 and 5
  Limit                \* 13

ASSUME RwAssumption == {NWriters, NReaders, Limit} \subseteq Nat

Writers == 1..NWriters
Threads == 1..(NWriters + NReaders)

VARIABLES
  love,
  tpc,       \* per thread: "test", "lock", "hold", "sleep" or "ended"
  holders,   \* the threads that have the lock; one that is cancelled keeps it
  cancelled, \* the threads pthread_cancel was called for
  joining    \* main: 0 while it waits for the limit, then the n-th thread it is at

rwVars == <<love, tpc, holders, cancelled, joining>>

RwInit ==
  /\ love = 0
  /\ tpc = [t \in Threads |-> "test"]
  /\ holders = {} /\ cancelled = {} /\ joining = 0

ThreadGoes(t, where) == tpc' = [tpc EXCEPT ![t] = where]

\* The test of the while loop reads love without the lock.
Test(t) ==
  /\ tpc[t] = "test"
  /\ ThreadGoes(t, IF love <= Limit THEN "lock" ELSE "ended")
  /\ UNCHANGED <<love, holders, cancelled, joining>>

Acquire(t) ==
  /\ tpc[t] = "lock"
  /\ IF t \in Writers THEN holders = {} ELSE holders \intersect Writers = {}
  /\ holders' = holders \union {t}
  /\ ThreadGoes(t, "hold")
  /\ UNCHANGED <<love, cancelled, joining>>

\* printf and unlock.
Release(t) ==
  /\ tpc[t] = "hold"
  /\ love' = IF t \in Writers THEN love + 1 ELSE love
  /\ holders' = holders \ {t}
  /\ ThreadGoes(t, "sleep")
  /\ UNCHANGED <<cancelled, joining>>

\* printf, whose argument has added to love, ends a cancelled thread before unlock.
CancelledHolding(t) ==
  /\ tpc[t] = "hold" /\ t \in cancelled
  /\ love' = IF t \in Writers THEN love + 1 ELSE love
  /\ ThreadGoes(t, "ended")
  /\ UNCHANGED <<holders, cancelled, joining>>

\* sleep returns, or ends a cancelled thread.
Wake(t) ==
  /\ tpc[t] = "sleep"
  /\ ThreadGoes(t, IF t \in cancelled THEN "ended" ELSE "test")
  /\ UNCHANGED <<love, holders, cancelled, joining>>

\* Mutant of Nth: the readers are cancelled first.
NthBackwards(n) == NWriters + NReaders + 1 - n

\* The thread at pthread[n - 1]: the writers were put there first.
Nth(n) == n

MainStarts ==
  /\ joining = 0 /\ love >= Limit
  /\ joining' = 1
  /\ UNCHANGED <<love, tpc, holders, cancelled>>

MainCancels ==
  /\ joining \in Threads /\ Nth(joining) \notin cancelled
  /\ cancelled' = cancelled \union {Nth(joining)}
  /\ UNCHANGED <<love, tpc, holders, joining>>

MainJoins ==
  /\ joining \in Threads /\ Nth(joining) \in cancelled
  /\ tpc[Nth(joining)] = "ended"
  /\ joining' = joining + 1
  /\ UNCHANGED <<love, tpc, holders, cancelled>>

ThreadSteps(t) == Test(t) \/ Acquire(t) \/ Release(t) \/ CancelledHolding(t) \/ Wake(t)

RwNext ==
  \/ \E t \in Threads : Test(t)
  \/ \E t \in Threads : Acquire(t)
  \/ \E t \in Threads : Release(t)
  \/ \E t \in Threads : CancelledHolding(t)
  \/ \E t \in Threads : Wake(t)
  \/ MainStarts
  \/ MainCancels
  \/ MainJoins

\* A thread sleeps for a second after each of its turns, which last microseconds, so
\* again and again no thread is between lock and unlock; one that has asked for the
\* lock gets it at one of these times.
RwFairness ==
  /\ \A t \in Threads : WF_rwVars(ThreadSteps(t)) /\ SF_rwVars(Acquire(t))
  /\ []<>(\A t \in Threads : tpc[t] # "hold")
  /\ WF_rwVars(MainStarts \/ MainCancels \/ MainJoins)

RwSpec == RwInit /\ [][RwNext]_rwVars /\ RwFairness

\* main joins every thread and ends (rwlock.c:58-62), unless printf ended a writer
\* that had the lock (rwlock.c:17): a reader that takes the lock with it harms nobody,
\* because the writers were joined before the first reader is cancelled.
MainEnds ==
  <>(\/ joining > NWriters + NReaders
     \/ \E w \in Writers : w \in holders /\ tpc[w] = "ended")

\* The test outside the lock (rwlock.c:14) lets every writer add once more after the
\* limit is passed, and no more than that.
LoveBounded == love <= Limit + NWriters
=============================================================================
