------------------------------ MODULE SemBuffer ------------------------------
(***************************************************************************)
(* pthread/sem/product_consumer: a producer and a consumer thread pass     *)
(* nitems numbers through a ring of NBUFF integers, kept apart by three    *)
(* named POSIX semaphores.                                                 *)
(*                                                                         *)
(* A named semaphore outlives the process.  sem_open with O_CREAT gives an *)
(* existing one back with the value it has, so a run that follows a crash  *)
(* starts with the values the crash left; the ring itself is process       *)
(* memory and starts at zero.                                              *)
(***************************************************************************)
EXTENDS Integers

CONSTANTS
  NBUFF, NItems,
  MaxCrashes,   \* how often the process is killed: bounds the model
  ABSENT        \* the value of a semaphore whose name does not exist

ASSUME SemBufferAssumption ==
  /\ NBUFF \in Nat \ {0}
  /\ NItems \in Nat
  /\ MaxCrashes \in Nat
  /\ ABSENT \notin Int

VARIABLES
  mutex, nempty, nstored,  \* the semaphores, by name
  buff,
  run,                     \* the main thread: "off", "running", or the call it is at
  ppc, pi, cpc, ci,        \* place and loop counter of produce and consume
  inherited,               \* this run found a semaphore that already existed
  bad,                     \* consume met an item that is not the one it counts
  crashes

sems == <<mutex, nempty, nstored>>
vars == <<sems, buff, run, ppc, pi, cpc, ci, inherited, bad, crashes>>

ProducePlaces == {"nempty", "mutex", "store", "post_mutex", "post_nstored", "end"}
ConsumePlaces == {"nstored", "mutex", "check", "post_mutex", "post_nempty", "end"}
RunPlaces == {"off", "open_nempty", "open_nstored", "running",
              "unlink_mutex", "unlink_nempty", "unlink_nstored"}

Off ==
  /\ run = "off"
  /\ buff = [k \in 0..(NBUFF - 1) |-> 0]
  /\ ppc = "end" /\ cpc = "end" /\ pi = 0 /\ ci = 0

Init ==
  /\ mutex = ABSENT /\ nempty = ABSENT /\ nstored = ABSENT
  /\ Off
  /\ inherited = FALSE /\ bad = FALSE /\ crashes = 0

\* sem_open with O_CREAT: the initial value counts only for a new name.
SemOpen(s, value) == IF s = ABSENT THEN value ELSE s

\* main opens the three names one after the other ...
OpenMutex ==
  /\ run = "off" /\ run' = "open_nempty"
  /\ mutex' = SemOpen(mutex, 1)
  /\ inherited' = (mutex # ABSENT) /\ bad' = FALSE
  /\ UNCHANGED <<nempty, nstored, buff, ppc, pi, cpc, ci, crashes>>

OpenNempty ==
  /\ run = "open_nempty" /\ run' = "open_nstored"
  /\ nempty' = SemOpen(nempty, NBUFF)
  /\ inherited' = (inherited \/ nempty # ABSENT)
  /\ UNCHANGED <<mutex, nstored, buff, ppc, pi, cpc, ci, bad, crashes>>

\* ... and starts the two threads.
OpenNstored ==
  /\ run = "open_nstored" /\ run' = "running"
  /\ nstored' = SemOpen(nstored, 0)
  /\ inherited' = (inherited \/ nstored # ABSENT)
  /\ buff' = [k \in 0..(NBUFF - 1) |-> 0]
  /\ pi' = 0 /\ ci' = 0
  /\ ppc' = IF NItems > 0 THEN "nempty" ELSE "end"
  /\ cpc' = IF NItems > 0 THEN "nstored" ELSE "end"
  /\ UNCHANGED <<mutex, nempty, bad, crashes>>

SemWait(s) == s > 0 /\ s' = s - 1
SemPost(s) == s' = s + 1

Produce(from, to) == run = "running" /\ ppc = from /\ ppc' = to
Consume(from, to) == run = "running" /\ cpc = from /\ cpc' = to
producerOnly == <<run, cpc, ci, inherited, bad, crashes>>
consumerOnly == <<run, ppc, pi, buff, inherited, crashes>>

\* Mutant of WaitEmpty: the producer does not wait for an empty slot.
WaitEmptyNot ==
  /\ Produce("nempty", "mutex")
  /\ UNCHANGED <<sems, buff, pi, producerOnly>>

WaitEmpty ==
  /\ Produce("nempty", "mutex")
  /\ SemWait(nempty)
  /\ UNCHANGED <<mutex, nstored, buff, pi, producerOnly>>

\* Mutant of ProduceLock: the producer stores without the mutex.
ProduceLockNot ==
  /\ Produce("mutex", "store")
  /\ UNCHANGED <<sems, buff, pi, producerOnly>>

ProduceLock ==
  /\ Produce("mutex", "store")
  /\ SemWait(mutex)
  /\ UNCHANGED <<nempty, nstored, buff, pi, producerOnly>>

Store ==
  /\ Produce("store", "post_mutex")
  /\ buff' = [buff EXCEPT ![pi % NBUFF] = pi]
  /\ UNCHANGED <<sems, pi, producerOnly>>

ProduceUnlock ==
  /\ Produce("post_mutex", "post_nstored")
  /\ SemPost(mutex)
  /\ UNCHANGED <<nempty, nstored, buff, pi, producerOnly>>

PostStored ==
  /\ Produce("post_nstored", IF pi + 1 < NItems THEN "nempty" ELSE "end")
  /\ SemPost(nstored)
  /\ pi' = pi + 1
  /\ UNCHANGED <<mutex, nempty, buff, producerOnly>>

WaitStored ==
  /\ Consume("nstored", "mutex")
  /\ SemWait(nstored)
  /\ UNCHANGED <<mutex, nempty, ci, bad, consumerOnly>>

ConsumeLock ==
  /\ Consume("mutex", "check")
  /\ SemWait(mutex)
  /\ UNCHANGED <<nempty, nstored, ci, bad, consumerOnly>>

\* if (shared.buff[i % NBUFF] != i) print what is there instead.
Check ==
  /\ Consume("check", "post_mutex")
  /\ bad' = (bad \/ buff[ci % NBUFF] # ci)
  /\ UNCHANGED <<sems, ci, consumerOnly>>

ConsumeUnlock ==
  /\ Consume("post_mutex", "post_nempty")
  /\ SemPost(mutex)
  /\ UNCHANGED <<nempty, nstored, ci, bad, consumerOnly>>

\* Mutant of PostEmpty: the slot is not given back.
PostEmptyNot ==
  /\ Consume("post_nempty", IF ci + 1 < NItems THEN "nstored" ELSE "end")
  /\ ci' = ci + 1
  /\ UNCHANGED <<sems, bad, consumerOnly>>

PostEmpty ==
  /\ Consume("post_nempty", IF ci + 1 < NItems THEN "nstored" ELSE "end")
  /\ SemPost(nempty)
  /\ ci' = ci + 1
  /\ UNCHANGED <<mutex, nstored, bad, consumerOnly>>

threads == <<buff, ppc, pi, cpc, ci, inherited, bad, crashes>>

\* Both threads joined: main removes the three names one after the other.
Joined ==
  /\ run = "running" /\ ppc = "end" /\ cpc = "end"
  /\ run' = "unlink_mutex"
  /\ UNCHANGED <<sems, threads>>

UnlinkMutex ==
  /\ run = "unlink_mutex" /\ run' = "unlink_nempty"
  /\ mutex' = ABSENT
  /\ UNCHANGED <<nempty, nstored, threads>>

UnlinkNempty ==
  /\ run = "unlink_nempty" /\ run' = "unlink_nstored"
  /\ nempty' = ABSENT
  /\ UNCHANGED <<mutex, nstored, threads>>

UnlinkNstored ==
  /\ run = "unlink_nstored" /\ run' = "off"
  /\ nstored' = ABSENT
  /\ UNCHANGED <<mutex, nempty, threads>>

\* The process is killed; the named semaphores keep their values.
Crash ==
  /\ run # "off" /\ crashes < MaxCrashes
  /\ crashes' = crashes + 1
  /\ run' = "off"
  /\ UNCHANGED <<sems, buff, ppc, pi, cpc, ci, inherited, bad>>

ProducerStep == WaitEmpty \/ ProduceLock \/ Store \/ ProduceUnlock \/ PostStored
ConsumerStep == WaitStored \/ ConsumeLock \/ Check \/ ConsumeUnlock \/ PostEmpty
Open == OpenMutex \/ OpenNempty \/ OpenNstored
MainStep == Joined \/ UnlinkMutex \/ UnlinkNempty \/ UnlinkNstored

Next == Open \/ ProducerStep \/ ConsumerStep \/ MainStep \/ Crash

Spec == Init /\ [][Next]_vars

\* Threads that can go on do so.  The mutex semaphore is handed out fairly enough
\* because each thread goes round its loop only after the other has let it.
FairSpec ==
  Spec /\ WF_vars(ProducerStep) /\ WF_vars(ConsumerStep) /\ WF_vars(MainStep)

------------------------------------------------------------------------------
(* Properties.                                                             *)

Value == Nat \union {ABSENT}

TypeOK ==
  /\ mutex \in Value /\ nempty \in Value /\ nstored \in Value
  /\ buff \in [0..(NBUFF - 1) -> 0..NItems]
  /\ run \in RunPlaces
  /\ ppc \in ProducePlaces /\ cpc \in ConsumePlaces
  /\ pi \in 0..NItems /\ ci \in 0..NItems
  /\ inherited \in BOOLEAN /\ bad \in BOOLEAN
  /\ crashes \in 0..MaxCrashes

Clean == run = "running" /\ ~inherited

\* The items the producer and the consumer have taken a slot for but not handed on.
Filling == IF ppc \in {"mutex", "store", "post_mutex", "post_nstored"} THEN 1 ELSE 0
Emptying == IF cpc \in {"mutex", "check", "post_mutex", "post_nempty"} THEN 1 ELSE 0
ProducerInside == ppc \in {"store", "post_mutex"}
ConsumerInside == cpc \in {"check", "post_mutex"}

\* In a run that created its semaphores (sem_pc.c:59-89): every slot is counted
\* once, as empty, as stored, or in a thread's hands, the semaphores agree with
\* the loop counters, and only one thread is between the waits and posts of mutex.
SlotsAccounted ==
  Clean =>
    /\ nempty + Filling + nstored + Emptying = NBUFF
    /\ nstored = pi - ci - Emptying
    /\ mutex = (IF ProducerInside \/ ConsumerInside THEN 0 ELSE 1)
    /\ ~(ProducerInside /\ ConsumerInside)

\* The check of sem_pc.c:81 never prints in such a run: the consumer meets exactly
\* the item it counts, although the producer is up to NBUFF items ahead.  After a
\* crash it may: the next run inherits counts for items that nobody stored.
ItemsInOrder == ~inherited => ~bad

\* Such a run ends, unless it is killed: no wait of the two threads blocks for ever.
CleanRunEnds == Clean ~> (run # "running")
==============================================================================
