------------------------------- MODULE SQueue -------------------------------
(***************************************************************************)
(* queue/array: a ring buffer of malloc'd payloads guarded by one mutex,   *)
(* shared by threads that call squeue_enqueue, squeue_enqueue_ext,         *)
(* squeue_dequeue, squeue_is_full, squeue_is_empty and squeue_destroy.     *)
(*                                                                         *)
(* A payload is an element of Blocks; heap is the set of blocks malloc has *)
(* handed out and nobody has freed.  data[t] is the pdata pointer thread t *)
(* works with: the local copy inside a call, the caller's squeue_data_t    *)
(* between calls.  op and pc say which call a thread is in and where, and  *)
(* saw[t] keeps what its last squeue_is_full or squeue_is_empty said,      *)
(* which the loops of main.c act on after the mutex has been released.     *)
(* live stands for pqueue->qdata # NULL.                                   *)
(***************************************************************************)
EXTENDS Integers, FiniteSets, Sequences

CONSTANTS
  Threads,    \* every thread that has the queue's address
  Producers,  \* the threads that call squeue_enqueue and squeue_enqueue_ext
  Consumers,  \* the threads that call squeue_dequeue
  Owner,      \* the thread that calls squeue_destroy
  Blocks,     \* the payload blocks malloc can hand out
  Size,       \* pqueue->size
  NULL

ASSUME SQueueAssumption ==
  /\ Size \in Nat \ {0}
  /\ Producers \subseteq Threads
  /\ Consumers \subseteq Threads
  /\ Owner \in Threads
  /\ NULL \notin Threads
  /\ NULL \notin Blocks

VARIABLES
  head, tail, count,  \* the fields of squeue_t
  qdata,              \* the pdata of each slot
  live,               \* the slot array is allocated
  mutex,              \* the thread that holds pqueue->mutex, or NULL
  heap,               \* the allocated payload blocks
  op, pc, data, saw   \* per thread: the call, the place in it, pdata, the last answer

ring == <<head, tail, count, qdata, live>>
vars == <<head, tail, count, qdata, live, mutex, heap, op, pc, data, saw>>

Slots == 0..(Size - 1)

Ops == {"enqueue", "enqueue_ext", "dequeue", "is_full", "is_empty", "destroy"}
Enqueues == {"enqueue", "enqueue_ext"}
Places == {"idle", "lock", "body", "advance", "unlock", "segv"}
Answers == {"none", "room", "items"}

\* An index past the last slot starts again at the first.
Wrap(s) == s % Size

Init ==
  /\ head = 0 /\ tail = 0 /\ count = 0
  /\ qdata = [i \in Slots |-> NULL]
  /\ live = TRUE
  /\ mutex = NULL
  /\ heap = {}
  /\ op = [t \in Threads |-> "is_empty"]
  /\ pc = [t \in Threads |-> "idle"]
  /\ data = [t \in Threads |-> NULL]
  /\ saw = [t \in Threads |-> "none"]

------------------------------------------------------------------------------
(* The calls: what a thread does before it asks for the mutex.             *)

Call(t, o) ==
  /\ pc[t] = "idle"
  /\ op' = [op EXCEPT ![t] = o]
  /\ pc' = [pc EXCEPT ![t] = "lock"]
  /\ UNCHANGED <<ring, mutex, saw>>

\* A producer fills a fresh block.
Malloc(t) ==
  /\ t \in Producers
  /\ data[t] = NULL
  /\ \E b \in Blocks \ heap :
       /\ heap' = heap \union {b}
       /\ data' = [data EXCEPT ![t] = b]

\* The copy is malloc'd and filled before the mutex is taken and before the
\* queue is known to have room.  A malloc that fails (-10) changes nothing.
CallEnqueueExt(t) == Malloc(t) /\ Call(t, "enqueue_ext")

\* The caller prepares the payload it will give to squeue_enqueue.
CallerMalloc(t) ==
  /\ pc[t] = "idle"
  /\ Malloc(t)
  /\ UNCHANGED <<ring, mutex, op, pc, saw>>

CallEnqueue(t) ==
  /\ t \in Producers
  /\ data[t] # NULL
  /\ Call(t, "enqueue")
  /\ UNCHANGED <<heap, data>>

CallDequeue(t) ==
  /\ t \in Consumers
  /\ data[t] = NULL
  /\ Call(t, "dequeue")
  /\ UNCHANGED <<heap, data>>

CallQuery(t) ==
  /\ \E o \in {"is_full", "is_empty"} : Call(t, o)
  /\ UNCHANGED <<heap, data>>

CallDestroy(t) ==
  /\ t = Owner
  /\ Call(t, "destroy")
  /\ UNCHANGED <<heap, data>>

\* Mutant of DataDestroy: the freed pointer is not cleared.
DataDestroyKeeps(t) ==
  /\ pc[t] = "idle"
  /\ data[t] # NULL
  /\ heap' = heap \ {data[t]}
  /\ UNCHANGED <<data, ring, mutex, op, pc, saw>>

\* squeue_data_destroy on the pair the thread holds: frees a payload that is there.
DataDestroy(t) ==
  /\ pc[t] = "idle"
  /\ data[t] # NULL
  /\ heap' = heap \ {data[t]}
  /\ data' = [data EXCEPT ![t] = NULL]
  /\ UNCHANGED <<ring, mutex, op, pc, saw>>

------------------------------------------------------------------------------
(* The mutex.                                                              *)

\* Mutant of Lock: the call goes on whether or not the mutex is free.
LockNot(t) ==
  /\ pc[t] = "lock"
  /\ mutex' = t
  /\ pc' = [pc EXCEPT ![t] = "body"]
  /\ UNCHANGED <<ring, heap, op, data, saw>>

Lock(t) ==
  /\ pc[t] = "lock"
  /\ mutex = NULL
  /\ mutex' = t
  /\ pc' = [pc EXCEPT ![t] = "body"]
  /\ UNCHANGED <<ring, heap, op, data, saw>>

Unlock(t) ==
  /\ pc[t] = "unlock"
  /\ mutex' = NULL
  /\ pc' = [pc EXCEPT ![t] = "idle"]
  /\ UNCHANGED <<ring, heap, op, data, saw>>

------------------------------------------------------------------------------
(* The critical sections.                                                  *)

At(t, place, ops) == pc[t] = place /\ op[t] \in ops
Go(t, place) == pc' = [pc EXCEPT ![t] = place]
Forget(t) == saw' = [saw EXCEPT ![t] = "none"]

\* Mutant of EnqueueStore: the test for room is off by one.
EnqueueStoreLate(t) ==
  /\ At(t, "body", Enqueues)
  /\ count <= Size
  /\ live
  /\ qdata' = [qdata EXCEPT ![tail] = data[t]]
  /\ Go(t, "advance")
  /\ UNCHANGED <<head, tail, count, live, mutex, heap, op, data, saw>>

\* memcpy into the slot at tail.
EnqueueStore(t) ==
  /\ At(t, "body", Enqueues)
  /\ count < Size
  /\ live
  /\ qdata' = [qdata EXCEPT ![tail] = data[t]]
  /\ Go(t, "advance")
  /\ UNCHANGED <<head, tail, count, live, mutex, heap, op, data, saw>>

\* The same memcpy through qdata = NULL, after squeue_destroy: the process dies.
EnqueueFault(t) ==
  /\ At(t, "body", Enqueues)
  /\ count < Size
  /\ ~live
  /\ Go(t, "segv")
  /\ UNCHANGED <<ring, mutex, heap, op, data, saw>>

\* From here the queue owns the payload.
EnqueueAdvance(t) ==
  /\ At(t, "advance", Enqueues)
  /\ tail' = Wrap(tail + 1)
  /\ count' = count + 1
  /\ data' = [data EXCEPT ![t] = NULL]
  /\ Go(t, "unlock")
  /\ Forget(t)
  /\ UNCHANGED <<head, qdata, live, mutex, heap, op>>

\* Mutant of EnqueueReject: the early return keeps the mutex.
EnqueueRejectLocked(t) ==
  /\ At(t, "body", Enqueues)
  /\ count >= Size
  /\ data' = [data EXCEPT ![t] = IF op[t] = "enqueue_ext" THEN NULL ELSE @]
  /\ Go(t, "idle")
  /\ Forget(t)
  /\ UNCHANGED <<ring, mutex, heap, op>>

\* Full: squeue_enqueue leaves the payload with its caller, squeue_enqueue_ext
\* returns without freeing its copy, whose only pointer was the local variable.
EnqueueReject(t) ==
  /\ At(t, "body", Enqueues)
  /\ count >= Size
  /\ data' = [data EXCEPT ![t] = IF op[t] = "enqueue_ext" THEN NULL ELSE @]
  /\ Go(t, "unlock")
  /\ Forget(t)
  /\ UNCHANGED <<ring, mutex, heap, op>>

\* _squeue_dequeue: the pair is copied out of the slot at head ...
DequeueCopy(t) ==
  /\ At(t, "body", {"dequeue"})
  /\ count > 0
  /\ data' = [data EXCEPT ![t] = qdata[head]]
  /\ Go(t, "advance")
  /\ UNCHANGED <<ring, mutex, heap, op, saw>>

\* ... the slot cleared and head moved on.
PopHead ==
  /\ qdata' = [qdata EXCEPT ![head] = NULL]
  /\ head' = Wrap(head + 1)
  /\ count' = count - 1
  /\ UNCHANGED <<tail, live>>

DequeueAdvance(t) ==
  /\ At(t, "advance", {"dequeue"})
  /\ PopHead
  /\ Go(t, "unlock")
  /\ Forget(t)
  /\ UNCHANGED <<mutex, heap, op, data>>

DequeueEmpty(t) ==
  /\ At(t, "body", {"dequeue"})
  /\ count <= 0
  /\ Go(t, "unlock")
  /\ Forget(t)
  /\ UNCHANGED <<ring, mutex, heap, op, data>>

\* Mutant of IsFull: a full queue is one that holds more than its size.
IsFullLate(t) ==
  /\ At(t, "body", {"is_full"})
  /\ saw' = [saw EXCEPT ![t] = IF count > Size THEN "none" ELSE "room"]
  /\ Go(t, "unlock")
  /\ UNCHANGED <<ring, mutex, heap, op, data>>

IsFull(t) ==
  /\ At(t, "body", {"is_full"})
  /\ saw' = [saw EXCEPT ![t] = IF count = Size THEN "none" ELSE "room"]
  /\ Go(t, "unlock")
  /\ UNCHANGED <<ring, mutex, heap, op, data>>

IsEmpty(t) ==
  /\ At(t, "body", {"is_empty"})
  /\ saw' = [saw EXCEPT ![t] = IF count = 0 THEN "none" ELSE "items"]
  /\ Go(t, "unlock")
  /\ UNCHANGED <<ring, mutex, heap, op, data>>

\* Mutant of DestroyOne: the payload is taken out and not destroyed.
DestroyOneKeeps(t) ==
  /\ At(t, "body", {"destroy"})
  /\ count > 0
  /\ PopHead
  /\ Forget(t)
  /\ UNCHANGED <<mutex, heap, op, pc, data>>

\* One turn of the loop of squeue_destroy: dequeue, then destroy(&data).
DestroyOne(t) ==
  /\ At(t, "body", {"destroy"})
  /\ count > 0
  /\ heap' = heap \ {qdata[head]}
  /\ PopHead
  /\ Forget(t)
  /\ UNCHANGED <<mutex, op, pc, data>>

\* The slot array goes; the mutex and the size stay.
DestroyArray(t) ==
  /\ At(t, "body", {"destroy"})
  /\ count <= 0
  /\ live' = FALSE
  /\ Go(t, "unlock")
  /\ UNCHANGED <<head, tail, count, qdata, mutex, heap, op, data, saw>>

------------------------------------------------------------------------------
\* A fault in one thread ends them all.
Running == \A t \in Threads : pc[t] # "segv"

CallStep(t) ==
  \/ CallerMalloc(t)
  \/ CallEnqueueExt(t)
  \/ CallEnqueue(t)
  \/ CallDequeue(t)
  \/ CallQuery(t)
  \/ CallDestroy(t)
  \/ DataDestroy(t)

BodyStep(t) ==
  \/ EnqueueStore(t)
  \/ EnqueueFault(t)
  \/ EnqueueAdvance(t)
  \/ EnqueueReject(t)
  \/ DequeueCopy(t)
  \/ DequeueAdvance(t)
  \/ DequeueEmpty(t)
  \/ IsFull(t)
  \/ IsEmpty(t)
  \/ DestroyOne(t)
  \/ DestroyArray(t)

Next ==
  /\ Running
  /\ \E t \in Threads : CallStep(t) \/ Lock(t) \/ BodyStep(t) \/ Unlock(t)

Spec == Init /\ [][Next]_vars

\* A thread inside a critical section keeps running: no call in one blocks.
\* Nothing is assumed of who gets the mutex next, nor that a thread calls again.
HolderStep(t) == Running /\ (BodyStep(t) \/ Unlock(t))
FairSpec == Spec /\ \A t \in Threads : WF_vars(HolderStep(t))

------------------------------------------------------------------------------
(* Properties.                                                             *)

TypeOK ==
  /\ head \in Slots /\ tail \in Slots /\ count \in 0..Size
  /\ qdata \in [Slots -> Blocks \union {NULL}]
  /\ live \in BOOLEAN
  /\ mutex \in Threads \union {NULL}
  /\ heap \subseteq Blocks
  /\ op \in [Threads -> Ops]
  /\ pc \in [Threads -> Places]
  /\ data \in [Threads -> Blocks \union {NULL}]
  /\ saw \in [Threads -> Answers]

\* How many places slot s is behind head, and the slot that is i places behind it.
Offset(s) == IF s >= head THEN s - head ELSE s - head + Size
Nth(i) == IF head + i < Size THEN head + i ELSE head + i - Size

InSection(t) == pc[t] \in {"body", "advance", "unlock"}
Storing(t) == At(t, "advance", Enqueues)
Copying(t) == At(t, "advance", {"dequeue"})

\* The occupied slots: the count slots from head on.
Window == {s \in Slots : Offset(s) < count}

\* Mutual exclusion and the shape of the ring it protects (queue.c:81-95,
\* 117-133): only the holder of the mutex is in a critical section, tail is
\* count places after head, the occupied slots are those from head on and hold
\* payloads, every other slot is clear except the one being stored into, no slot
\* of a freed array is occupied, and a call that is about to move tail or head has
\* room or an item to move over.
RingConsistent ==
  /\ \A t \in Threads : InSection(t) => mutex = t
  /\ tail = (head + count) % Size
  /\ \A s \in Slots :
       (qdata[s] # NULL) <=> \/ s \in Window
                             \/ s = tail /\ \E t \in Threads : Storing(t)
  /\ ~live => count = 0
  /\ \A t \in Threads : /\ Storing(t) => live /\ count < Size
                        /\ Copying(t) => live /\ count > 0

\* Every payload has one owner (queue.c:45-55, 117-164): a block in an occupied
\* slot is allocated and in no other slot, a block a thread holds is allocated and held by no other
\* thread, and a thread holds a queued block only while it is copying it out of
\* the head slot.  So no payload is freed twice or used after it was freed.
SoleOwner ==
  /\ \A s \in Window : qdata[s] \in heap
  /\ \A r, s \in Window : qdata[r] = qdata[s] => r = s
  /\ \A t \in Threads : data[t] # NULL => data[t] \in heap
  /\ \A t, u \in Threads : data[t] # NULL /\ data[t] = data[u] => t = u
  /\ \A t \in Threads, s \in Window :
       data[t] = qdata[s] => Copying(t) /\ s = head

\* The check-then-act of main.c (41-44, 49-52) is safe exactly for a sole
\* producer and a sole consumer: what squeue_is_full or squeue_is_empty answered
\* a thread still holds when its next call looks, if nobody else can undo it.
CheckedCallsSucceed ==
  \A t \in Threads :
    /\ saw[t] = "room" /\ Producers \subseteq {t} => count < Size
    /\ saw[t] = "items" /\ Consumers \union {Owner} \subseteq {t} => count > 0

\* The allocated blocks nobody can reach any more.
Reachable(b) == (\E s \in Slots : qdata[s] = b) \/ (\E t \in Threads : data[t] = b)
Lost == {b \in heap : ~Reachable(b)}

\* A block is lost in one way only (queue.c:90-95): squeue_enqueue_ext finds the
\* queue full and drops its copy.  No other step of any thread leaks.
LeakOnlyOnReject ==
  [][Lost' # Lost => \E t \in Threads :
       /\ At(t, "body", {"enqueue_ext"}) /\ count = Size
       /\ Lost' = Lost \union {data[t]}]_vars

\* The queue as a sequence, oldest first, and the block each thread can use: a
\* pair still being copied out belongs to the queue.
Items == [i \in 1..count |-> qdata[Nth(i - 1)]]
Hand == [t \in Threads |-> IF Copying(t) THEN NULL ELSE data[t]]

Fifo == INSTANCE BoundedFifo WITH
          Capacity <- Size, items <- Items, hand <- Hand

\* The ring buffer is a bounded FIFO for the threads that share it (queue.c:68-142).
ImplementsFifo == Fifo!FifoSpec

\* Every path of every call gives the mutex back (queue.c:87,93,106,112,140,163,172,183),
\* unless the process died in it.
MutexReleased ==
  \A t \in Threads : mutex = t ~> (mutex # t \/ ~Running)
==============================================================================
