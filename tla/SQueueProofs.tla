---------------------------- MODULE SQueueProofs ----------------------------
(***************************************************************************)
(* Proofs about SQueue, for every number of threads, blocks and slots.     *)
(*                                                                         *)
(* The inductive invariant is built in layers, each inductive relative to  *)
(* the ones before it:                                                     *)
(*   TypeOK      the ranges of the variables;                              *)
(*   SectionInv  who is in a critical section, in which call, with what in *)
(*               its hands;                                                *)
(*   RingInv     the shape of the ring, with the moments inside a critical *)
(*               section when a payload is in a slot and in a hand at once;*)
(*   SoleOwner   and CheckedCallsSucceed, the properties themselves.       *)
(***************************************************************************)
EXTENDS SQueue, SequenceTheorems, TLAPS

SectionInv ==
  \A t \in Threads :
    /\ InSection(t) => mutex = t
    /\ pc[t] # "idle" =>
         /\ op[t] \in Enqueues => t \in Producers
         /\ op[t] = "dequeue" => t \in Consumers
         /\ op[t] = "destroy" => t = Owner
    /\ pc[t] \in {"lock", "body", "advance"} /\ op[t] \in Enqueues => data[t] # NULL
    /\ pc[t] \in {"lock", "body"} /\ op[t] = "dequeue" => data[t] = NULL
    /\ pc[t] = "advance" => op[t] \in Enqueues \union {"dequeue"}

\* The slot at tail holds a payload only while the call of t stores one there.
TailBusy == \E t \in Threads : Storing(t)

RingInv ==
  /\ tail = Nth(count)
  /\ \A s \in Slots : (qdata[s] # NULL) <=> (Offset(s) < count \/ (s = tail /\ TailBusy))
  /\ ~live => count = 0
  /\ \A t \in Threads :
       /\ Storing(t) => live /\ count < Size /\ qdata[tail] = data[t]
       /\ Copying(t) => live /\ count > 0 /\ qdata[head] = data[t]

------------------------------------------------------------------------------
(* Arithmetic on the ring.                                                 *)

\* A sum of two slot numbers is reduced by at most one turn.
LEMMA WrapOnce ==
  ASSUME NEW x \in 0..(2 * Size - 1)
  PROVE  x % Size = IF x < Size THEN x ELSE x - Size
BY SQueueAssumption, SMT

\* The next slot of a slot, without the division.
LEMMA WrapNext ==
  ASSUME NEW s \in Slots
  PROVE  /\ Wrap(s + 1) = IF s + 1 < Size THEN s + 1 ELSE 0
         /\ Wrap(s + 1) \in Slots
<1>1. PICK x \in 0..(2 * Size - 1) : x = s + 1
  BY SQueueAssumption DEF Slots
<1>2. x % Size = IF x < Size THEN x ELSE x - Size
  BY WrapOnce
<1>3. QED
  BY <1>1, <1>2, SQueueAssumption DEF Slots, Wrap

------------------------------------------------------------------------------
(* Type correctness.                                                       *)

LEMMA TypeInit == Init => TypeOK
BY SQueueAssumption DEF Init, TypeOK, Slots, Ops, Places, Answers

LEMMA TypeStep == TypeOK /\ RingInv /\ [Next]_vars => TypeOK'
<1> SUFFICES ASSUME TypeOK, RingInv, [Next]_vars PROVE TypeOK'
  OBVIOUS
<1> USE DEF TypeOK, Ops, Places, Answers, Enqueues, At, Go, Forget, ring
<1>1. ASSUME NEW t \in Threads, CallStep(t) PROVE TypeOK'
  BY <1>1 DEF CallStep, CallerMalloc, Malloc, CallEnqueueExt, CallEnqueue, CallDequeue, CallQuery,
              CallDestroy, DataDestroy, Call
<1>2. ASSUME NEW t \in Threads, Lock(t) PROVE TypeOK'
  BY <1>2 DEF Lock
<1>3. ASSUME NEW t \in Threads, Unlock(t) PROVE TypeOK'
  BY <1>3 DEF Unlock
<1>4. ASSUME NEW t \in Threads, EnqueueStore(t) PROVE TypeOK'
  BY <1>4 DEF EnqueueStore
<1>5. ASSUME NEW t \in Threads, EnqueueFault(t) PROVE TypeOK'
  BY <1>5 DEF EnqueueFault
<1>6. ASSUME NEW t \in Threads, EnqueueAdvance(t) PROVE TypeOK'
  <2>1. tail' \in Slots
    BY <1>6, WrapNext DEF EnqueueAdvance
  <2>2. count' \in 0..Size
    BY <1>6, SQueueAssumption DEF EnqueueAdvance, RingInv, Storing
  <2>3. QED
    BY <1>6, <2>1, <2>2 DEF EnqueueAdvance
<1>7. ASSUME NEW t \in Threads, EnqueueReject(t) PROVE TypeOK'
  BY <1>7 DEF EnqueueReject
<1>8. ASSUME NEW t \in Threads, DequeueCopy(t) PROVE TypeOK'
  BY <1>8 DEF DequeueCopy
<1>9. ASSUME NEW t \in Threads, DequeueAdvance(t) PROVE TypeOK'
  <2>1. head' \in Slots
    BY <1>9, WrapNext DEF DequeueAdvance, PopHead
  <2>2. count' \in 0..Size
    BY <1>9, SQueueAssumption DEF DequeueAdvance, PopHead, RingInv, Copying
  <2>3. QED
    BY <1>9, <2>1, <2>2 DEF DequeueAdvance, PopHead
<1>10. ASSUME NEW t \in Threads, DequeueEmpty(t) PROVE TypeOK'
  BY <1>10 DEF DequeueEmpty
<1>11. ASSUME NEW t \in Threads, IsFull(t) PROVE TypeOK'
  BY <1>11 DEF IsFull
<1>12. ASSUME NEW t \in Threads, IsEmpty(t) PROVE TypeOK'
  BY <1>12 DEF IsEmpty
<1>13. ASSUME NEW t \in Threads, DestroyOne(t) PROVE TypeOK'
  <2>1. head' \in Slots
    BY <1>13, WrapNext DEF DestroyOne, PopHead
  <2>2. count' \in 0..Size
    BY <1>13, SQueueAssumption DEF DestroyOne, PopHead
  <2>3. QED
    BY <1>13, <2>1, <2>2 DEF DestroyOne, PopHead
<1>14. ASSUME NEW t \in Threads, DestroyArray(t) PROVE TypeOK'
  BY <1>14 DEF DestroyArray
<1>15. CASE UNCHANGED vars
  BY <1>15 DEF vars
<1>16. QED
  BY <1>1, <1>2, <1>3, <1>4, <1>5, <1>6, <1>7, <1>8, <1>9, <1>10, <1>11, <1>12, <1>13, <1>14, <1>15 DEF Next, BodyStep

------------------------------------------------------------------------------
(* Critical sections.                                                      *)

LEMMA SectionInit == Init => SectionInv
BY SQueueAssumption DEF Init, SectionInv, InSection, Enqueues

LEMMA SectionStep == TypeOK /\ SectionInv /\ [Next]_vars => SectionInv'
<1> SUFFICES ASSUME TypeOK, SectionInv, [Next]_vars PROVE SectionInv'
  OBVIOUS
<1> USE SQueueAssumption DEF TypeOK, SectionInv, InSection, Enqueues, At, Go, Forget, ring
<1>1. ASSUME NEW t \in Threads, CallStep(t) PROVE SectionInv'
  BY <1>1 DEF CallStep, CallerMalloc, Malloc, CallEnqueueExt, CallEnqueue, CallDequeue, CallQuery,
              CallDestroy, DataDestroy, Call
<1>2. ASSUME NEW t \in Threads, Lock(t) PROVE SectionInv'
  BY <1>2 DEF Lock
<1>3. ASSUME NEW t \in Threads, Unlock(t) PROVE SectionInv'
  BY <1>3 DEF Unlock
<1>4. ASSUME NEW t \in Threads, EnqueueStore(t) PROVE SectionInv'
  BY <1>4 DEF EnqueueStore
<1>5. ASSUME NEW t \in Threads, EnqueueFault(t) PROVE SectionInv'
  BY <1>5 DEF EnqueueFault
<1>6. ASSUME NEW t \in Threads, EnqueueAdvance(t) PROVE SectionInv'
  BY <1>6 DEF EnqueueAdvance
<1>7. ASSUME NEW t \in Threads, EnqueueReject(t) PROVE SectionInv'
  BY <1>7 DEF EnqueueReject
<1>8. ASSUME NEW t \in Threads, DequeueCopy(t) PROVE SectionInv'
  BY <1>8 DEF DequeueCopy
<1>9. ASSUME NEW t \in Threads, DequeueAdvance(t) PROVE SectionInv'
  BY <1>9 DEF DequeueAdvance, PopHead
<1>10. ASSUME NEW t \in Threads, DequeueEmpty(t) PROVE SectionInv'
  BY <1>10 DEF DequeueEmpty
<1>11. ASSUME NEW t \in Threads, IsFull(t) PROVE SectionInv'
  BY <1>11 DEF IsFull
<1>12. ASSUME NEW t \in Threads, IsEmpty(t) PROVE SectionInv'
  BY <1>12 DEF IsEmpty
<1>13. ASSUME NEW t \in Threads, DestroyOne(t) PROVE SectionInv'
  BY <1>13 DEF DestroyOne, PopHead
<1>14. ASSUME NEW t \in Threads, DestroyArray(t) PROVE SectionInv'
  BY <1>14 DEF DestroyArray
<1>15. CASE UNCHANGED vars
  BY <1>15 DEF vars
<1>16. QED
  BY <1>1, <1>2, <1>3, <1>4, <1>5, <1>6, <1>7, <1>8, <1>9, <1>10, <1>11, <1>12, <1>13, <1>14, <1>15 DEF Next, BodyStep

------------------------------------------------------------------------------
(* The ring.                                                               *)

LEMMA RingInit == Init => RingInv
BY SQueueAssumption DEF Init, RingInv, Slots, Nth, Offset, TailBusy, Storing, Copying, At

\* The window that is left when the slot at head goes.
LEMMA WindowPops ==
  ASSUME TypeOK, RingInv, PopHead, count > 0
  PROVE  tail' = Nth(count)' /\ \A s \in Slots : (Offset(s) < count)' <=> Offset(s) < count /\ s # head
<1>1. head' = (IF head + 1 < Size THEN head + 1 ELSE 0) /\ head \in 0..(Size - 1) /\ tail' = tail
  BY WrapNext DEF TypeOK, PopHead, Slots
<1>2. count \in 1..Size /\ count' = count - 1 /\ Size \in Nat \ {0}
  BY SQueueAssumption DEF TypeOK, PopHead
<1>3. tail' = Nth(count)'
  BY <1>1, <1>2 DEF RingInv, Nth
<1>4. ASSUME NEW s \in Slots PROVE (Offset(s) < count)' <=> Offset(s) < count /\ s # head
  BY <1>1, <1>2, <1>4 DEF Offset, Slots
<1> QED BY <1>3, <1>4

LEMMA RingStep == TypeOK /\ SectionInv /\ RingInv /\ [Next]_vars => RingInv'
<1> SUFFICES ASSUME TypeOK, SectionInv, RingInv, [Next]_vars PROVE RingInv'
  OBVIOUS
<1> USE SQueueAssumption DEF TypeOK, SectionInv, RingInv, InSection, Enqueues, At, Go, Forget, ring,
         Slots, Nth, Offset, TailBusy, Storing, Copying
<1>1. ASSUME NEW t \in Threads, CallStep(t) PROVE RingInv'
  <2>1. UNCHANGED ring
    BY <1>1 DEF CallStep, CallerMalloc, Malloc, CallEnqueueExt, CallEnqueue, CallDequeue, CallQuery,
                CallDestroy, DataDestroy, Call
  <2>2. \A u \in Threads : /\ Storing(u)' <=> Storing(u)
                           /\ Copying(u)' <=> Copying(u)
                           /\ Storing(u) \/ Copying(u) => data'[u] = data[u]
    BY <1>1 DEF CallStep, CallerMalloc, Malloc, CallEnqueueExt, CallEnqueue, CallDequeue, CallQuery,
                CallDestroy, DataDestroy, Call
  <2>3. QED
    BY <2>1, <2>2
<1>2. ASSUME NEW t \in Threads, Lock(t) PROVE RingInv'
  BY <1>2 DEF Lock
<1>3. ASSUME NEW t \in Threads, Unlock(t) PROVE RingInv'
  BY <1>3 DEF Unlock
<1>4. ASSUME NEW t \in Threads, EnqueueStore(t) PROVE RingInv'
  BY <1>4 DEF EnqueueStore
<1>5. ASSUME NEW t \in Threads, EnqueueFault(t) PROVE RingInv'
  BY <1>5 DEF EnqueueFault
<1>6. ASSUME NEW t \in Threads, EnqueueAdvance(t) PROVE RingInv'
  <2>1. tail' = IF tail + 1 < Size THEN tail + 1 ELSE 0
    BY <1>6, WrapNext DEF EnqueueAdvance
  <2>2. count < Size /\ live /\ qdata[tail] # NULL
    BY <1>6 DEF EnqueueAdvance
  <2>3. ~TailBusy' /\ \A u \in Threads : ~Copying(u)'
    BY <1>6 DEF EnqueueAdvance
  <2>4. tail' = Nth(count)'
    BY <1>6, <2>1, <2>2 DEF EnqueueAdvance
  <2>5. ASSUME NEW s \in Slots PROVE (Offset(s) < count)' <=> Offset(s) < count \/ s = tail
    BY <1>6, <2>2 DEF EnqueueAdvance
  <2>6. QED
    BY <1>6, <2>2, <2>3, <2>4, <2>5 DEF EnqueueAdvance
<1>7. ASSUME NEW t \in Threads, EnqueueReject(t) PROVE RingInv'
  BY <1>7 DEF EnqueueReject
<1>8. ASSUME NEW t \in Threads, DequeueCopy(t) PROVE RingInv'
  BY <1>8 DEF DequeueCopy
<1>9. ASSUME NEW t \in Threads, DequeueAdvance(t) PROVE RingInv'
  <2>1. count > 0 /\ Copying(t) /\ live
    BY <1>9 DEF DequeueAdvance
  <2>2. tail' = Nth(count)' /\ \A s \in Slots : (Offset(s) < count)' <=> Offset(s) < count /\ s # head
    BY <1>9, <2>1, WindowPops DEF DequeueAdvance
  <2>3. ~TailBusy /\ ~TailBusy' /\ \A u \in Threads : ~Copying(u)' /\ ~Storing(u)'
    BY <1>9 DEF DequeueAdvance, PopHead
  <2>4. qdata' = [qdata EXCEPT ![head] = NULL] /\ live' = live
    BY <1>9 DEF DequeueAdvance, PopHead
  <2> QED BY <2>1, <2>2, <2>3, <2>4
<1>10. ASSUME NEW t \in Threads, DequeueEmpty(t) PROVE RingInv'
  BY <1>10 DEF DequeueEmpty
<1>11. ASSUME NEW t \in Threads, IsFull(t) PROVE RingInv'
  BY <1>11 DEF IsFull
<1>12. ASSUME NEW t \in Threads, IsEmpty(t) PROVE RingInv'
  BY <1>12 DEF IsEmpty
<1>13. ASSUME NEW t \in Threads, DestroyOne(t) PROVE RingInv'
  <2>1. count > 0 /\ live
    BY <1>13 DEF DestroyOne
  <2>2. tail' = Nth(count)' /\ \A s \in Slots : (Offset(s) < count)' <=> Offset(s) < count /\ s # head
    BY <1>13, <2>1, WindowPops DEF DestroyOne
  <2>3. ~TailBusy /\ ~TailBusy' /\ \A u \in Threads : ~Copying(u)' /\ ~Storing(u)'
    BY <1>13 DEF DestroyOne, PopHead
  <2>4. qdata' = [qdata EXCEPT ![head] = NULL] /\ live' = live
    BY <1>13 DEF DestroyOne, PopHead
  <2> QED BY <2>1, <2>2, <2>3, <2>4
<1>14. ASSUME NEW t \in Threads, DestroyArray(t) PROVE RingInv'
  BY <1>14 DEF DestroyArray
<1>15. CASE UNCHANGED vars
  BY <1>15 DEF vars
<1>16. QED
  BY <1>1, <1>2, <1>3, <1>4, <1>5, <1>6, <1>7, <1>8, <1>9, <1>10, <1>11, <1>12, <1>13, <1>14, <1>15 DEF Next, BodyStep

------------------------------------------------------------------------------
(* Ownership of the payloads.                                              *)

LEMMA OwnerInit == Init => SoleOwner
BY SQueueAssumption DEF Init, SoleOwner, Window, Slots, Offset, Copying, At

\* When an enqueue advances, the payload of the caller becomes the last of the queue
\* (queue.c:85).
LEMMA AdvanceGives ==
  ASSUME TypeOK, SectionInv, RingInv, SoleOwner, NEW t \in Threads, EnqueueAdvance(t)
  PROVE  SoleOwner'
<1>1. heap' = heap /\ qdata' = qdata /\ head' = head /\ data' = [data EXCEPT ![t] = NULL] /\ Storing(t)
  BY DEF EnqueueAdvance, Storing
<1>2. qdata[tail] = data[t] /\ data[t] # NULL /\ count < Size /\ mutex = t
  BY <1>1 DEF RingInv, SectionInv, Storing, At, InSection
<1>3. \A u \in Threads : ~Copying(u)
  BY <1>1, <1>2 DEF SectionInv, Storing, Copying, At, InSection, Enqueues
<1>4. \A s \in Window' : s \in Window \/ s = tail
  BY <1>1, <1>2, SQueueAssumption DEF Window, Offset, Nth, Slots, RingInv, TypeOK, EnqueueAdvance
<1>5. \A u \in Threads : data'[u] = NULL \/ (u # t /\ data'[u] = data[u])
  BY <1>1 DEF TypeOK
<1>6. \A s \in Window : s \in Slots /\ qdata[s] # NULL
  BY DEF Window, RingInv
<1>7. \A s \in Window' : qdata'[s] \in heap' /\ qdata'[s] # NULL
  BY <1>1, <1>2, <1>4, <1>6 DEF SoleOwner
<1>8. \A r, s \in Window' : qdata'[r] = qdata'[s] => r = s
  BY <1>1, <1>2, <1>3, <1>4 DEF SoleOwner
<1>9. \A u \in Threads, s \in Window' : data'[u] # qdata'[s]
  BY <1>1, <1>2, <1>3, <1>4, <1>5, <1>7 DEF SoleOwner
<1>10. /\ \A u \in Threads : data'[u] # NULL => data'[u] \in heap'
       /\ \A u, v \in Threads : data'[u] # NULL /\ data'[u] = data'[v] => u = v
  BY <1>1, <1>5 DEF SoleOwner
<1> QED BY <1>7, <1>8, <1>9, <1>10 DEF SoleOwner

\* When a dequeue advances, the slot that its caller copied leaves the queue
\* (queue.c:122-125).
LEMMA AdvanceTakes ==
  ASSUME TypeOK, SectionInv, RingInv, SoleOwner, NEW t \in Threads, DequeueAdvance(t)
  PROVE  SoleOwner'
<1>1. heap' = heap /\ qdata' = [qdata EXCEPT ![head] = NULL] /\ data' = data /\ Copying(t)
  BY DEF DequeueAdvance, PopHead, Copying
<1>2. count > 0
  BY <1>1 DEF RingInv
<1>3. \A s \in Window' : s \in Window /\ s # head
  BY <1>2, WindowPops DEF Window, DequeueAdvance
<1>4. \A s \in Window' : qdata'[s] = qdata[s]
  BY <1>1, <1>3 DEF Window, TypeOK
<1>5. /\ \A s \in Window' : qdata'[s] \in heap'
      /\ \A r, s \in Window' : qdata'[r] = qdata'[s] => r = s
  BY <1>1, <1>3, <1>4 DEF SoleOwner
<1>6. \A u \in Threads, s \in Window' : data'[u] # qdata'[s]
  BY <1>1, <1>3, <1>4 DEF SoleOwner
<1>7. /\ \A u \in Threads : data'[u] # NULL => data'[u] \in heap'
      /\ \A u, v \in Threads : data'[u] # NULL /\ data'[u] = data'[v] => u = v
  BY <1>1 DEF SoleOwner
<1> QED BY <1>5, <1>6, <1>7 DEF SoleOwner

\* When squeue_destroy has freed the payload at the head, nothing in the queue or in a
\* thread's hands is the one that was freed (queue.c:150-154).
LEMMA DestroyTakes ==
  ASSUME TypeOK, SectionInv, RingInv, SoleOwner, NEW t \in Threads, DestroyOne(t)
  PROVE  SoleOwner'
<1>1. /\ heap' = heap \ {qdata[head]} /\ qdata' = [qdata EXCEPT ![head] = NULL] /\ data' = data
      /\ count > 0 /\ pc[t] = "body" /\ op[t] = "destroy"
  BY DEF DestroyOne, PopHead, At
<1>2. mutex = t
  BY <1>1 DEF SectionInv, InSection
<1>3. \A u \in Threads : ~Copying(u)
  BY <1>1, <1>2 DEF SectionInv, Copying, At, InSection
<1>4. \A s \in Window' : s \in Window /\ s # head
  BY <1>1, WindowPops DEF Window, DestroyOne
<1>5. head \in Window
  BY <1>1, SQueueAssumption DEF Window, Offset, TypeOK, Slots
<1>6. \A s \in Window' : qdata'[s] = qdata[s]
  BY <1>1, <1>4 DEF Window, TypeOK
<1>7. \A s \in Window' : qdata'[s] \in heap'
  BY <1>1, <1>4, <1>5, <1>6 DEF SoleOwner
<1>8. \A r, s \in Window' : qdata'[r] = qdata'[s] => r = s
  BY <1>4, <1>6 DEF SoleOwner
<1>9. \A u \in Threads, s \in Window : data[u] # qdata[s]
  BY <1>3 DEF SoleOwner
<1>10. \A u \in Threads, s \in Window' : data'[u] # qdata'[s]
  BY <1>1, <1>4, <1>6, <1>9
<1>11. /\ \A u \in Threads : data'[u] # NULL => data'[u] \in heap'
       /\ \A u, v \in Threads : data'[u] # NULL /\ data'[u] = data'[v] => u = v
  BY <1>1, <1>5, <1>9 DEF SoleOwner
<1> QED BY <1>7, <1>8, <1>10, <1>11 DEF SoleOwner

LEMMA OwnerStep == TypeOK /\ SectionInv /\ RingInv /\ SoleOwner /\ [Next]_vars => SoleOwner'
<1> SUFFICES ASSUME TypeOK, SectionInv, RingInv, SoleOwner, [Next]_vars PROVE SoleOwner'
  OBVIOUS
<1> USE SQueueAssumption DEF TypeOK, SectionInv, RingInv, SoleOwner, InSection, Enqueues, At, Go,
         Forget, ring, Slots, Nth, Offset, Window, TailBusy, Storing, Copying
<1>1. ASSUME NEW t \in Threads, CallStep(t) PROVE SoleOwner'
  BY <1>1 DEF CallStep, CallerMalloc, Malloc, CallEnqueueExt, CallEnqueue, CallDequeue, CallQuery,
              CallDestroy, DataDestroy, Call
<1>2. ASSUME NEW t \in Threads, Lock(t) PROVE SoleOwner'
  BY <1>2 DEF Lock
<1>3. ASSUME NEW t \in Threads, Unlock(t) PROVE SoleOwner'
  BY <1>3 DEF Unlock
<1>4. ASSUME NEW t \in Threads, EnqueueStore(t) PROVE SoleOwner'
  BY <1>4 DEF EnqueueStore
<1>5. ASSUME NEW t \in Threads, EnqueueFault(t) PROVE SoleOwner'
  BY <1>5 DEF EnqueueFault
<1>6. ASSUME NEW t \in Threads, EnqueueAdvance(t) PROVE SoleOwner'
  BY <1>6, AdvanceGives
<1>7. ASSUME NEW t \in Threads, EnqueueReject(t) PROVE SoleOwner'
  BY <1>7 DEF EnqueueReject
<1>8. ASSUME NEW t \in Threads, DequeueCopy(t) PROVE SoleOwner'
  BY <1>8 DEF DequeueCopy
<1>9. ASSUME NEW t \in Threads, DequeueAdvance(t) PROVE SoleOwner'
  BY <1>9, AdvanceTakes
<1>10. ASSUME NEW t \in Threads, DequeueEmpty(t) PROVE SoleOwner'
  BY <1>10 DEF DequeueEmpty
<1>11. ASSUME NEW t \in Threads, IsFull(t) PROVE SoleOwner'
  BY <1>11 DEF IsFull
<1>12. ASSUME NEW t \in Threads, IsEmpty(t) PROVE SoleOwner'
  BY <1>12 DEF IsEmpty
<1>13. ASSUME NEW t \in Threads, DestroyOne(t) PROVE SoleOwner'
  BY <1>13, DestroyTakes
<1>14. ASSUME NEW t \in Threads, DestroyArray(t) PROVE SoleOwner'
  BY <1>14 DEF DestroyArray
<1>15. CASE UNCHANGED vars
  BY <1>15 DEF vars
<1>16. QED
  BY <1>1, <1>2, <1>3, <1>4, <1>5, <1>6, <1>7, <1>8, <1>9, <1>10, <1>11, <1>12, <1>13, <1>14, <1>15 DEF Next, BodyStep

\* What a query answered still holds for a thread nobody can contradict.
LEMMA CheckedInit == Init => CheckedCallsSucceed
BY DEF Init, CheckedCallsSucceed

LEMMA CheckedStep == TypeOK /\ SectionInv /\ RingInv /\ CheckedCallsSucceed /\ [Next]_vars => CheckedCallsSucceed'
<1> SUFFICES ASSUME TypeOK, SectionInv, RingInv, CheckedCallsSucceed, [Next]_vars PROVE CheckedCallsSucceed'
  OBVIOUS
<1> USE SQueueAssumption DEF TypeOK, SectionInv, RingInv, CheckedCallsSucceed, InSection, Enqueues, At, Go,
         Forget, ring, Storing, Copying
<1>1. ASSUME NEW t \in Threads, CallStep(t) PROVE CheckedCallsSucceed'
  BY <1>1 DEF CallStep, CallerMalloc, Malloc, CallEnqueueExt, CallEnqueue, CallDequeue, CallQuery,
              CallDestroy, DataDestroy, Call
<1>2. ASSUME NEW t \in Threads, Lock(t) PROVE CheckedCallsSucceed'
  BY <1>2 DEF Lock
<1>3. ASSUME NEW t \in Threads, Unlock(t) PROVE CheckedCallsSucceed'
  BY <1>3 DEF Unlock
<1>4. ASSUME NEW t \in Threads, EnqueueStore(t) PROVE CheckedCallsSucceed'
  BY <1>4 DEF EnqueueStore
<1>5. ASSUME NEW t \in Threads, EnqueueFault(t) PROVE CheckedCallsSucceed'
  BY <1>5 DEF EnqueueFault
<1>6. ASSUME NEW t \in Threads, EnqueueAdvance(t) PROVE CheckedCallsSucceed'
  BY <1>6 DEF EnqueueAdvance
<1>7. ASSUME NEW t \in Threads, EnqueueReject(t) PROVE CheckedCallsSucceed'
  BY <1>7 DEF EnqueueReject
<1>8. ASSUME NEW t \in Threads, DequeueCopy(t) PROVE CheckedCallsSucceed'
  BY <1>8 DEF DequeueCopy
<1>9. ASSUME NEW t \in Threads, DequeueAdvance(t) PROVE CheckedCallsSucceed'
  BY <1>9 DEF DequeueAdvance, PopHead
<1>10. ASSUME NEW t \in Threads, DequeueEmpty(t) PROVE CheckedCallsSucceed'
  BY <1>10 DEF DequeueEmpty
<1>11. ASSUME NEW t \in Threads, IsFull(t) PROVE CheckedCallsSucceed'
  BY <1>11 DEF IsFull
<1>12. ASSUME NEW t \in Threads, IsEmpty(t) PROVE CheckedCallsSucceed'
  BY <1>12 DEF IsEmpty
<1>13. ASSUME NEW t \in Threads, DestroyOne(t) PROVE CheckedCallsSucceed'
  BY <1>13 DEF DestroyOne, PopHead
<1>14. ASSUME NEW t \in Threads, DestroyArray(t) PROVE CheckedCallsSucceed'
  BY <1>14 DEF DestroyArray
<1>15. CASE UNCHANGED vars
  BY <1>15 DEF vars
<1>16. QED
  BY <1>1, <1>2, <1>3, <1>4, <1>5, <1>6, <1>7, <1>8, <1>9, <1>10, <1>11, <1>12, <1>13, <1>14, <1>15 DEF Next, BodyStep

------------------------------------------------------------------------------
(* The theorems.                                                           *)

IInv == TypeOK /\ SectionInv /\ RingInv /\ SoleOwner /\ CheckedCallsSucceed

LEMMA Inductive == Spec => []IInv
<1>1. Init => IInv
  BY TypeInit, SectionInit, RingInit, OwnerInit, CheckedInit DEF IInv
<1>2. IInv /\ [Next]_vars => IInv'
  BY TypeStep, SectionStep, RingStep, OwnerStep, CheckedStep DEF IInv
<1>3. QED
  BY <1>1, <1>2, PTL DEF Spec

\* Every variable keeps to its range: slot numbers stay inside the array however
\* often head and tail go round, and count stays within the size (queue.c:81-133).
THEOREM TypeCorrect == Spec => []TypeOK
<1>1. IInv => TypeOK
  BY DEF IInv
<1>2. QED
  BY <1>1, Inductive, PTL

\* The ring keeps its shape and its mutex keeps threads apart, for any number of
\* threads and any size (queue.c:81-95, 117-133, 144-164).
THEOREM RingSafe == Spec => []RingConsistent
<1>1. ASSUME IInv PROVE RingConsistent
  <2> USE <1>1, SQueueAssumption DEF IInv, TypeOK
  <2>1. tail = (head + count) % Size
    <3>1. PICK x \in 0..(2 * Size - 1) : x = head + count
      BY DEF Slots
    <3>2. x % Size = IF x < Size THEN x ELSE x - Size
      BY WrapOnce
    <3>3. QED
      BY <3>1, <3>2 DEF RingInv, Nth, Slots
  <2>2. \A t \in Threads : InSection(t) => mutex = t
    BY DEF SectionInv
  <2>3. QED
    BY <2>1, <2>2 DEF RingConsistent, RingInv, Window, TailBusy
<1>2. QED
  BY <1>1, Inductive, PTL

\* No payload is freed twice, used after it was freed or queued twice
\* (queue.c:45-55, 117-164), whatever the threads do.
THEOREM OwnershipSafe == Spec => []SoleOwner
<1>1. IInv => SoleOwner
  BY DEF IInv
<1>2. QED
  BY <1>1, Inductive, PTL

\* The loops of main.c (41-44, 49-52) cannot be refused when one thread runs
\* them: what a sole producer or a sole consumer was told stays true.
THEOREM CheckThenActSafe == Spec => []CheckedCallsSucceed
<1>1. IInv => CheckedCallsSucceed
  BY DEF IInv
<1>2. QED
  BY <1>1, Inductive, PTL

------------------------------------------------------------------------------
(* Leaks.                                                                  *)

\* Where a step leaves the same blocks allocated and unreachable, none is lost.
LEMMA LostSame ==
  ASSUME \A b \in Blocks : (b \in heap /\ ~Reachable(b))' <=> b \in heap /\ ~Reachable(b),
         heap \subseteq Blocks, heap' \subseteq Blocks
  PROVE  Lost' = Lost
BY DEF Lost

LeakStep ==
  Lost' # Lost => \E t \in Threads :
    /\ At(t, "body", {"enqueue_ext"}) /\ count = Size
    /\ Lost' = Lost \union {data[t]}

LEMMA LeakStepHolds == IInv /\ [Next]_vars => LeakStep
<1> SUFFICES ASSUME IInv, [Next]_vars PROVE LeakStep
  OBVIOUS
<1>0. heap \subseteq Blocks /\ heap' \subseteq Blocks
  BY TypeStep DEF IInv, TypeOK
<1> DEFINE Same == \A b \in Blocks : (b \in heap /\ ~Reachable(b))' <=> b \in heap /\ ~Reachable(b)
<1>1. ASSUME UNCHANGED <<heap, qdata, data>> PROVE Same
  BY <1>1 DEF Reachable
<1> USE SQueueAssumption DEF IInv, TypeOK, SectionInv, RingInv, SoleOwner, Slots, At, Go, Forget, ring,
        Enqueues, Storing, Copying, Reachable
<1>2. ASSUME NEW t \in Threads, CallEnqueueExt(t) \/ CallerMalloc(t) PROVE Same
  BY <1>2 DEF CallEnqueueExt, CallerMalloc, Malloc, Call
<1>3. ASSUME NEW t \in Threads, DataDestroy(t) PROVE Same
  BY <1>3 DEF DataDestroy
<1>4. ASSUME NEW t \in Threads, EnqueueStore(t) PROVE Same
  <2>1. qdata[tail] = NULL
    BY <1>4 DEF EnqueueStore, Offset, Nth, TailBusy, InSection
  <2>2. QED
    BY <1>4, <2>1 DEF EnqueueStore
<1>5. ASSUME NEW t \in Threads, EnqueueAdvance(t) PROVE Same
  BY <1>5 DEF EnqueueAdvance
<1>6. ASSUME NEW t \in Threads, DequeueCopy(t) PROVE Same
  BY <1>6 DEF DequeueCopy
<1>7. ASSUME NEW t \in Threads, DequeueAdvance(t) PROVE Same
  BY <1>7 DEF DequeueAdvance, PopHead
<1>8. ASSUME NEW t \in Threads, DestroyOne(t) PROVE Same
  BY <1>8 DEF DestroyOne, PopHead
<1>9. ASSUME NEW t \in Threads, EnqueueReject(t) PROVE LeakStep
  <2>1. CASE op[t] = "enqueue"
    BY <1>1, <1>9, <2>1, <1>0, LostSame DEF EnqueueReject, LeakStep
  <2>2. CASE op[t] = "enqueue_ext"
    <3> DEFINE d == data[t]
    <3>0. d \in heap /\ d \in Blocks /\ d # NULL
      BY <1>9 DEF EnqueueReject
    <3>1. \A s \in Slots : qdata[s] # d
      <4>1. ~TailBusy
        BY <1>9 DEF EnqueueReject, TailBusy, InSection
      <4>2. QED
        BY <1>9, <4>1, <3>0 DEF EnqueueReject, Window
    <3>2. \A u \in Threads : data[u] = d => u = t
      BY <3>0
    <3>3. \A b \in Blocks : Reachable(b)' <=> Reachable(b) /\ b # d
      BY <1>9, <2>2, <3>0, <3>1, <3>2 DEF EnqueueReject
    <3>4. heap' = heap
      BY <1>9 DEF EnqueueReject
    <3> HIDE DEF Reachable, d
    <3>5. Lost' = Lost \union {d}
      BY <1>0, <3>0, <3>3, <3>4 DEF Lost
    <3>6. QED
      BY <3>5, <1>9, <2>2 DEF LeakStep, EnqueueReject, d
  <2>3. QED
    BY <2>1, <2>2, <1>9 DEF EnqueueReject
<1>10. CASE UNCHANGED vars
  BY <1>10, <1>1, <1>0, LostSame DEF vars, LeakStep
<1>11. Same => LeakStep
  BY <1>0, LostSame DEF LeakStep
<1> HIDE DEF Same
<1>12. QED
  <2>1. ASSUME NEW t \in Threads, CallStep(t) PROVE LeakStep
    <3>1. CASE CallEnqueueExt(t) \/ CallerMalloc(t) \/ DataDestroy(t)
      BY <3>1, <1>2, <1>3, <1>11
    <3>2. CASE ~(CallEnqueueExt(t) \/ CallerMalloc(t) \/ DataDestroy(t))
      BY <3>2, <2>1, <1>1, <1>11 DEF CallStep, CallEnqueue, CallDequeue, CallQuery, CallDestroy, Call
    <3>3. QED
      BY <3>1, <3>2
  <2>2. ASSUME NEW t \in Threads, Lock(t) \/ Unlock(t) PROVE LeakStep
    BY <2>2, <1>1, <1>11 DEF Lock, Unlock
  <2>3. ASSUME NEW t \in Threads, BodyStep(t) PROVE LeakStep
    <3>1. CASE EnqueueFault(t) \/ DequeueEmpty(t) \/ IsFull(t) \/ IsEmpty(t) \/ DestroyArray(t)
      BY <3>1, <1>1, <1>11 DEF EnqueueFault, DequeueEmpty, IsFull, IsEmpty, DestroyArray
    <3>2. QED
      BY <3>1, <2>3, <1>4, <1>5, <1>6, <1>7, <1>8, <1>9, <1>11 DEF BodyStep
  <2>4. QED
    BY <2>1, <2>2, <2>3, <1>10 DEF Next

\* A payload becomes unreachable only when squeue_enqueue_ext meets a full queue
\* (queue.c:90-95): no other step, of any thread, leaks.
THEOREM LeakSafe == Spec => LeakOnlyOnReject
<1>1. IInv /\ [Next]_vars => [LeakStep]_vars
  BY LeakStepHolds
<1>2. QED
  BY <1>1, Inductive, PTL DEF LeakOnlyOnReject, LeakStep, Spec

------------------------------------------------------------------------------
(* Refinement of BoundedFifo.                                              *)

LEMMA NthWindow ==
  ASSUME TypeOK, NEW i \in 0..Size
  PROVE  /\ Nth(i) \in Slots
         /\ i < Size => Offset(Nth(i)) = i
BY SQueueAssumption DEF TypeOK, Nth, Offset, Slots

LEMMA ItemsSeq ==
  ASSUME IInv
  PROVE  /\ Items \in Seq(Blocks)
         /\ Len(Items) = count
         /\ \A i \in 1..count : /\ Items[i] = qdata[Nth(i - 1)]
                                /\ Nth(i - 1) \in Window
<1>1. ASSUME NEW i \in 1..count PROVE Nth(i - 1) \in Window
  BY <1>1, NthWindow, SQueueAssumption DEF IInv, TypeOK, Window
<1>2. ASSUME NEW i \in 1..count PROVE qdata[Nth(i - 1)] \in Blocks
  BY <1>1, <1>2 DEF IInv, TypeOK, SoleOwner
<1>3. count \in Nat
  BY SQueueAssumption DEF IInv, TypeOK
<1>4. QED
  BY <1>1, <1>2, <1>3 DEF Items

\* A step that moves neither head nor count and leaves the occupied slots alone
\* leaves the items alone.
LEMMA ItemsSame ==
  ASSUME IInv, head' = head, count' = count, \A s \in Window : qdata'[s] = qdata[s]
  PROVE  Items' = Items
<1>1. \A i \in 1..count : Nth(i - 1)' = Nth(i - 1)
  BY DEF Nth
<1>2. \A i \in 1..count : qdata'[Nth(i - 1)] = qdata[Nth(i - 1)]
  BY ItemsSeq
<1>3. QED
  BY <1>1, <1>2 DEF Items

LEMMA PopTail ==
  ASSUME IInv, IInv', PopHead, count > 0
  PROVE  /\ Items # << >>
         /\ Head(Items) = qdata[head]
         /\ Items' = Tail(Items)
<1> USE SQueueAssumption
<1>1. Items \in Seq(Blocks) /\ Len(Items) = count /\ count \in Nat
  BY ItemsSeq DEF IInv, TypeOK
<1>2. Items[1] = qdata[head]
  BY <1>1, ItemsSeq DEF IInv, TypeOK, Nth, Slots
<1>3. ASSUME NEW i \in 1..(count - 1)
      PROVE  qdata'[Nth(i - 1)'] = qdata[Nth(i)]
  <2>1. head' = IF head + 1 < Size THEN head + 1 ELSE 0
    BY WrapNext DEF PopHead, IInv, TypeOK
  <2>2. Nth(i - 1)' = Nth(i) /\ Nth(i) \in Slots /\ Nth(i) # head
    BY <2>1, <1>1 DEF IInv, TypeOK, Nth, Slots
  <2>3. QED
    BY <2>2 DEF PopHead, IInv, TypeOK
<1>4. Items' = [i \in 1..(count - 1) |-> qdata[Nth(i)]]
  BY <1>1, <1>3 DEF Items, PopHead
<1>5. \A i \in 1..(count - 1) : Items[i + 1] = qdata[Nth(i)]
  BY <1>1 DEF Items
<1>6. /\ Tail(Items) \in Seq(Blocks) /\ Len(Tail(Items)) = count - 1
      /\ \A i \in 1..(count - 1) : Tail(Items)[i] = Items[i + 1]
  BY <1>1, HeadTailProperties
<1>7. Tail(Items) = [i \in 1..(count - 1) |-> qdata[Nth(i)]]
  <2> DEFINE P == [i \in 1..(count - 1) |-> qdata[Nth(i)]]
  <2>1. count - 1 \in Nat /\ \A i \in 1..(count - 1) : qdata[Nth(i)] \in Blocks
    <3>1. \A i \in 1..(count - 1) : i + 1 \in 1..Len(Items)
      BY <1>1
    <3>2. QED
      BY <1>1, <1>5, <3>1
  <2>2. P \in Seq(Blocks) /\ Len(P) = count - 1 /\ \A i \in 1..(count - 1) : P[i] = qdata[Nth(i)]
    BY <2>1
  <2>3. QED
    BY <2>2, <1>5, <1>6, SeqEqual
<1>8. QED
  BY <1>1, <1>2, <1>4, <1>7

LEMMA PutAppend ==
  ASSUME IInv, NEW t \in Threads, EnqueueAdvance(t)
  PROVE  Items' = Append(Items, data[t])
<1> USE SQueueAssumption
<1>1. Items \in Seq(Blocks) /\ Len(Items) = count /\ count \in Nat
  BY ItemsSeq DEF IInv, TypeOK
<1>2. /\ count < Size /\ qdata[tail] = data[t] /\ tail = Nth(count)
      /\ count' = count + 1 /\ qdata' = qdata /\ head' = head
  BY DEF EnqueueAdvance, IInv, RingInv, Storing
<1>3. \A i : Nth(i)' = Nth(i)
  BY <1>2 DEF Nth
<1>4. Items' = [i \in 1..(count + 1) |-> qdata[Nth(i - 1)]]
  BY <1>2, <1>3 DEF Items
<1>5. Append(Items, data[t]) = [i \in 1..(count + 1) |-> IF i = count + 1 THEN data[t] ELSE Items[i]]
  BY <1>1
<1>6. \A i \in 1..count : Items[i] = qdata[Nth(i - 1)]
  BY <1>1 DEF Items
<1>7. \A i \in 1..(count + 1) :
        qdata[Nth(i - 1)] = IF i = count + 1 THEN data[t] ELSE Items[i]
  BY <1>1, <1>2, <1>6
<1>8. QED
  BY <1>4, <1>5, <1>7

\* Steps that touch neither the occupied slots nor anybody's payload stutter.
LEMMA FifoStutter ==
  ASSUME IInv, head' = head, count' = count, \A s \in Window : qdata'[s] = qdata[s],
         \A t \in Threads : Hand'[t] = Hand[t]
  PROVE  UNCHANGED Fifo!fifoVars
<1>1. Items' = Items
  BY ItemsSame
<1>2. Hand' = Hand
  BY DEF Hand
<1>3. QED
  BY <1>1, <1>2 DEF Fifo!fifoVars

LEMMA FifoStep == IInv /\ IInv' /\ [Next]_vars => [Fifo!FifoNext]_(Fifo!fifoVars)
<1> SUFFICES ASSUME IInv, IInv', [Next]_vars PROVE [Fifo!FifoNext]_(Fifo!fifoVars)
  OBVIOUS
<1> DEFINE Goal == [Fifo!FifoNext]_(Fifo!fifoVars)
<1>0. /\ Items \in Seq(Blocks) /\ Len(Items) = count /\ count \in 0..Size
      /\ \A i \in 1..count : Items[i] = qdata[Nth(i - 1)] /\ Nth(i - 1) \in Window
      /\ NULL \notin Blocks
  BY ItemsSeq, SQueueAssumption DEF IInv, TypeOK
<1> USE DEF IInv, TypeOK, At, Go, Forget, ring, Enqueues, Copying
<1>1. ASSUME NEW t \in Threads, CallEnqueueExt(t) \/ CallerMalloc(t) PROVE Goal
  <2>1. PICK b \in Blocks \ heap : data' = [data EXCEPT ![t] = b]
    BY <1>1 DEF CallEnqueueExt, CallerMalloc, Malloc
  <2>2. Items' = Items
    BY <1>1, ItemsSame DEF CallEnqueueExt, CallerMalloc, Malloc, Call
  <2>3. /\ Hand[t] = NULL /\ Hand' = [Hand EXCEPT ![t] = b]
        /\ \A u \in Threads : Hand[u] # b
    <3>1. Hand[t] = NULL /\ Hand' = [Hand EXCEPT ![t] = b]
      <4>1. data[t] = NULL /\ data' = [data EXCEPT ![t] = b]
        BY <1>1, <2>1 DEF CallEnqueueExt, CallerMalloc, Malloc
      <4>2. \A u \in Threads : Copying(u)' <=> Copying(u)
        BY <1>1 DEF CallEnqueueExt, CallerMalloc, Call
      <4>3. ~Copying(t)
        BY <1>1 DEF CallEnqueueExt, CallerMalloc, Call
      <4> HIDE DEF Copying
      <4>4. QED
        BY <4>1, <4>2, <4>3 DEF Hand
    <3>2. ASSUME NEW u \in Threads PROVE Hand[u] # b
      <4>1. data[u] # b
        BY <2>1, <1>0 DEF SoleOwner
      <4>2. NULL # b
        BY <2>1, <1>0
      <4>3. QED
        BY <4>1, <4>2 DEF Hand
    <3>3. QED
      BY <3>1, <3>2
  <2>4. \A i \in 1..Len(Items) : Items[i] # b
    BY <2>1, <1>0 DEF SoleOwner
  <2>5. Fifo!Obtain(t, b)
    BY <2>2, <2>3, <2>4 DEF Fifo!Obtain
  <2>6. QED
    BY <2>1, <2>5 DEF Fifo!FifoNext
<1>2. ASSUME NEW t \in Threads, DataDestroy(t) PROVE Goal
  <2>1. Items' = Items
    BY <1>2, ItemsSame DEF DataDestroy
  <2>2. Hand' = [Hand EXCEPT ![t] = NULL]
    BY <1>2 DEF DataDestroy, Hand
  <2>3. QED
    BY <2>1, <2>2 DEF Fifo!Drop, Fifo!FifoNext
<1>3. ASSUME NEW t \in Threads, EnqueueReject(t) PROVE Goal
  <2>1. CASE op[t] = "enqueue"
    BY <1>3, <2>1, FifoStutter DEF EnqueueReject, Hand
  <2>2. CASE op[t] = "enqueue_ext"
    <3>1. Items' = Items
      BY <1>3, ItemsSame DEF EnqueueReject
    <3>2. Hand' = [Hand EXCEPT ![t] = NULL]
      BY <1>3, <2>2 DEF EnqueueReject, Hand
    <3>3. QED
      BY <3>1, <3>2 DEF Fifo!Drop, Fifo!FifoNext
  <2>3. QED
    BY <1>3, <2>1, <2>2 DEF EnqueueReject
<1>4. ASSUME NEW t \in Threads, EnqueueAdvance(t) PROVE Goal
  <2>1. Items' = Append(Items, data[t]) /\ count < Size
    BY <1>4, PutAppend DEF EnqueueAdvance, RingInv, Storing
  <2>2. Hand[t] = data[t] /\ data[t] # NULL
    BY <1>4 DEF EnqueueAdvance, SectionInv, Hand
  <2>3. Hand' = [Hand EXCEPT ![t] = NULL]
    BY <1>4 DEF EnqueueAdvance, Hand
  <2>4. Fifo!Put(t)
    BY <2>1, <2>2, <2>3, <1>0 DEF Fifo!Put
  <2>5. QED
    BY <2>4 DEF Fifo!FifoNext
<1>5. ASSUME NEW t \in Threads, DequeueAdvance(t) PROVE Goal
  <2>1. PopHead /\ count > 0 /\ qdata[head] = data[t]
    BY <1>5 DEF DequeueAdvance, RingInv
  <2>2. Items # << >> /\ Head(Items) = data[t] /\ Items' = Tail(Items)
    BY <2>1, PopTail
  <2>3. Hand[t] = NULL /\ Hand' = [Hand EXCEPT ![t] = data[t]]
    BY <1>5 DEF DequeueAdvance, Hand
  <2>4. Fifo!Take(t)
    BY <2>2, <2>3 DEF Fifo!Take
  <2>5. QED
    BY <2>4 DEF Fifo!FifoNext
<1>6. ASSUME NEW t \in Threads, DestroyOne(t) PROVE Goal
  <2>1. Items # << >> /\ Items' = Tail(Items)
    BY <1>6, PopTail DEF DestroyOne
  <2>2. Hand' = Hand
    BY <1>6 DEF DestroyOne, Hand
  <2>3. QED
    BY <2>1, <2>2 DEF Fifo!Discard, Fifo!FifoNext
<1>7. ASSUME NEW t \in Threads, EnqueueStore(t) PROVE Goal
  <2>1. tail \notin Window
    BY <1>7, SQueueAssumption DEF EnqueueStore, RingInv, Nth, Offset, Window, Slots
  <2>2. QED
    BY <1>7, <2>1, FifoStutter DEF EnqueueStore, Hand, Window
<1>8. ASSUME NEW t \in Threads, DequeueCopy(t) PROVE Goal
  <2>1. \A u \in Threads : Hand'[u] = Hand[u]
    BY <1>8 DEF DequeueCopy, Hand, SectionInv
  <2>2. QED
    BY <1>8, <2>1, FifoStutter DEF DequeueCopy
<1>9. ASSUME NEW t \in Threads,
             CallEnqueue(t) \/ CallDequeue(t) \/ CallQuery(t) \/ CallDestroy(t)
      PROVE  Goal
  BY <1>9, FifoStutter DEF CallEnqueue, CallDequeue, CallQuery, CallDestroy, Call, Hand
<1>10. ASSUME NEW t \in Threads, Lock(t) \/ Unlock(t) PROVE Goal
  BY <1>10, FifoStutter DEF Lock, Unlock, Hand
<1>11. ASSUME NEW t \in Threads,
              EnqueueFault(t) \/ DequeueEmpty(t) \/ IsFull(t) \/ IsEmpty(t) \/ DestroyArray(t)
       PROVE  Goal
  BY <1>11, FifoStutter DEF EnqueueFault, DequeueEmpty, IsFull, IsEmpty, DestroyArray, Hand
<1>12. CASE UNCHANGED vars
  BY <1>12, FifoStutter DEF vars, Hand
<1>13. QED
  BY <1>1, <1>2, <1>3, <1>4, <1>5, <1>6, <1>7, <1>8, <1>9, <1>10, <1>11, <1>12
     DEF Next, CallStep, BodyStep

\* The ring buffer implements the bounded FIFO (queue.c:68-164): payloads come
\* out in the order they went in, each to one thread, and never more than Size
\* of them wait, for any number of threads, blocks and slots.
THEOREM RefinesFifo == Spec => ImplementsFifo
<1>1. Init => Fifo!FifoInit
  BY DEF Init, Fifo!FifoInit, Items, Hand, Copying, At
<1>2. QED
  BY <1>1, FifoStep, Inductive, PTL DEF ImplementsFifo, Fifo!FifoSpec, Spec

==============================================================================
