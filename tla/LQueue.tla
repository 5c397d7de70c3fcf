------------------------------- MODULE LQueue -------------------------------
(***************************************************************************)
(* queue/list: a queue kept as a circular doubly linked list of malloc'd   *)
(* nodes, used by one thread.  phead points at the front node; the node    *)
(* before it in the circle is the back.                                    *)
(*                                                                         *)
(* nodes and heap are the list nodes and the payload blocks now allocated. *)
(* held are the payloads whose pointer the caller has.  A call that would  *)
(* follow a pointer to a freed node has no defined outcome: it sets ub and *)
(* the run of the program ends there.                                      *)
(***************************************************************************)
EXTENDS Integers, FiniteSets, Sequences

CONSTANTS
  Nodes,     \* the list nodes malloc can hand out
  Blocks,    \* the payload blocks malloc can hand out
  InitSize,  \* the size given to lqueue_init; 0 means unbounded
  NULL

ASSUME LQueueAssumption ==
  /\ InitSize \in Nat
  /\ NULL \notin Nodes
  /\ NULL \notin Blocks

VARIABLES
  phead, count, size,  \* the fields of lqueue_t
  next, prev, pqdata,  \* per node: the links and the payload pointer
  nodes, heap, held,
  pc,                  \* "idle", or "destroy" inside the loop of lqueue_destroy
  ub

links == <<next, prev, pqdata>>
vars == <<phead, count, size, next, prev, pqdata, nodes, heap, held, pc, ub>>

Init ==
  /\ phead = NULL /\ count = 0 /\ size = InitSize
  /\ next = [n \in Nodes |-> NULL]
  /\ prev = [n \in Nodes |-> NULL]
  /\ pqdata = [n \in Nodes |-> NULL]
  /\ nodes = {} /\ heap = {} /\ held = {}
  /\ pc = "idle"
  /\ ub = FALSE

Idle == pc = "idle" /\ ~ub
\* Mutant of Full: one item too many.
FullLate == size > 0 /\ count > size

Full == size > 0 /\ count >= size
Dangling == phead # NULL /\ phead \notin nodes
Single == next[phead] = phead

\* The call follows phead, which points at a freed node.
Fault ==
  /\ ub' = TRUE
  /\ UNCHANGED <<phead, count, size, links, nodes, heap, held, pc>>

------------------------------------------------------------------------------
\* The caller allocates a payload, or frees one that it holds.
CallerMalloc ==
  /\ Idle
  /\ \E b \in Blocks \ heap : heap' = heap \union {b} /\ held' = held \union {b}
  /\ UNCHANGED <<phead, count, size, links, nodes, pc, ub>>

\* lqueue_data_destroy_ext
CallerFree ==
  /\ Idle
  /\ \E b \in held : heap' = heap \ {b} /\ held' = held \ {b}
  /\ UNCHANGED <<phead, count, size, links, nodes, pc, ub>>

\* Mutant of Link: the line that moves the head is in the wrong functions.
LinkSwapped(n, b, front) ==
  /\ nodes' = nodes \union {n}
  /\ pqdata' = [pqdata EXCEPT ![n] = b]
  /\ IF phead = NULL
     THEN /\ next' = [next EXCEPT ![n] = n]
          /\ prev' = [prev EXCEPT ![n] = n]
     ELSE /\ next' = [next EXCEPT ![n] = phead, ![prev[phead]] = n]
          /\ prev' = [prev EXCEPT ![n] = prev[phead], ![phead] = n]
  /\ phead' = IF phead = NULL \/ ~front THEN n ELSE phead
  /\ count' = count + 1

\* Node n with payload b goes between the back and the front; inserted at the
\* front it also becomes the head.
Link(n, b, front) ==
  /\ nodes' = nodes \union {n}
  /\ pqdata' = [pqdata EXCEPT ![n] = b]
  /\ IF phead = NULL
     THEN /\ next' = [next EXCEPT ![n] = n]
          /\ prev' = [prev EXCEPT ![n] = n]
     ELSE /\ next' = [next EXCEPT ![n] = phead, ![prev[phead]] = n]
          /\ prev' = [prev EXCEPT ![n] = prev[phead], ![phead] = n]
  /\ phead' = IF phead = NULL \/ front THEN n ELSE phead
  /\ count' = count + 1

\* lqueue_enqueue_front_ext, lqueue_enqueue_back_ext: the payload is copied.  A
\* full queue (-1) and a malloc that fails (-10) leave everything as it was.
EnqueueExt(front) ==
  /\ Idle /\ ~Full /\ ~Dangling
  /\ \E n \in Nodes \ nodes, b \in Blocks \ heap :
       /\ heap' = heap \union {b}
       /\ Link(n, b, front)
  /\ UNCHANGED <<size, held, pc, ub>>

\* lqueue_enqueue_front, lqueue_enqueue_back: the queue takes the caller's payload.
EnqueueOwn(front) ==
  /\ Idle /\ ~Full /\ ~Dangling
  /\ \E n \in Nodes \ nodes, b \in held :
       /\ held' = held \ {b}
       /\ Link(n, b, front)
  /\ UNCHANGED <<size, heap, pc, ub>>

\* All four start from phead->prev when the list is not empty.
EnqueueFault == Idle /\ ~Full /\ Dangling /\ Fault

\* lqueue_dequeue_front: the front node is unlinked from its neighbours and freed.
\* phead moves only when it was the one element, and the payload pointer is
\* assigned to the parameter pbuf, not to what it points at: the caller gets
\* the length and nothing else.
DequeueFront ==
  /\ Idle /\ phead # NULL /\ ~Dangling
  /\ IF Single
     THEN phead' = NULL /\ UNCHANGED <<next, prev>>
     ELSE /\ next' = [next EXCEPT ![prev[phead]] = next[phead]]
          /\ prev' = [prev EXCEPT ![next[phead]] = prev[phead]]
          /\ UNCHANGED phead
  /\ nodes' = nodes \ {phead}
  /\ count' = count - 1
  /\ UNCHANGED <<size, pqdata, heap, held, pc, ub>>

\* Mutant of DequeueBack: the case of one element is not told apart.
DequeueBackAlways ==
  /\ Idle /\ phead # NULL /\ ~Dangling
  /\ LET n == prev[phead] IN
       /\ next' = [next EXCEPT ![prev[n]] = phead]
       /\ prev' = [prev EXCEPT ![phead] = prev[n]]
       /\ held' = held \union {pqdata[n]}
       /\ nodes' = nodes \ {n}
  /\ count' = count - 1
  /\ UNCHANGED <<phead, size, pqdata, heap, pc, ub>>

\* lqueue_dequeue_back
DequeueBack ==
  /\ Idle /\ phead # NULL /\ ~Dangling
  /\ LET n == IF Single THEN phead ELSE prev[phead] IN
       /\ IF Single
          THEN phead' = NULL /\ UNCHANGED <<next, prev>>
          ELSE /\ next' = [next EXCEPT ![prev[n]] = phead]
               /\ prev' = [prev EXCEPT ![phead] = prev[n]]
               /\ UNCHANGED phead
       /\ held' = held \union {pqdata[n]}
       /\ nodes' = nodes \ {n}
  /\ count' = count - 1
  /\ UNCHANGED <<size, pqdata, heap, pc, ub>>

DequeueFault == Idle /\ Dangling /\ Fault

\* lqueue_destroy with a destroy callback: head by head, next pointer by next
\* pointer.  The loop stops at a node that points at itself, and nothing makes
\* the last node of a longer list do so: it still points at the first one.
Destroy ==
  /\ Idle
  /\ pc' = "destroy"
  /\ UNCHANGED <<phead, count, size, links, nodes, heap, held, ub>>

DestroyOne ==
  /\ pc = "destroy" /\ ~ub /\ phead # NULL /\ ~Dangling
  /\ phead' = IF Single THEN NULL ELSE next[phead]
  /\ heap' = heap \ {pqdata[phead]}
  /\ nodes' = nodes \ {phead}
  /\ UNCHANGED <<count, size, links, held, pc, ub>>

DestroyFault == pc = "destroy" /\ ~ub /\ Dangling /\ Fault

DestroyEnd ==
  /\ pc = "destroy" /\ ~ub /\ phead = NULL
  /\ count' = 0 /\ size' = 0
  /\ pc' = "idle"
  /\ UNCHANGED <<phead, links, nodes, heap, held, ub>>

Next ==
  \/ CallerMalloc
  \/ CallerFree
  \/ \E front \in BOOLEAN : EnqueueExt(front)
  \/ \E front \in BOOLEAN : EnqueueOwn(front)
  \/ EnqueueFault
  \/ DequeueFront
  \/ DequeueBack
  \/ DequeueFault
  \/ Destroy
  \/ DestroyOne
  \/ DestroyFault
  \/ DestroyEnd

Spec == Init /\ [][Next]_vars

------------------------------------------------------------------------------
(* Properties.                                                             *)

\* The nodes met by following next from phead, count of them, and their payloads.
Walk[i \in 1..count] == IF i = 1 THEN phead ELSE next[Walk[i - 1]]
Items == [i \in 1..count |-> pqdata[Walk[i]]]

Whole == pc = "idle" /\ ~Dangling

\* As long as the head is not lost (lqueue.c:63-75, 226-240): the next pointers
\* lead from phead through every allocated node exactly once, in count steps,
\* and back; the prev pointers undo them; an empty queue has count 0; and a
\* bounded queue never exceeds its size.  Every queued payload is allocated, in one
\* place of the queue only and not in the caller's hands (lqueue.c:54-60, 135, 236):
\* freeing what a dequeue returned never frees what is still queued.
CircleClosed ==
  Whole =>
    /\ phead = NULL <=> count = 0
    /\ size > 0 => count <= size
    /\ {Walk[i] : i \in 1..count} = nodes
    /\ Cardinality(nodes) = count
    /\ \A n \in nodes : prev[next[n]] = n /\ next[prev[n]] = n
    /\ \A i \in 1..count : Items[i] \in heap \ held
    /\ \A i, j \in 1..count : Items[i] = Items[j] => i = j

Last(s) == s[Len(s)]
Front(s) == SubSeq(s, 1, Len(s) - 1)

\* What a call does to the contents, in terms of the contents alone
\* (lqueue.c:38-187, 216-242): an enqueue at either end adds one item there, a
\* dequeue from the back hands over the last one, the front of a single item is
\* the only other way out, and nothing else changes the contents or their order.
StepsLikeADeque ==
  [][Whole /\ Whole' =>
       \/ Items' = Items
       \/ \E front \in BOOLEAN, b \in Blocks :
            /\ EnqueueExt(front) \/ EnqueueOwn(front)
            /\ Items' = IF front THEN << b >> \o Items ELSE Append(Items, b)
            /\ b \in heap' \ held'
       \/ /\ DequeueBack
          /\ Items' = Front(Items) /\ held' = held \union {Last(Items)}
       \/ DequeueFront /\ count = 1 /\ Items' = << >>]_vars

\* Where the code loses the list (lqueue.c:205-210, 250-262): only when the front
\* of two or more items is dequeued, or when two or more are destroyed.  The loop
\* of main.c does neither, so no call of its follows a freed node.
HeadLostOnlyThere ==
  [][~Dangling /\ Dangling' =>
       \/ pc = "idle" /\ count >= 2 /\ DequeueFront
       \/ pc = "destroy" /\ count >= 2 /\ DestroyOne]_vars

\* What lqueue_dequeue_front is there for (lqueue.c:200, "dequeue front"): the
\* caller gets the payload of the front item and the next one becomes the front.
FrontGoesToCaller ==
  [][DequeueFront => /\ held' = held \union {pqdata[phead]}
                     /\ phead' = IF Single THEN NULL ELSE next[phead]]_vars
==============================================================================
