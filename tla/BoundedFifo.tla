----------------------------- MODULE BoundedFifo -----------------------------
(***************************************************************************)
(* What a bounded queue of payload blocks promises to the threads that     *)
(* share it: items leave in the order they entered, never more than        *)
(* Capacity of them wait, and an item that left is in the hands of exactly *)
(* the thread that took it.  The ring buffer of queue/array (SQueue) is    *)
(* shown to implement it.                                                  *)
(***************************************************************************)
EXTENDS Naturals, Sequences

CONSTANTS Threads, Blocks, Capacity, NULL

VARIABLES items, hand

fifoVars == <<items, hand>>

FifoInit ==
  /\ items = << >>
  /\ hand = [t \in Threads |-> NULL]

\* A thread obtains a block that no other thread holds and that does not wait
\* in the queue (malloc, or the buffer of its caller).
Obtain(t, b) ==
  /\ hand[t] = NULL
  /\ \A u \in Threads : hand[u] # b
  /\ \A i \in 1..Len(items) : items[i] # b
  /\ hand' = [hand EXCEPT ![t] = b]
  /\ UNCHANGED items

\* The thread lets its block go without queueing it (free, or a lost block).
Drop(t) ==
  /\ hand' = [hand EXCEPT ![t] = NULL]
  /\ UNCHANGED items

Put(t) ==
  /\ hand[t] # NULL
  /\ Len(items) < Capacity
  /\ items' = Append(items, hand[t])
  /\ hand' = [hand EXCEPT ![t] = NULL]

Take(t) ==
  /\ hand[t] = NULL
  /\ items # << >>
  /\ hand' = [hand EXCEPT ![t] = Head(items)]
  /\ items' = Tail(items)

\* The queue itself disposes of its oldest item.
Discard ==
  /\ items # << >>
  /\ items' = Tail(items)
  /\ UNCHANGED hand

FifoNext ==
  \/ \E t \in Threads : \E b \in Blocks : Obtain(t, b)
  \/ \E t \in Threads : Drop(t) \/ Put(t) \/ Take(t)
  \/ Discard

FifoSpec == FifoInit /\ [][FifoNext]_fifoVars
==============================================================================
