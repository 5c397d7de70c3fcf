------------------------------ MODULE MCSQueue ------------------------------
(***************************************************************************)
(* TLC instance of SQueue: a worker that produces and a main thread that   *)
(* drains and destroys; both may ask whether the queue is full or empty.   *)
(***************************************************************************)
EXTENDS SQueue

\* One block more than the ring has slots, so that it can be full while a
\* producer already holds the copy it will fail to queue.
MCBlocks == 1..(Size + 1)
==============================================================================
