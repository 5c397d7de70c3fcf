------------------------------ MODULE MCLQueue ------------------------------
(***************************************************************************)
(* TLC instance of LQueue: one node more than a bounded queue may hold,    *)
(* and one payload more than there are nodes.  After lqueue_destroy, which *)
(* makes the queue unbounded, it grows to three items.  Nodes and payloads *)
(* are interchangeable.                                                    *)
(***************************************************************************)
EXTENDS LQueue, TLC

NodesAndBlocks == Permutations(Nodes) \union Permutations(Blocks)
==============================================================================
