----------------------------- MODULE MCSigChld ------------------------------
(***************************************************************************)
(* TLC instance of SigChld for what a comment of sigchld.c promises.  Two  *)
(* children show it: one that exits before the handler is installed, and   *)
(* one whose exit may or may not make up for it.                           *)
(***************************************************************************)
EXTENDS SigChld
==============================================================================
