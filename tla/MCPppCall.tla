------------------------------ MODULE MCPppCall ------------------------------
(***************************************************************************)
(* TLC instance of PppCall: a second pppd can be started while a first one *)
(* is still ending.                                                        *)
(***************************************************************************)
EXTENDS PppCall
==============================================================================
