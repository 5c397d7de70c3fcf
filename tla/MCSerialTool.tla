---------------------------- MODULE MCSerialTool ----------------------------
(***************************************************************************)
(* TLC instance of SerialTool for what a comment of test_uart_v2.c says of *)
(* its loop: one line is typed, and the answer has two bytes.              *)
(***************************************************************************)
EXTENDS SerialTool
==============================================================================
