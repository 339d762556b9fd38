---------------------------- MODULE MCPrintPage ----------------------------
(* Finite instances of PrintPage for TLC. *)
EXTENDS PrintPage, TLC

=============================================================================
