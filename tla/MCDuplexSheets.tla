--------------------------- MODULE MCDuplexSheets ---------------------------
(* Finite instances of DuplexSheets for TLC. *)
EXTENDS DuplexSheets, TLC

=============================================================================
