--------------------------- MODULE MCDuplexDialog ---------------------------
(* Finite instances of DuplexDialog for TLC. *)
EXTENDS DuplexDialog, TLC

=============================================================================
