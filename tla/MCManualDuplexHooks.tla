------------------------ MODULE MCManualDuplexHooks ------------------------
(* Finite instances of ManualDuplexHooks for TLC. *)
EXTENDS ManualDuplexHooks, TLC

============================================================================
