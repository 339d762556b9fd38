-------------------------- MODULE MCSubmitPipeline --------------------------
(* A finite instance of SubmitPipeline for TLC. *)
EXTENDS SubmitPipeline

=============================================================================
