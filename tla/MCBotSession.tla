---------------------------- MODULE MCBotSession ----------------------------
(* Finite instances of BotSession for TLC. *)
EXTENDS BotSession, TLC

=============================================================================
