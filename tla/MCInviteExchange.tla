-------------------------- MODULE MCInviteExchange --------------------------
(* Instance of InviteExchange for TLC. *)
EXTENDS InviteExchange
=============================================================================
