------------------------------- MODULE MCCall -------------------------------
(* Instance of Call for TLC. *)
EXTENDS Call
=============================================================================
