------------------------------- MODULE MCJbuf -------------------------------
(* Instance of Jbuf for TLC. *)
EXTENDS Jbuf
=============================================================================
