---------------------------- MODULE MCSipSession ----------------------------
(* Instance of SipSession for TLC. *)
EXTENDS SipSession, TLC

=============================================================================
