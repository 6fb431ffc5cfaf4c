---------------------------- MODULE MCSipRequest ----------------------------
(* Instance of SipRequest for TLC. *)
EXTENDS SipRequest
=============================================================================
