--------------------------- MODULE MCSubscription ---------------------------
(* Instance of Subscription for TLC. *)
EXTENDS Subscription
=============================================================================
