------------------------ MODULE SubscriptionContract ------------------------
(***************************************************************************)
(* What following a contact promises to the contact list and to the memory *)
(* of the phone: a state is shown only by the subscription in use, its end *)
(* is always answered by a new attempt, and every subscription that was    *)
(* given up is reclaimed.  Subscription implements it.                     *)
(***************************************************************************)
CONSTANT Subs

VARIABLES
  user,   \* "waiting" (to subscribe), "open" (subscribed) or "gone"
  shown,  \* the contact's state: "unknown", or "known" from a NOTIFY
  left    \* subscriptions given up that still exist

vars == <<user, shown, left>>

Init == user = "waiting" /\ shown = "unknown" /\ left = {}

Open == user = "waiting" /\ user' = "open" /\ UNCHANGED <<shown, left>>

Show == user = "open" /\ shown' = "known" /\ UNCHANGED <<user, left>>

\* A subscription that ends may have to be waited for.
GivesUp == left' = left \/ \E i \in Subs \ left : left' = left \cup {i}

Close == user = "open" /\ user' = "waiting" /\ shown' = "unknown" /\ GivesUp

Release == user # "gone" /\ user' = "gone" /\ UNCHANGED shown /\ GivesUp

Reclaim == \E i \in left : left' = left \ {i} /\ UNCHANGED <<user, shown>>

Next == Open \/ Show \/ Close \/ Release \/ Reclaim

Reclaimed == \A i \in Subs : i \in left ~> i \notin left

Safety == Init /\ [][Next]_vars
Spec == Safety /\ Reclaimed
=============================================================================
