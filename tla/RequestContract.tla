-------------------------- MODULE RequestContract --------------------------
(***************************************************************************)
(* What sip_request promises to who sends a request: one final result, or  *)
(* none if its user has dropped it; an end for a request that is cancelled *)
(* or dropped; and nothing left behind.  SipRequest implements it.         *)
(***************************************************************************)
VARIABLES
  user,    \* "idle", "waiting" (it has the request), "told", "sent" (an ACK,
           \* which has no response) or "gone" (it dropped the request)
  block,   \* "none", "live" or "freed": the request's memory
  cancel   \* the user does not want it any more

vars == <<user, block, cancel>>

Init == user = "idle" /\ block = "none" /\ cancel = FALSE

Start == user = "idle" /\ user' = "waiting" /\ block' = "live" /\ UNCHANGED cancel

\* What could not even be started was never the user's.
StartFails ==
  user = "idle" /\ user' \in {"gone", "sent"} /\ block' = "freed" /\ UNCHANGED cancel

Cancel == user = "waiting" /\ cancel' = TRUE /\ UNCHANGED <<user, block>>

End ==
  /\ user = "waiting" /\ user' \in {"told", "sent"}
  /\ block' = "freed" /\ UNCHANGED cancel

\* What is dropped is gone, or cancelled.
Drop ==
  /\ user = "waiting" /\ user' = "gone"
  /\ \/ block' = "freed" /\ UNCHANGED cancel
     \/ cancel' = TRUE /\ UNCHANGED block

Reclaim == user = "gone" /\ block = "live" /\ block' = "freed" /\ UNCHANGED <<user, cancel>>

Next == Start \/ StartFails \/ Cancel \/ End \/ Drop \/ Reclaim

Ends == cancel ~> block = "freed"

Safety == Init /\ [][Next]_vars

\* The same promise to a user whose request is on its way when we begin to look.
Started == user = "waiting" /\ block = "live" /\ cancel = FALSE
Running == Started /\ [][Next]_vars

Spec == Safety /\ Ends
=============================================================================
