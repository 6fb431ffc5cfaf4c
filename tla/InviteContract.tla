--------------------------- MODULE InviteContract ---------------------------
(***************************************************************************)
(* What one INVITE promises to the two users it connects, whatever the     *)
(* network does: InviteExchange implements it.                             *)
(***************************************************************************)
EXTENDS Naturals

VARIABLES
  caller,  \* what the caller was told: "calling", "ok", "refused" or "failed"
  peer,    \* which of the sessions at the other end it talks to, 0: none
  callee,  \* what became of the call at the other end: the INVITE can reach it
           \* a second time when the first session has had its answer
  cancel   \* the caller wants to end it

vars == <<caller, peer, callee, cancel>>

Lives == 1..2

Init ==
  /\ caller = "calling" /\ peer = 0
  /\ callee = [i \in Lives |-> "idle"]
  /\ cancel = FALSE

Want == caller = "calling" /\ cancel' = TRUE /\ UNCHANGED <<caller, peer, callee>>

\* The callee is called, and answers or refuses; a response that cannot even be
\* sent leaves it as if it had not been called.
Callee(i, from, to) ==
  /\ callee[i] \in from /\ callee' = [callee EXCEPT ![i] = to]
  /\ UNCHANGED <<caller, peer, cancel>>

\* One session at a time: the second starts when the first has been answered.
Called(i) == \A j \in Lives : j < i => callee[j] \notin {"idle", "ringing"}

Ring(i) == Called(i) /\ Callee(i, {"idle"}, "ringing")
Refuse(i) == Called(i) /\ Callee(i, {"idle", "ringing"}, "refused")
Forget(i) == Callee(i, {"ringing"}, "idle")
Answer(i) == Callee(i, {"ringing"}, "answered")
GiveUp(i) == Callee(i, {"answered"}, "unacked")

\* Only a caller that wants it ends the ringing, and only the ringing.
Cancelled(i) == cancel /\ Callee(i, {"ringing"}, "cancelled")

\* A session hears that its answer arrived only if the caller talks to it.
Confirm(i) == peer = i /\ Callee(i, {"answered"}, "confirmed")

Told(what) == caller = "calling" /\ caller' = what /\ UNCHANGED <<callee, cancel>>
Succeed(i) == callee[i] \in {"answered", "unacked"} /\ peer' = i /\ Told("ok")
Refused ==
  /\ \E i \in Lives : callee[i] \in {"refused", "cancelled"}
  /\ UNCHANGED peer /\ Told("refused")
Fail == UNCHANGED peer /\ Told("failed")

Next ==
  \/ Want \/ Refused \/ Fail
  \/ \E i \in Lives :
       \/ Ring(i) \/ Refuse(i) \/ Forget(i) \/ Answer(i) \/ GiveUp(i) \/ Cancelled(i)
       \/ Confirm(i) \/ Succeed(i)

\* A caller that wants to leave is told an end, a session that answers is told
\* whether the answer arrived.
Leaves == cancel ~> caller # "calling"
Hears(i) == callee[i] = "answered" ~> callee[i] # "answered"

Safety == Init /\ [][Next]_vars
Spec == Safety /\ Leaves /\ \A i \in Lives : Hears(i)
=============================================================================
