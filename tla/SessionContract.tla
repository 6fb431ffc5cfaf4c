--------------------------- MODULE SessionContract ---------------------------
(***************************************************************************)
(* What re/src/sipsess promises to the user of one session.  The user      *)
(* owns the session from the moment it is opened until it is over; it is   *)
(* over once, when the library calls closeh or the user lets go; from then *)
(* on the library never comes back to the user, and it gives the memory    *)
(* back, though perhaps much later (after the CANCEL, the missing ACKs and *)
(* the BYE).  The memory is never given back while the user owns it.       *)
(***************************************************************************)
VARIABLES
  phase,   \* "idle", "setup", "talking" or "over", as the user sees it
  block    \* "none", "live" or "freed": the session's memory

cvars == <<phase, block>>

CInit == phase = "idle" /\ block = "none"

\* sipsess_connect or sipsess_accept: the user has a session.
Open == phase = "idle" /\ phase' = "setup" /\ block' = "live"

\* They failed: the user never has one and nothing is left behind.
OpenFails == phase = "idle" /\ phase' = "over" /\ block' = "freed"

Establish == phase = "setup" /\ phase' = "talking" /\ UNCHANGED block

\* closeh or the user's release; the memory may go at once or later.
Finish ==
  /\ phase \in {"setup", "talking"}
  /\ phase' = "over"
  /\ block' \in {"live", "freed"}

Reclaim == phase = "over" /\ block = "live" /\ block' = "freed" /\ UNCHANGED phase

CNext == Open \/ OpenFails \/ Establish \/ Finish \/ Reclaim

CSafe == CInit /\ [][CNext]_cvars
CSpec == CSafe /\ WF_cvars(Reclaim)
=============================================================================
