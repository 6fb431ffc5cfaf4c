---------------------------- MODULE MCEventLoop ----------------------------
(* Instance of EventLoop for TLC. *)
EXTENDS EventLoop

\* The user's timers are interchangeable.
UserTimers == Permutations(Timers \ {Net})
=============================================================================
