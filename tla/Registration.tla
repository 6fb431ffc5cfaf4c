---------------------------- MODULE Registration ----------------------------
(***************************************************************************)
(* The registration of one user agent: baresip/src/reg.c, which holds at   *)
(* most one registration client at a time, and re/src/sipreg/reg.c, the    *)
(* client, which keeps REGISTER requests going until it is let go and then *)
(* takes the binding back before it frees itself.  A client that was let   *)
(* go and its successor talk to the same registrar about the same contact. *)
(*                                                                         *)
(* Time is counted in milliseconds and moves in steps of Tick.  The        *)
(* registrar, and the transactions that carry the requests to it, are the  *)
(* environment: a request is answered at once on this clock, or it is lost *)
(* and ends in an error later.                                             *)
(***************************************************************************)
EXTENDS Integers

CONSTANTS
  Clients,     \* 1..n: the clients that are allocated, one after the other (a bound)
  Interval,    \* acc->regint, seconds
  Grants,      \* what the registrar may grant of it, seconds
  MinExpires,  \* Min-Expires of a 423, seconds
  DefaultExpires,  \* DEFAULT_EXPIRES, seconds (3600)
  LoopMax,     \* failures in a row after which sip_request_loops gives up (16)
  Outbound,    \* reg->id > 0: the registrar's flow is kept alive
  Tick,        \* the step of the clock, milliseconds
  MaxFaults    \* a bound on lost, failed and refused requests

ASSUME ClientsAssumption == Clients \subseteq Nat \ {0}
ASSUME SecondsAssumption ==
  /\ Interval \in Nat \ {0}
  /\ Grants \subseteq Nat \ {0}
  /\ MinExpires \in Nat \ {0}
  /\ DefaultExpires \in Nat \ {0}
ASSUME NumbersAssumption ==
  LoopMax \in Nat \ {0} /\ Tick \in Nat \ {0} /\ MaxFaults \in Nat
\* The clock of the model is finer than the tenth of a binding that is left when it is
\* refreshed, as the milliseconds of the code are.
ASSUME TickAssumption == \A grant \in Grants : Tick <= 100 * grant
ASSUME OutboundAssumption == Outbound \in BOOLEAN

VARIABLES
  client,   \* struct sipreg of every client
  sipreg,   \* reg->sipreg: the client in use, 0 for none
  scode,    \* reg->scode: 0 ("none"), 2xx ("ok"), or a failure
  bound,    \* the registrar: milliseconds the binding is still good for
  lapsed,   \* ghost: a binding ran out while its client was registered
  misled,   \* ghost: a 2xx granted less than the client goes by, see Wait
  faults    \* ghost: lost, failed and refused requests so far

vars == <<client, sipreg, scode, bound, lapsed, misled, faults>>

\* 2xx, 401/407 that sip_auth_authenticate takes or does not take, 403, 423, others.
Answers == {"ok", "auth", "badauth", "forbidden", "brief", "other"}
\* How a 2xx lists the binding: with its interval, in the Contact or in the message,
\* without one, or not under the URI the client knows itself by.
Forms == {"own", "bare", "none"}
NoTimer == -1

Client ==
  [mem : {"none", "live", "freed"},     \* ghost: the block's life in mem.c
   terminated : BOOLEAN,
   registered : BOOLEAN,
   expires : Nat,                       \* seconds asked for, 0 to unregister
   failc : Nat,
   loops : 0..LoopMax,                  \* reg->ls.failc
   last : Answers \cup {"none"},        \* reg->ls.last_scode
   cred : BOOLEAN,                      \* reg->auth knows the realm
   req : {"none", "sent", "lost"} \cup Answers,  \* reg->req, and its answer under way
   grant : Nat,                         \* what a 2xx under way grants
   form : Forms,                        \* and how it says so
   tmr : Nat \cup {NoTimer},
   ka : BOOLEAN]                        \* reg->ka is running

Unused ==
  [mem |-> "none", terminated |-> FALSE, registered |-> FALSE, expires |-> 0,
   failc |-> 0, loops |-> 0, last |-> "none", cred |-> FALSE, req |-> "none",
   grant |-> 0, form |-> "none", tmr |-> NoTimer, ka |-> FALSE]

Live(i) == client[i].mem = "live"
Pending(r) == r.req # "none"

\* failwait: milliseconds, between half and all of a time that doubles up to 300 s.
FailWaits(failc) ==
  LET most == IF failc < 4 THEN <<30, 60, 120, 240>>[failc + 1] ELSE 300
  IN  {most * 500, most * 1000}

(***************************************************************************)
(* Requests and the end of a client.  ok says whether sip_drequestf could  *)
(* send.                                                                   *)
(***************************************************************************)
Request(r, ok, reset) ==
  [r EXCEPT !.expires = IF r.terminated THEN 0 ELSE @,
            !.loops = IF reset THEN 0 ELSE @,
            !.last = IF reset THEN "none" ELSE @,
            !.req = IF ok THEN "sent" ELSE "none"]

\* The block is gone, with all that it held.
Freed == [Unused EXCEPT !.mem = "freed"]

\* mem_deref, the destructor: it keeps the client for a request that is pending,
\* and for the one that takes the binding back.
Destroy(r, ok) ==
  LET t == [r EXCEPT !.terminated = TRUE, !.tmr = NoTimer]
  IN  IF r.terminated THEN Freed
      ELSE IF Pending(r) THEN t
      ELSE IF r.registered /\ ok THEN Request(t, TRUE, TRUE)
      ELSE Freed

\* The end of response_handler; wait is reg->wait.
\* Mutant: a client let go while its request was pending is freed with the answer.
OutGivesUp(r, wait, ok) ==
  IF r.expires = 0 \/ r.terminated THEN Freed ELSE [r EXCEPT !.tmr = wait]

Out(r, wait, ok) ==
  IF r.expires = 0 THEN Destroy(r, ok)
  ELSE IF ~r.terminated THEN [r EXCEPT !.tmr = wait]
  ELSE IF r.registered /\ ok THEN Request(r, TRUE, TRUE)
  ELSE Freed

\* sip_request_loops of an answer: counted, and given up on.
Looping(r, answer) ==
  \/ r.loops + 1 >= LoopMax
  \/ answer \notin {"auth", "badauth"} /\ answer = r.last
Counted(r, answer) ==
  [r EXCEPT !.req = "none", !.last = answer,
            !.loops = IF @ < LoopMax THEN @ + 1 ELSE @]
Failure(r) == [r EXCEPT !.req = "none", !.failc = @ + 1]

\* resph: the handler of the user until the client is let go, dummy_handler after.
\* Mutant: the destructor leaves the handler installed.
TellsAlways(r, s) == s
Tells(r, s) == IF r.terminated THEN scode ELSE s

Sends(ok) ==
  /\ ok \in BOOLEAN
  /\ ok \/ faults < MaxFaults
  /\ faults' = IF ok THEN faults ELSE faults + 1

Becomes(i, r) == client' = [client EXCEPT ![i] = r]

Init ==
  /\ client = [i \in Clients |-> Unused]
  /\ sipreg = 0
  /\ scode = "none"
  /\ bound = 0
  /\ lapsed = FALSE
  /\ misled = FALSE
  /\ faults = 0

(***************************************************************************)
(* The user agent.                                                         *)
(***************************************************************************)
\* The client in use, if there is one, loses its only owner.
Dropped(ok) ==
  IF sipreg = 0 THEN client
  ELSE [client EXCEPT ![sipreg] = Destroy(@, ok)]

\* ua_register: first start, a command, or a new address of the network.
Register(i, ok, first) ==
  /\ client[i].mem = "none" /\ \A j \in Clients : j < i => client[j].mem # "none"
  /\ first \in BOOLEAN /\ Sends(ok /\ first)
  /\ LET new == [Unused EXCEPT !.mem = "live", !.expires = Interval]
     IN  /\ client' = [Dropped(ok) EXCEPT ![i] =
                        IF first THEN Request(new, TRUE, TRUE) ELSE Freed]
         /\ sipreg' = IF first THEN i ELSE 0
  /\ scode' = "none"
  /\ UNCHANGED <<bound, lapsed, misled>>

\* ua_unregister; also the user agent's own end.
Unregister(ok) ==
  /\ sipreg # 0
  /\ Sends(ok)
  /\ client' = Dropped(ok)
  /\ sipreg' = 0
  /\ scode' = "none"
  /\ UNCHANGED <<bound, lapsed, misled>>

(***************************************************************************)
(* The client's handlers.                                                  *)
(***************************************************************************)
\* tmr_handler.
\* Mutant: it does not try again when the request cannot be sent.
RefreshOnce(i, ok, wait) ==
  /\ Live(i) /\ client[i].tmr = 0
  /\ Sends(ok)
  /\ wait \in FailWaits(client[i].failc + 1)
  /\ Becomes(i, Request([client[i] EXCEPT !.tmr = NoTimer], ok, TRUE))
  /\ scode' = IF ok THEN scode ELSE Tells(client[i], "fail")
  /\ UNCHANGED <<sipreg, bound, lapsed, misled>>

Refresh(i, ok, wait) ==
  /\ Live(i) /\ client[i].tmr = 0
  /\ Sends(ok)
  /\ wait \in FailWaits(client[i].failc + 1)
  /\ LET r == Request([client[i] EXCEPT !.tmr = NoTimer], ok, TRUE)
     IN  Becomes(i, IF ok THEN r ELSE [Failure(r) EXCEPT !.tmr = wait])
  /\ scode' = IF ok THEN scode ELSE Tells(client[i], "fail")
  /\ UNCHANGED <<sipreg, bound, lapsed, misled>>

\* keepalive_handler: the flow to the registrar broke.
\* Mutant: it waits to try again although a request is on its way.
FlowFailsTwice(i, wait) ==
  /\ Live(i) /\ client[i].ka
  /\ faults < MaxFaults /\ faults' = faults + 1
  /\ wait \in FailWaits(client[i].failc + 1)
  /\ LET r == [client[i] EXCEPT !.ka = FALSE]
     IN  IF r.terminated
         THEN Becomes(i, r) /\ UNCHANGED scode
         ELSE Becomes(i, [r EXCEPT !.failc = @ + 1, !.tmr = wait]) /\ scode' = Tells(r, "fail")
  /\ UNCHANGED <<sipreg, bound, lapsed, misled>>

FlowFails(i, wait) ==
  /\ Live(i) /\ client[i].ka
  /\ faults < MaxFaults /\ faults' = faults + 1
  /\ wait \in FailWaits(client[i].failc + 1)
  /\ LET r == [client[i] EXCEPT !.ka = FALSE]
     IN  IF Pending(r) \/ r.terminated
         THEN Becomes(i, r) /\ UNCHANGED scode
         ELSE Becomes(i, [r EXCEPT !.failc = @ + 1, !.tmr = wait]) /\ scode' = Tells(r, "fail")
  /\ UNCHANGED <<sipreg, bound, lapsed, misled>>

\* response_handler with err, after the transaction timed out or could not go on.
Fails(i, ok, wait) ==
  /\ Live(i) /\ client[i].req = "lost"
  /\ Sends(ok)
  /\ wait \in FailWaits(client[i].failc + 1)
  /\ Becomes(i, Out(Failure(client[i]), wait, ok))
  /\ scode' = Tells(client[i], "fail")
  /\ UNCHANGED <<sipreg, bound, lapsed, misled>>

\* reg->wait of a 2xx, in seconds: contact_handler takes the interval of the Contact that
\* equals the client's own URI; if there is none, the one asked for stays.
Wait(r) ==
  CASE r.form = "own" -> r.grant
    [] r.form = "bare" -> DefaultExpires
    [] r.form = "none" -> r.expires

\* 2xx.
\* Mutant: the next refresh follows the interval asked for, whatever the answer says.
AcceptedAsAsked(i, ok, keep) ==
  /\ Live(i) /\ client[i].req = "ok"
  /\ Sends(ok)
  /\ keep \in BOOLEAN /\ (keep => Outbound /\ ~client[i].terminated)
  /\ LET r == [client[i] EXCEPT !.req = "none", !.registered = TRUE, !.failc = 0,
                                !.loops = 0, !.last = "ok", !.ka = @ \/ keep,
                                !.grant = 0, !.form = "none"]
     IN  Becomes(i, Out(r, r.expires * 900, ok))
  /\ scode' = Tells(client[i], "ok")
  /\ UNCHANGED <<sipreg, bound, lapsed, misled>>

Accepted(i, ok, keep) ==
  /\ Live(i) /\ client[i].req = "ok"
  /\ Sends(ok)
  /\ keep \in BOOLEAN /\ (keep => Outbound /\ ~client[i].terminated)
  /\ LET r == [client[i] EXCEPT !.req = "none", !.registered = TRUE, !.failc = 0,
                                !.loops = 0, !.last = "ok", !.ka = @ \/ keep,
                                !.grant = 0, !.form = "none"]
     IN  Becomes(i, Out(r, Wait(client[i]) * 900, ok))
  /\ scode' = Tells(client[i], "ok")
  /\ UNCHANGED <<sipreg, bound, lapsed, misled>>

\* A failure response that is not retried at once: reported and waited after.
Refused(i, ok, wait) ==
  LET r == client[i]
      loops == Looping(r, r.req)
      given == r.terminated /\ ~r.registered   \* nothing to take back
      seen == ~loops /\ ~given                 \* the switch on the code is reached
      c == Counted(r, r.req)
  IN  /\ Live(i) /\ r.req \in Answers \ {"ok"}
      /\ Sends(ok)
      /\ wait \in FailWaits(r.failc + 1)
      /\ \/ loops
         \/ given
         \/ r.req \in {"badauth", "forbidden", "other"}
         \/ r.req = "brief" /\ r.expires = 0
      /\ Becomes(i, Out([c EXCEPT !.failc = IF given /\ ~loops THEN @ ELSE @ + 1,
                                  !.cred = @ /\ ~(seen /\ r.req \in {"badauth", "forbidden"})],
                        wait, ok))
      /\ scode' = Tells(r, "fail")
      /\ UNCHANGED <<sipreg, bound, lapsed, misled>>

\* 401 and 407 are answered with credentials, 423 with the longer interval.
Retries(i, ok, wait) ==
  LET r == client[i]
      c == IF r.req = "auth" THEN [Counted(r, "auth") EXCEPT !.cred = TRUE]
           ELSE [Counted(r, "brief") EXCEPT !.expires = MinExpires]
      again == Request(c, ok, FALSE)
  IN  /\ Live(i) /\ r.req \in {"auth", "brief"}
      /\ ~Looping(r, r.req) /\ (r.terminated => r.registered)
      /\ r.req = "brief" => r.expires # 0
      /\ Sends(ok)
      /\ wait \in FailWaits(r.failc + 1)
      /\ Becomes(i, IF ok THEN again ELSE Out(Failure(again), wait, ok))
      /\ scode' = IF ok THEN scode ELSE Tells(r, "fail")
      /\ UNCHANGED <<sipreg, bound, lapsed, misled>>

(***************************************************************************)
(* The registrar and time.                                                 *)
(***************************************************************************)
\* A REGISTER is granted: 0 removes the binding of the contact, whoever made it.
Grants2xx(i, grant, form) ==
  LET r == [client[i] EXCEPT !.req = "ok", !.grant = grant, !.form = form]
  IN  /\ Live(i) /\ client[i].req = "sent"
      /\ client[i].cred
      /\ IF client[i].expires = 0 THEN grant = 0 /\ form = "none"
         ELSE grant \in Grants /\ grant <= client[i].expires /\ form \in Forms
      /\ Becomes(i, r)
      /\ bound' = grant * 1000
      /\ misled' = (misled \/ Wait(r) > grant)
      /\ UNCHANGED <<sipreg, scode, lapsed, faults>>

\* A REGISTER without credentials is challenged.
Challenges(i) ==
  /\ Live(i) /\ client[i].req = "sent" /\ ~client[i].cred
  /\ Becomes(i, [client[i] EXCEPT !.req = "auth"])
  /\ UNCHANGED <<sipreg, scode, bound, lapsed, misled, faults>>

Denies(i, answer) ==
  /\ Live(i) /\ client[i].req = "sent"
  /\ answer \in Answers \ {"ok"}
  /\ answer = "brief" => client[i].expires \in 1..(MinExpires - 1)
  /\ faults < MaxFaults /\ faults' = faults + 1
  /\ Becomes(i, [client[i] EXCEPT !.req = answer])
  /\ UNCHANGED <<sipreg, scode, bound, lapsed, misled>>

\* The request, or the answer to it, never arrives.
Lose(i) ==
  /\ Live(i) /\ client[i].req \in Answers \cup {"sent"}
  /\ faults < MaxFaults /\ faults' = faults + 1
  /\ Becomes(i, [client[i] EXCEPT !.req = "lost", !.grant = 0, !.form = "none"])
  /\ UNCHANGED <<sipreg, scode, bound, lapsed, misled>>

Less(t) == IF t > Tick THEN t - Tick ELSE 0

\* Nothing is due: a timer that ran out fires and an answer arrives before.
TimePasses ==
  /\ \A i \in Clients : Live(i) => client[i].tmr # 0 /\ client[i].req \in {"none", "lost"}
  /\ bound > 0 \/ \E i \in Clients : Live(i) /\ client[i].tmr > 0
  /\ client' = [i \in Clients |->
                 IF Live(i) /\ client[i].tmr > 0
                 THEN [client[i] EXCEPT !.tmr = Less(@)] ELSE client[i]]
  /\ bound' = Less(bound)
  /\ lapsed' = (lapsed \/ (bound > 0 /\ bound' = 0 /\ sipreg # 0 /\ client[sipreg].registered))
  /\ UNCHANGED <<sipreg, scode, misled, faults>>

Handles(i) ==
  \/ \E ok \in BOOLEAN, wait \in FailWaits(client[i].failc + 1) :
       \/ Refresh(i, ok, wait)
       \/ Fails(i, ok, wait)
       \/ Refused(i, ok, wait)
       \/ Retries(i, ok, wait)
  \/ \E ok, keep \in BOOLEAN : Accepted(i, ok, keep)

Serves(i) ==
  Challenges(i) \/ \E grant \in Grants \cup {0}, form \in Forms : Grants2xx(i, grant, form)

Next ==
  \/ \E i \in Clients :
       \/ Handles(i)
       \/ Serves(i)
       \/ \E ok, first \in BOOLEAN : Register(i, ok, first)
       \/ \E wait \in FailWaits(client[i].failc + 1) : FlowFails(i, wait)
       \/ \E answer \in Answers : Denies(i, answer)
       \/ Lose(i)
  \/ \E ok \in BOOLEAN : Unregister(ok)
  \/ TimePasses

Spec == Init /\ [][Next]_vars

\* The main loop runs timers that are due and answers that arrived, the
\* registrar answers what reaches it, and time goes on.
FairSpec ==
  /\ Spec
  /\ \A i \in Clients : WF_vars(Handles(i)) /\ WF_vars(Serves(i))
  /\ WF_vars(TimePasses)

(***************************************************************************)
(* Properties.                                                             *)
(***************************************************************************)
TypeOK ==
  /\ client \in [Clients -> Client]
  /\ sipreg \in Clients \cup {0}
  /\ scode \in {"none", "ok", "fail"}
  /\ bound \in Nat
  /\ lapsed \in BOOLEAN
  /\ misled \in BOOLEAN
  /\ faults \in 0..MaxFaults

\* Every client that is alive has exactly one thing to wait for: a request, or a
\* timer that makes the next one; one that was let go has a request.  So no
\* refused refresh, broken flow or failed send of a client that is in use leaves
\* the phone unregistered for good, and no client that was let go is leaked
\* (re/src/sipreg/reg.c:101-251).  Only a first request that cannot be sent does:
\* ua_register gives its client up, and nothing tries again.
Attended ==
  \A i \in Clients : Live(i) =>
    /\ Pending(client[i]) <=> client[i].tmr = NoTimer
    /\ client[i].terminated => Pending(client[i])

\* baresip's view "registered" (reg_isok) is about the client in use, and that
\* one was accepted: no answer to the request with which an older client takes
\* its binding back is mistaken for it (baresip/src/reg.c:109-162).
StatusTrue ==
  scode = "ok" => sipreg # 0 /\ client[sipreg].registered /\ ~client[sipreg].terminated

\* A binding never runs out under the client that holds it unless a request was
\* lost, refused or could not be sent, or a 2xx granted less than it made the client
\* believe: it is refreshed within what the registrar granted, and said so in the
\* Contact of the client or by granting what was asked (re/src/sipreg/reg.c:142-192).
RefreshedInTime == lapsed => faults > 0 \/ misled

\* When every client is gone and none of their requests failed, the registrar
\* has no binding left: a client that was let go takes back what it asked for,
\* also when the answer that registers it comes later
\* (re/src/sipreg/reg.c:62-91, 239-246).
Unbound ==
  faults = 0 /\ (\A i \in Clients : ~Live(i)) => bound = 0

\* While the same client is in use, the registrar always gets its binding
\* (back), also after failures, and after an older client's unregister request
\* was served late and removed it.
Rebound == \A i \in Clients : (sipreg = i) ~> (bound > 0 \/ sipreg # i)
=============================================================================
