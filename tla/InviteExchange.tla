--------------------------- MODULE InviteExchange ---------------------------
(***************************************************************************)
(* One INVITE between two of these phones over UDP: the caller's request   *)
(* and client transactions (re/src/sip/request.c, ctrans.c), the callee's  *)
(* server transaction (strans.c), the 2xx and its ACK, which the sessions  *)
(* repeat themselves (re/src/sipsess/sipsess_reply.c, ack.c), and a        *)
(* network that loses, duplicates and reorders.                            *)
(*                                                                         *)
(* The request has one destination; provisional responses are one message, *)
(* and so are the responses of 300 and above.                              *)
(***************************************************************************)
EXTENDS Naturals, Sequences, FiniteSets, SequencesExt

CONSTANT MaxFailed  \* Bound: how many responses of the callee cannot be sent

ASSUME MaxFailedAssumption == MaxFailed \in Nat

VARIABLES
  ct,        \* the state of the INVITE's client transaction
  tmr,       \* its ct->tmr
  flags,     \* which of provrecv and canceled are set in the struct sip_request
  told,      \* ghost: what resph was called with, repeated progress left out
  cancelct,  \* the state of the CANCEL's client transaction
  ack,       \* the struct sipsess_ack that can repeat the ACK of a 2xx
  peer,      \* whose 2xx the caller's dialog was made from (the tag), 0: nobody's
  st,        \* the state of the INVITE's server transaction
  life,      \* which session of the callee that transaction has: the second one
             \* once it was forgotten while a copy of the INVITE was under way
  uas,       \* what became of each session; while one is "answered", a
             \* struct sipsess_reply repeats its 2xx
  offered,   \* ghost: how often connh was called
  failed,    \* ghost: how many responses of the callee could not be sent
  net        \* the messages under way

client == <<ct, tmr, flags, told, cancelct, ack, peer>>
server == <<st, life, uas, offered, failed>>
vars == <<client, server, net>>

\* A 2xx and its ACK carry the tag of the session; the other responses only
\* have to match the transaction.
Lives == 1..2
Ok(i) == IF i = 1 THEN "2xx" ELSE "second 2xx"
AckOk(i) == IF i = 1 THEN "ACK of 2xx" ELSE "ACK of second 2xx"

Requests == {"INVITE", "CANCEL", "ACK", AckOk(1), AckOk(2)}
Responses == {"1xx", Ok(1), Ok(2), "fail", "CANCEL answered"}
Finals == {"ok", "refused", "error"}

Active == ct \in {"calling", "proceeding"}
Over == \E f \in Finals : Contains(told, f)

\* resph is called.  A final result is recorded each time, told before or not.
Tell(what) ==
  told' = IF what = "progress" /\ told # <<>> /\ Last(told) = "progress"
          THEN told ELSE Append(told, what)

\* A message that arrives stays under way: it can arrive again.
Arrives(m) == m \in net
Send(ms) == net' = net \cup ms

Init ==
  /\ ct = "calling" /\ tmr = "on"
  /\ flags = {} /\ told = <<>>
  /\ cancelct = "none" /\ ack = "none" /\ peer = 0
  /\ st = "none" /\ life = 1 /\ uas = [i \in Lives |-> "idle"]
  /\ offered = 0 /\ failed = 0
  /\ net = {"INVITE"}

-----------------------------------------------------------------------------
(***************************************************************************)
(* The caller.                                                             *)
(***************************************************************************)

\* retransmit_handler: the INVITE again; if that fails the user is told.
Retransmit ==
  /\ ct = "calling"
  /\ \/ Send({"INVITE"}) /\ UNCHANGED client
     \/ /\ ct' = "gone" /\ tmr' = "off" /\ Tell("error")
        /\ UNCHANGED <<flags, cancelct, ack, peer, net>>
  /\ UNCHANGED server

\* tmr_handler of the INVITE.
ClientTimeout ==
  /\ tmr = "on"
  /\ IF Active THEN Tell("error") ELSE UNCHANGED told
  /\ ct' = "gone" /\ tmr' = "off"
  /\ UNCHANGED <<flags, cancelct, ack, peer, server, net>>

\* sip_ctrans_cancel: the INVITE gets a deadline, the CANCEL a transaction.
\* Mutant: no deadline.

SendCancelNoDeadline(state) ==
  IF state # "proceeding" THEN UNCHANGED <<tmr, cancelct, net>>
  ELSE /\ UNCHANGED tmr
       /\ \/ Send({"CANCEL"}) /\ cancelct' = "trying"
          \/ UNCHANGED <<cancelct, net>>

SendCancel(state) ==
  IF state # "proceeding" THEN UNCHANGED <<tmr, cancelct, net>>
  ELSE /\ tmr' = "on"
       /\ \/ Send({"CANCEL"}) /\ cancelct' = "trying"
          \/ UNCHANGED <<cancelct, net>>

\* sip_request_cancel; before a provisional response it only leaves a note.
RequestCancel ==
  /\ ~Over /\ "canceled" \notin flags
  /\ flags' = flags \cup {"canceled"}
  /\ IF "provrecv" \in flags THEN SendCancel(ct) ELSE UNCHANGED <<tmr, cancelct, net>>
  /\ UNCHANGED <<ct, told, ack, peer, server>>

\* A provisional response; the first one after a cancel sends the CANCEL.
\* Mutant: every one stops the deadline.
ProvisionalStops ==
  /\ Arrives("1xx") /\ Active
  /\ ct' = "proceeding" /\ flags' = flags \cup {"provrecv"} /\ Tell("progress")
  /\ IF flags = {"canceled"} THEN SendCancel("proceeding")
     ELSE tmr' = "off" /\ UNCHANGED <<cancelct, net>>
  /\ UNCHANGED <<ack, peer, server>>

Provisional ==
  /\ Arrives("1xx") /\ Active
  /\ ct' = "proceeding" /\ flags' = flags \cup {"provrecv"} /\ Tell("progress")
  /\ IF flags = {"canceled"} THEN SendCancel("proceeding")
     ELSE /\ tmr' = IF ct = "calling" THEN "off" ELSE tmr
          /\ UNCHANGED <<cancelct, net>>
  /\ UNCHANGED <<ack, peer, server>>

\* A 2xx ends the transaction; invite_resp_handler acknowledges it.
Success(i) ==
  /\ Arrives(Ok(i)) /\ Active
  /\ ct' = "gone" /\ tmr' = "off" /\ Tell("ok") /\ peer' = i
  /\ \/ Send({AckOk(i)}) /\ ack' = "kept"
     \/ UNCHANGED <<ack, net>>
  /\ UNCHANGED <<flags, cancelct, server>>

\* A 2xx that no transaction waits for: sipsess_ack_again, if it is remembered and
\* of the same dialog.
SuccessAgain(i) ==
  /\ Arrives(Ok(i)) /\ ct = "gone" /\ ack = "kept" /\ peer = i
  /\ Send({AckOk(i)})
  /\ UNCHANGED <<client, server>>

\* Any other final response is acknowledged each time, and told once.
\* Mutant: told each time.
FailureTells ==
  /\ Arrives("fail") /\ ct # "gone"
  /\ ct' = "completed" /\ tmr' = "on" /\ Tell("refused")
  /\ Send({"ACK"})
  /\ UNCHANGED <<flags, cancelct, ack, peer, server>>

Failure ==
  /\ Arrives("fail") /\ ct # "gone"
  /\ ct' = "completed" /\ tmr' = "on"
  /\ IF Active THEN Tell("refused") ELSE UNCHANGED told
  /\ Send({"ACK"})
  /\ UNCHANGED <<flags, cancelct, ack, peer, server>>

\* The transaction of the CANCEL; its handler is a dummy.
CancelRetransmit ==
  /\ cancelct = "trying"
  /\ \/ Send({"CANCEL"}) /\ UNCHANGED client
     \/ /\ cancelct' = "gone"
        /\ UNCHANGED <<ct, tmr, flags, told, ack, peer, net>>
  /\ UNCHANGED server

CancelAnswered ==
  /\ Arrives("CANCEL answered") /\ cancelct = "trying"
  /\ cancelct' = "completed"
  /\ UNCHANGED <<ct, tmr, flags, told, ack, peer, server, net>>

CancelTimeout ==
  /\ cancelct \in {"trying", "completed"}
  /\ cancelct' = "gone"
  /\ UNCHANGED <<ct, tmr, flags, told, ack, peer, server, net>>

\* tmr_handler of the struct sipsess_ack.
AckForgotten ==
  /\ ack = "kept"
  /\ ack' = "none"
  /\ UNCHANGED <<ct, tmr, flags, told, cancelct, peer, server, net>>

-----------------------------------------------------------------------------
(***************************************************************************)
(* The callee.                                                             *)
(***************************************************************************)

\* sip_strans_reply: the response is sent and kept; if it cannot be sent the
\* transaction is gone, and the session is left where nothing reaches it.
Become(session) == uas' = [uas EXCEPT ![life] = session]
Reply(state, session, ms) ==
  \/ st' = state /\ Become(session) /\ Send(ms) /\ UNCHANGED <<life, failed>>
  \/ /\ failed < MaxFailed
     /\ st' = "none" /\ Become("idle") /\ failed' = failed + 1
     /\ Send(ms \cap {"CANCEL answered"}) /\ UNCHANGED life

\* A new INVITE goes to connh, which lets it ring or refuses it.
Offer ==
  /\ Arrives("INVITE") /\ st = "none"
  /\ offered' = offered + 1
  /\ \/ Reply("proceeding", "ringing", {"1xx"})
     \/ Reply("completed", "refused", {"fail"})
  /\ UNCHANGED client

\* One that matches a transaction gets the last response again.
Repeat ==
  /\ Arrives("INVITE")
  /\ \/ st = "proceeding" /\ Send({"1xx"})
     \/ st = "completed" /\ Send({"fail"})
  /\ UNCHANGED <<client, server>>

\* sipsess_progress, sipsess_answer and the refusals of the session's user.
Progress ==
  /\ st = "proceeding"
  /\ Reply("proceeding", "ringing", {"1xx"})
  /\ UNCHANGED <<client, offered>>

\* Mutant: a 2xx ends the server transaction at once.
AnswerEnds ==
  /\ st = "proceeding"
  /\ Reply("none", "answered", {Ok(life)})
  /\ UNCHANGED <<client, offered>>

Answer ==
  /\ st = "proceeding"
  /\ Reply("accepted", "answered", {Ok(life)})
  /\ UNCHANGED <<client, offered>>

Reject ==
  /\ st = "proceeding"
  /\ Reply("completed", "refused", {"fail"})
  /\ UNCHANGED <<client, offered>>

\* cancel_handler: every CANCEL is answered, only an unanswered INVITE ends.
\* Mutant: an answered one too.
CancelArrivesAlways ==
  /\ Arrives("CANCEL")
  /\ IF st \in {"proceeding", "accepted"}
     THEN Reply("completed", "cancelled", {"CANCEL answered", "fail"})
     ELSE Send({"CANCEL answered"}) /\ UNCHANGED <<st, life, uas, failed>>
  /\ UNCHANGED <<client, offered>>

CancelArrives ==
  /\ Arrives("CANCEL")
  /\ IF st = "proceeding"
     THEN Reply("completed", "cancelled", {"CANCEL answered", "fail"})
     ELSE Send({"CANCEL answered"}) /\ UNCHANGED <<st, life, uas, failed>>
  /\ UNCHANGED <<client, offered>>

\* The ACK of a failure ends with the transaction, the ACK of a 2xx has a branch
\* of its own and goes to the session.
AckOfFailure ==
  /\ Arrives("ACK") /\ st = "completed"
  /\ st' = "confirmed"
  /\ UNCHANGED <<client, life, uas, offered, failed, net>>

AckOfSuccess(i) ==
  /\ Arrives(AckOk(i)) /\ uas[i] = "answered"
  /\ uas' = [uas EXCEPT ![i] = "confirmed"]
  /\ UNCHANGED <<client, st, life, offered, failed, net>>

\* The retransmit_handlers of the server transaction and of the 2xx.
FailureRetransmit == st = "completed" /\ Send({"fail"}) /\ UNCHANGED <<client, server>>
SuccessRetransmit(i) == uas[i] = "answered" /\ Send({Ok(i)}) /\ UNCHANGED <<client, server>>

\* tmr_handler of the struct sipsess_reply: no ACK has come.
ReplyTimeout(i) ==
  /\ uas[i] = "answered"
  /\ uas' = [uas EXCEPT ![i] = "unacked"]
  /\ UNCHANGED <<client, st, life, offered, failed, net>>

\* tmr_handler of the server transaction.  What the timers say of the caller: it runs
\* for 64*T1 from a final response, the client's for 64*T1 from its first INVITE, so
\* the caller does not send the INVITE any more.  But its last copy, sent after
\* 63*T1, can stay under way for T4, and then it finds no transaction.  That is so
\* once: a second transaction ends 64*T1 later, and one that has an ACK has waited
\* for T4 after the last INVITE.
Expires(states) ==
  /\ st \in states
  /\ ct # "calling"
  /\ "INVITE" \in net => life = 1 /\ st # "confirmed"
  /\ st' = "none"
  /\ life' = IF "INVITE" \in net THEN 2 ELSE life
  /\ UNCHANGED <<client, uas, offered, failed, net>>

\* Mutant: not once the ACK has come.
ServerTimeoutUnconfirmed == Expires({"accepted", "completed"})

ServerTimeout == Expires({"accepted", "completed", "confirmed"})

-----------------------------------------------------------------------------
\* Messages do not stay under way.
Lose(m) == m \in net /\ net' = net \ {m} /\ UNCHANGED <<client, server>>

Caller ==
  \/ Retransmit \/ ClientTimeout \/ RequestCancel
  \/ Provisional \/ (\E i \in Lives : Success(i) \/ SuccessAgain(i)) \/ Failure
  \/ CancelRetransmit \/ CancelAnswered \/ CancelTimeout \/ AckForgotten

CalleeSteps ==
  \/ Offer \/ Repeat \/ Progress \/ Answer \/ Reject \/ CancelArrives
  \/ AckOfFailure \/ FailureRetransmit \/ ServerTimeout
  \/ \E i \in Lives : AckOfSuccess(i) \/ SuccessRetransmit(i) \/ ReplyTimeout(i)

Next == Caller \/ CalleeSteps \/ \E m \in Requests \cup Responses : Lose(m)

Spec == Init /\ [][Next]_vars

\* Timers that run expire, and every message leaves the network; nobody has to
\* answer, and no message has to arrive.
Fairness ==
  /\ WF_vars(ClientTimeout) /\ WF_vars(ServerTimeout)
  /\ \A i \in Lives : WF_vars(ReplyTimeout(i))
  /\ \A m \in Requests \cup Responses : WF_vars(Lose(m))

FairSpec == Spec /\ Fairness

-----------------------------------------------------------------------------
(***************************************************************************)
(* Properties.                                                             *)
(***************************************************************************)
TypeOK ==
  /\ ct \in {"calling", "proceeding", "completed", "gone"}
  /\ cancelct \in {"none", "trying", "completed", "gone"}
  /\ tmr \in {"off", "on"} /\ ack \in {"none", "kept"} /\ peer \in {0} \cup Lives
  /\ flags \subseteq {"provrecv", "canceled"}
  /\ told \in Seq({"progress"} \cup Finals)
  /\ st \in {"none", "proceeding", "accepted", "completed", "confirmed"}
  /\ life \in Lives
  /\ uas \in [Lives -> {"idle", "ringing", "answered", "confirmed", "unacked",
                       "refused", "cancelled"}]
  /\ offered \in Nat /\ failed \in 0..MaxFailed
  /\ net \subseteq Requests \cup Responses

\* resph is called with one final result, and after it with nothing, not even with
\* the same result again; and it is called as soon as no transaction is left to call
\* it, however responses are repeated, crossed or late (invite_response,
\* response_handler, terminate).
ToldOnce ==
  /\ \A i \in DOMAIN told : told[i] \in Finals => i = Len(told)
  /\ Active <=> ~Over

\* Both ends agree, also when a late copy of the INVITE made a second session: the
\* caller is in a dialog with a session that answered, and hears of a refusal only if
\* there was one; the callee takes a 2xx or a failure for acknowledged only if the
\* caller got it from that session; and a call is cancelled only if the caller asked
\* for it.
Agreement ==
  /\ Contains(told, "ok") <=> peer # 0
  /\ \A i \in Lives :
       /\ peer = i => uas[i] \in {"answered", "confirmed", "unacked"}
       /\ uas[i] = "confirmed" => peer = i
       /\ uas[i] = "cancelled" => "canceled" \in flags
  /\ Contains(told, "refused") => \E i \in Lives : uas[i] \in {"refused", "cancelled"}
  /\ st = "confirmed" => Contains(told, "refused")

\* One INVITE rings once, also if copies of it arrive during and after the call.  There
\* are two exceptions and no third: a response that could not be sent makes it ring
\* again, and so does, once, a copy that was sent just before the caller gave up and
\* comes when the transaction of a callee that had answered at once is forgotten.
RingsOnce == offered <= life + failed

\* An INVITE that waits for the callee has no timer; once the caller has cancelled
\* it has a deadline again, in whatever order cancel and responses came.
CancelHasDeadline == "canceled" \in flags /\ Active => tmr = "on"

\* The server transaction and what it holds go away once it has a final response.
Reclaimed == st \notin {"none", "proceeding"} ~> st = "none"

\* The exchange implements the contract, its liveness included.
CallerTold ==
  IF Contains(told, "ok") THEN "ok"
  ELSE IF Contains(told, "refused") THEN "refused"
  ELSE IF Contains(told, "error") THEN "failed" ELSE "calling"

Contract == INSTANCE InviteContract WITH
  caller <- CallerTold,
  callee <- uas,
  cancel <- "canceled" \in flags
ImplementsContract == Contract!Spec

\* To its user the request is one as RequestContract promises: the struct sip_request is
\* freed when resph has heard a final result, its transactions may go on.
Request == INSTANCE RequestContract WITH
  user <- IF Over THEN "told" ELSE "waiting",
  block <- IF Over THEN "freed" ELSE "live",
  cancel <- "canceled" \in flags
ImplementsRequest == Request!Running
=============================================================================
