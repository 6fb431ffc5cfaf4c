----------------------------- MODULE SipSession -----------------------------
(***************************************************************************)
(* One SIP session of re/src/sipsess: an INVITE dialog, its pending        *)
(* requests, its unacknowledged 2xx replies, its re-INVITE retry timer and *)
(* the reference count that keeps its memory alive until all of them are   *)
(* done.  The environment is the transaction layer (which delivers         *)
(* responses, or an error), the peer (ACK, BYE, CANCEL, re-INVITE) and the *)
(* transaction user, baresip's struct call, which owns one reference and   *)
(* gives it back either of its own accord (hangup, local timeout, RTP      *)
(* timeout) or inside closeh (ua.c answers CALL_EVENT_CLOSED with          *)
(* mem_deref(call)).                                                       *)
(*                                                                         *)
(* Everything here runs on one thread, so every handler is one action.     *)
(* A handler nests: closeh releases the owner's reference, which may run   *)
(* the destructor, which may send a BYE.  The nesting is kept by writing   *)
(* each C function as an operator from session records to session records. *)
(***************************************************************************)
EXTENDS Integers, FiniteSets

CONSTANTS
  MaxSeq,    \* Bound: number of INVITEs the peer may send in the dialog
  LoopMax,   \* Failures after which sip_request_loops gives up (16 in the code)
  Infos      \* Slots for INFO requests the user may have pending at once

ASSUME MaxSeqAssumption  == MaxSeq \in Nat \ {0}
ASSUME LoopMaxAssumption == LoopMax \in Nat \ {0}

VARIABLES
  role,      \* sess->owner: "uac" after sipsess_connect, "uas" after sipsess_accept
  sess,      \* struct sipsess
  rseq,      \* highest CSeq of an INVITE received in the dialog
  ups        \* ghost: handlers of the user that the last step called

vars == <<role, sess, rseq, ups>>

Seqs  == 1..MaxSeq
Reply == [seq : Seqs, awaiting_answer : BOOLEAN]
Info  == [id : Infos, failc : 0..LoopMax]
Reqs  == {"none", "invite", "reinvite", "bye"}
Upcalls == {"progr", "offer", "answer", "estab", "close", "info", "resp"}

\* Final outcomes of a request, by what the response handlers tell apart:
\* 2xx, 3xx, 401/407, 408/481, 491, 500 with Retry-After, any other failure,
\* ETIMEDOUT, any other transport error.
Finals == {"ok", "redirect", "auth", "gone", "glare", "retry", "reject", "timeout", "error"}

\* A block is "dangling" when it was freed although work was pending that the
\* session should have waited for.
Blocks == {"none", "live", "freed", "dangling"}

Session ==
  [mem : Blocks,                      \* ghost: the block's life in mem.c
   refs : Nat,                        \* struct mem nrefs
   held : BOOLEAN,                    \* call->sess refers to this session
   terminated : 0..2,
   established : BOOLEAN,
   peerterm : BOOLEAN,
   awaiting_answer : BOOLEAN,
   modify_pending : BOOLEAN,
   desc : BOOLEAN,                    \* sess->desc is set
   sent_offer : BOOLEAN,
   st : BOOLEAN,                      \* sess->st is set: INVITE not answered
   req : Reqs,                        \* sess->req and the request it names
   tmr : BOOLEAN,                     \* sess->tmr is armed
   failc : 0..LoopMax,                \* sess->ls.failc
   replyl : SUBSET Reply,             \* 2xx replies without an ACK
   requestl : SUBSET Info,            \* pending INFO requests
   bye : {"none", "sent", "failed"}]  \* ghost: what became of our BYE

Fresh ==
  [mem |-> "none", refs |-> 0, held |-> FALSE, terminated |-> 0,
   established |-> FALSE, peerterm |-> FALSE, awaiting_answer |-> FALSE,
   modify_pending |-> FALSE, desc |-> FALSE, sent_offer |-> FALSE,
   st |-> FALSE, req |-> "none", tmr |-> FALSE, failc |-> 0,
   replyl |-> {}, requestl |-> {}, bye |-> "none"]

Live(s) == s.mem = "live"
Bit(b) == IF b THEN 1 ELSE 0

(***************************************************************************)
(* Requests.  ok says whether sip_drequestf could send; bok the same for a *)
(* BYE.                                                                    *)
(***************************************************************************)
SendRequest(s, kind, ok) ==
  [s EXCEPT !.req = IF ok THEN kind ELSE "none"]

\* The transaction layer clears sess->req before it calls the response handler.
Answered(s) == [s EXCEPT !.req = "none"]

\* sip_request_loops: true when the response is the LoopMax-th failure in a row.
\* (Its other test, the same failure code twice, cannot be met here: a request
\* follows a failure within one loop state only after a 3xx, 401 or 407.)
Loops(failc, r) == r # "ok" /\ failc + 1 >= LoopMax
FailCount(failc, r) ==
  IF r = "ok" THEN 0 ELSE IF failc < LoopMax THEN failc + 1 ELSE failc
Count(s, r) ==
  IF r \in {"timeout", "error"} THEN s ELSE [s EXCEPT !.failc = FailCount(s.failc, r)]

\* err, or sip_request_loops: the handlers jump straight to their exit.
Fails(failc, r) == r \in {"timeout", "error"} \/ Loops(failc, r)

\* What sipsess_reinvite and invite do before they send.
Offer(s) == [s EXCEPT !.sent_offer = s.desc, !.modify_pending = FALSE]
ResetLoops(s, reset) == IF reset THEN [s EXCEPT !.failc = 0] ELSE s

Invite(s, ok) == SendRequest(Offer(s), "invite", ok)

Reinvite(s, ok, reset) ==
  IF s.req # "none" THEN s
  ELSE SendRequest(ResetLoops(Offer(s), reset), "reinvite", ok)

Bye(s, ok, reset) ==
  LET r == ResetLoops(s, reset)
  IN  IF s.req # "none" THEN s
      ELSE SendRequest([r EXCEPT !.bye = IF ok THEN "sent" ELSE "failed"], "bye", ok)

(***************************************************************************)
(* The end of a session: termwait, terminate, the destructor and           *)
(* mem_deref, which runs it when the count drops to zero and frees the     *)
(* block only if the destructor did not take a reference.                  *)
(***************************************************************************)
HandlersInstalled(s) == s.terminated = 0
Call(s, k) == IF HandlersInstalled(s) THEN {k} ELSE {}

Waits(s) == Bit(s.req # "none") + Bit(s.replyl # {}) + Bit(s.requestl # {})

Silence(s) == [s EXCEPT !.terminated = 1, !.tmr = FALSE, !.st = FALSE]
\* Mutant: termwait without the reference for the INFO requests.
TermWaitNoInfo(s) ==
  [Silence(s) EXCEPT !.refs = @ + Bit(s.req # "none") + Bit(s.replyl # {})]

TermWait(s) == [Silence(s) EXCEPT !.refs = @ + Waits(s)]

\* Mutant: terminate sends the BYE without taking a reference for it.
TerminateNoRef(s, bok) ==
  LET t == [s EXCEPT !.terminated = 2]
  IN  IF ~s.established \/ s.peerterm \/ s.req # "none" THEN t ELSE Bye(t, bok, TRUE)

Terminate(s, bok) ==
  LET t == [s EXCEPT !.terminated = 2]
  IN  IF ~s.established \/ s.peerterm \/ s.req # "none" THEN t
      ELSE [Bye(t, bok, TRUE) EXCEPT !.refs = @ + Bit(bok)]

Pending(s) == s.req # "none" \/ s.replyl # {} \/ s.requestl # {}

Free(s) ==
  LET cleared == [s EXCEPT !.req = "none", !.replyl = {}, !.requestl = {}]
  IN  [cleared EXCEPT !.mem = IF Pending(s) THEN "dangling" ELSE "freed"]

\* Mutant: the destructor forgets to call terminate.
DestructorNoBye(s, bok) ==
  LET w == IF s.terminated = 0 THEN TermWait(s) ELSE s
  IN  IF w.refs = 0 THEN Free(w) ELSE w

Destructor(s, bok) ==
  LET w == IF s.terminated = 0 THEN TermWait(s) ELSE s
      t == IF w.refs = 0 /\ w.terminated = 1 THEN Terminate(w, bok) ELSE w
  IN  IF t.refs = 0 THEN Free(t) ELSE t

Deref(s, bok) ==
  LET d == [s EXCEPT !.refs = @ - 1]
  IN  IF d.refs = 0 THEN Destructor(d, bok) ELSE d

\* sipsess_terminate; the user's closeh drops the owner's reference.
SessTerminate(s, bok) ==
  LET w == TermWait(s)
      t == IF Waits(s) = 0 THEN Terminate(w, bok) ELSE w
  IN  Deref([t EXCEPT !.held = FALSE], bok)

\* Mutants: closeh not called at the end; called whatever the state.
OutSilent(s, bok) == Deref(s, bok)
OutCallsAlways(s) == {"close"}

\* The exit of the INVITE response handler.
Out(s, bok) == IF s.terminated = 0 THEN SessTerminate(s, bok) ELSE Deref(s, bok)
OutCalls(s) == IF s.terminated = 0 THEN {"close"} ELSE {}

-----------------------------------------------------------------------------
(***************************************************************************)
(* Replies to INVITE.                                                      *)
(***************************************************************************)
Reply2xx(s, seq, awaits, ok) ==
  IF ok THEN [s EXCEPT !.st = FALSE,
                       !.replyl = @ \cup {[seq |-> seq, awaiting_answer |-> awaits]},
                       !.awaiting_answer = @ \/ awaits]
        ELSE [s EXCEPT !.st = FALSE]

DropReply(s, r) == [s EXCEPT !.replyl = @ \ {r}]

-----------------------------------------------------------------------------
Init ==
  /\ role \in {"uac", "uas"}
  /\ sess = Fresh
  /\ rseq = 0
  /\ ups = {}

\* sipsess_connect: on an error the fresh session is dereferenced at once.
Connect(offer, ok) ==
  LET new == Invite([Fresh EXCEPT !.mem = "live", !.refs = 1, !.desc = offer], ok)
  IN  /\ role = "uac" /\ sess.mem = "none"
      /\ sess' = IF ok THEN [new EXCEPT !.held = TRUE] ELSE Deref(new, TRUE)
      /\ ups' = {}
      /\ UNCHANGED <<role, rseq>>

\* An INVITE outside a dialog; call_accept answers 180 through sipsess_accept.
Accept(ok) ==
  LET new == [Fresh EXCEPT !.mem = "live", !.refs = 1]
  IN  /\ role = "uas" /\ sess.mem = "none"
      /\ rseq' = 1
      /\ sess' = IF ok THEN [new EXCEPT !.held = TRUE, !.st = TRUE] ELSE Deref(new, TRUE)
      /\ ups' = {}
      /\ UNCHANGED role

\* sipsess_progress: a reply that cannot be sent loses the server transaction.
Progress(ok) ==
  /\ sess.held /\ sess.st
  /\ sess' = [sess EXCEPT !.st = ok]
  /\ ups' = {}
  /\ UNCHANGED <<role, rseq>>

\* sipsess_answer; offerless says that the INVITE carried no SDP offer.
Answer(offerless, ok) ==
  /\ sess.held /\ sess.st
  /\ sess' = Reply2xx(sess, 1, offerless, ok)
  /\ ups' = {}
  /\ UNCHANGED <<role, rseq>>

\* Mutant: the description is stored only when the re-INVITE goes out at once.
ModifyDescLost(ok) ==
  LET s == [sess EXCEPT !.desc = TRUE]
  IN  /\ sess.held /\ ~sess.st /\ sess.terminated = 0
      /\ sess' = IF s.req # "none" \/ s.tmr \/ s.replyl # {}
                 THEN [sess EXCEPT !.modify_pending = TRUE]
                 ELSE Reinvite(s, ok, TRUE)
      /\ ups' = {}
      /\ UNCHANGED <<role, rseq>>

\* sipsess_modify.
Modify(ok) ==
  LET s == [sess EXCEPT !.desc = TRUE]
  IN  /\ sess.held /\ ~sess.st /\ sess.terminated = 0
      /\ sess' = IF s.req # "none" \/ s.tmr \/ s.replyl # {}
                 THEN [s EXCEPT !.modify_pending = TRUE]
                 ELSE Reinvite(s, ok, TRUE)
      /\ ups' = {}
      /\ UNCHANGED <<role, rseq>>

\* sipsess_info: only in a dialog whose remote tag is known.
SendInfo(i) ==
  /\ sess.held /\ sess.terminated = 0
  /\ role = "uas" \/ sess.established
  /\ \A r \in sess.requestl : r.id # i
  /\ sess' = [sess EXCEPT !.requestl = @ \cup {[id |-> i, failc |-> 0]}]
  /\ ups' = {}
  /\ UNCHANGED <<role, rseq>>

\* The user gives its reference back outside any handler: ua_hangup (which
\* first rejects an unanswered INVITE), local timeout, RTP timeout.
Release(bok) ==
  /\ sess.held
  /\ sess' = Deref([sess EXCEPT !.held = FALSE, !.st = FALSE], bok)
  /\ ups' = {}
  /\ UNCHANGED <<role, rseq>>

-----------------------------------------------------------------------------
(***************************************************************************)
(* Responses.                                                              *)
(***************************************************************************)
\* A 1xx: only invite_resp_handler looks at it.
RecvProvisional ==
  /\ sess.req # "none"
  /\ ups' = IF sess.req = "invite" THEN Call(sess, "progr") ELSE {}
  /\ UNCHANGED <<role, sess, rseq>>

\* invite_resp_handler on 2xx: the dialog is created (dok), the description
\* goes to answerh or offerh and the ACK is sent (cok: both succeeded).
InviteOk(dok, cok, ok, bok) ==
  LET a == Count(Answered(sess), "ok")
      e == [a EXCEPT !.established = TRUE,
                     !.modify_pending = @ /\ a.sent_offer]
      leave == ~cok \/ a.terminated # 0
  IN  /\ sess.req = "invite"
      /\ IF ~dok
         THEN /\ sess' = Out(a, bok)
              /\ ups' = OutCalls(a)
         ELSE /\ sess' = IF leave THEN Out(e, bok)
                         ELSE IF e.modify_pending THEN Reinvite(e, ok, TRUE)
                         ELSE [e EXCEPT !.desc = FALSE]
              /\ ups' = Call(a, IF a.sent_offer THEN "answer" ELSE "offer")
                          \cup (IF leave THEN OutCalls(e) ELSE Call(e, "estab"))
      /\ UNCHANGED <<role, rseq>>

\* invite_resp_handler on anything else: a redirection, or a challenge the
\* account can answer, is followed by another INVITE (tried: it was attempted,
\* ok: it was sent); the rest ends the session.
InviteFail(r, tried, ok, bok) ==
  LET a == Count(Answered(sess), r)
      again == /\ r \in {"redirect", "auth"} /\ tried
               /\ ~Fails(sess.failc, r) /\ a.terminated = 0
  IN  /\ sess.req = "invite" /\ r # "ok"
      /\ sess' = IF again /\ ok THEN Invite(a, TRUE)
                 ELSE Out(IF again THEN Invite(a, FALSE) ELSE a, bok)
      /\ ups' = IF again /\ ok THEN {} ELSE OutCalls(a)
      /\ UNCHANGED <<role, rseq>>

\* Mutant: the handler does not look at modify_pending.
ReinviteOutForgets(s, r, ok, bok) ==
  IF s.terminated # 0 THEN Deref(s, bok)
  ELSE IF r = "timeout" THEN SessTerminate(s, bok)
  ELSE [s EXCEPT !.desc = FALSE]

\* The exit of the re-INVITE response handler; r is what led there.
ReinviteOut(s, r, ok, bok) ==
  IF s.terminated # 0 THEN Deref(s, bok)
  ELSE IF r = "timeout" THEN SessTerminate(s, bok)
  ELSE IF s.modify_pending THEN Reinvite(s, ok, TRUE)
  ELSE [s EXCEPT !.desc = FALSE]

\* reinvite_resp_handler on 2xx: whatever answerh and the ACK return is ignored.
ReinviteOk(ok, bok) ==
  LET a == Count(Answered(sess), "ok")
      e == [a EXCEPT !.modify_pending = @ /\ a.sent_offer]
  IN  /\ sess.req = "reinvite"
      /\ sess' = ReinviteOut(e, "ok", ok, bok)
      /\ ups' = Call(a, IF a.sent_offer THEN "answer" ELSE "offer")
      /\ UNCHANGED <<role, rseq>>

\* reinvite_resp_handler on anything else.
ReinviteFail(r, tried, ok, bok) ==
  LET a == Count(Answered(sess), r)
      handled == ~Fails(sess.failc, r) /\ a.terminated = 0
      ends == \/ handled /\ r = "gone"
              \/ r = "timeout" /\ a.terminated = 0
  IN  /\ sess.req = "reinvite" /\ r # "ok"
      /\ sess' = IF handled /\ r = "gone" THEN SessTerminate(a, bok)
                 ELSE IF handled /\ r \in {"glare", "retry"} THEN [a EXCEPT !.tmr = TRUE]
                 ELSE IF handled /\ r = "auth" /\ tried
                      THEN IF ok THEN Reinvite(a, TRUE, FALSE)
                           ELSE ReinviteOut(Reinvite(a, FALSE, FALSE), "auth", ok, bok)
                 ELSE ReinviteOut(a, r, ok, bok)
      /\ ups' = IF ends THEN {"close"} ELSE {}
      /\ UNCHANGED <<role, rseq>>

\* bye_resp_handler: only a challenge we can answer keeps the session waiting.
ByeFinal(r, tried, ok) ==
  LET a == Count(Answered(sess), r)
      again == /\ r = "auth" /\ tried /\ ~Fails(sess.failc, r) /\ ~a.peerterm
      b == Bye(a, ok, FALSE)
  IN  /\ sess.req = "bye"
      /\ sess' = IF again /\ ok THEN b ELSE Deref(IF again THEN b ELSE a, ok)
      /\ ups' = {}
      /\ UNCHANGED <<role, rseq>>

\* Mutant: the reference is never given back.
DropInfoLeaks(s, i, bok) == [s EXCEPT !.requestl = @ \ {i}]

\* Destroying a struct sipsess_request gives back the reference the session
\* took for its request list when it was the last one on it.
DropInfo(s, i, bok) ==
  LET d == [s EXCEPT !.requestl = @ \ {i}]
  IN  IF d.terminated # 0 /\ d.requestl = {} THEN Deref(d, bok) ELSE d

\* info_resp_handler.
InfoFinal(i, r, again, bok) ==
  LET handled == ~Fails(i.failc, r) /\ sess.terminated = 0
      ends == sess.terminated = 0 /\ (r = "timeout" \/ (handled /\ r = "gone"))
      t == IF ends THEN SessTerminate(sess, bok) ELSE sess
  IN  /\ i \in sess.requestl
      /\ sess' = IF handled /\ r = "auth" /\ again
                 THEN [sess EXCEPT !.requestl = (@ \ {i}) \cup
                                      {[i EXCEPT !.failc = FailCount(@, r)]}]
                 ELSE DropInfo(t, i, bok)
      /\ ups' = IF handled /\ r = "auth" /\ again THEN {}
                ELSE IF ends THEN {"close"} ELSE Call(sess, "resp")
      /\ UNCHANGED <<role, rseq>>

-----------------------------------------------------------------------------
(***************************************************************************)
(* Requests of the peer, and timers.                                       *)
(***************************************************************************)
\* The answer that the ACK brought has been passed on.
\* Mutant: the flag is left set.
AnswerReceivedNot(s, awaits) == s
AnswerReceived(s, awaits) == IF awaits THEN [s EXCEPT !.awaiting_answer = FALSE] ELSE s

\* The handlers ack_handler calls: answerh, then for the first ACK estabh or,
\* when the answer was bad, closeh.  Mutant: for every ACK.
AckCallsAgain(established, awaits, bad) ==
  (IF awaits THEN {"answer"} ELSE {}) \cup {IF bad THEN "close" ELSE "estab"}
AckCalls(established, awaits, bad) ==
  (IF awaits THEN {"answer"} ELSE {})
    \cup (IF established THEN {} ELSE IF bad THEN {"close"} ELSE {"estab"})

\* ack_handler; cok says whether answerh accepted the answer in the ACK.
Ack(reply, cok, ok, bok) ==
  LET d == DropReply(sess, reply)
      awaits == reply.awaiting_answer
      a == AnswerReceived(d, awaits)
      m == IF a.modify_pending /\ a.replyl = {} THEN Reinvite(a, ok, TRUE) ELSE a
      e == [m EXCEPT !.established = TRUE]
      bad == awaits /\ ~cok
  IN  /\ reply \in sess.replyl
      /\ IF sess.terminated # 0
         THEN /\ sess' = IF d.replyl = {}
                         THEN Deref([d EXCEPT !.established = TRUE], bok) ELSE d
              /\ ups' = {}
         ELSE /\ sess' = IF ~m.established /\ bad THEN SessTerminate(e, bok) ELSE e
              /\ ups' = AckCalls(m.established, awaits, bad)
      /\ UNCHANGED <<role, rseq>>

\* A request of the peer finds the session once the dialog has a remote tag.
InDialog == Live(sess) /\ (role = "uas" \/ sess.established)

\* info_handler and refer_handler hand the request to the user.
PeerInfo ==
  /\ InDialog /\ sess.terminated = 0
  /\ ups' = {"info"}
  /\ UNCHANGED <<role, sess, rseq>>

\* bye_handler.
PeerBye(bok) ==
  LET s == [sess EXCEPT !.peerterm = TRUE]
  IN  /\ InDialog
      /\ sess' = IF s.terminated # 0 THEN s
                 ELSE SessTerminate([s EXCEPT !.st = FALSE], bok)
      /\ ups' = OutCalls(s)
      /\ UNCHANGED <<role, rseq>>

\* cancel_handler, called by the server transaction of an unanswered INVITE.
PeerCancel(bok) ==
  LET s == [sess EXCEPT !.st = FALSE, !.peerterm = TRUE]
  IN  /\ sess.st
      /\ sess' = IF s.terminated # 0 THEN s ELSE SessTerminate(s, bok)
      /\ ups' = OutCalls(s)
      /\ UNCHANGED <<role, rseq>>

\* Mutant: the retry timer is not cancelled.
PeerReinviteNoCancel(offerless, cok, ok) ==
  LET free == ~sess.st /\ ~sess.awaiting_answer /\ sess.req = "none"
      r == Reply2xx(sess, rseq + 1, offerless, ok)
  IN  /\ InDialog /\ sess.terminated = 0
      /\ rseq < MaxSeq
      /\ rseq' = rseq + 1
      /\ sess' = IF free /\ cok
                 THEN [r EXCEPT !.desc = FALSE, !.modify_pending = FALSE]
                 ELSE sess
      /\ ups' = IF free THEN {"offer"} ELSE {}
      /\ UNCHANGED role

\* reinvite_handler; cok says whether offerh accepted the offer.
PeerReinvite(offerless, cok, ok) ==
  LET free == ~sess.st /\ ~sess.awaiting_answer /\ sess.req = "none"
      r == Reply2xx(sess, rseq + 1, offerless, ok)
  IN  /\ InDialog /\ sess.terminated = 0
      /\ rseq < MaxSeq
      /\ rseq' = rseq + 1
      /\ sess' = IF free /\ cok
                 THEN [r EXCEPT !.desc = FALSE, !.modify_pending = FALSE, !.tmr = FALSE]
                 ELSE sess
      /\ ups' = IF free THEN {"offer"} ELSE {}
      /\ UNCHANGED role

\* The 64*T1 timers of the replies run out in the order they were started.
ReplyTimeout(reply, bok) ==
  LET d == DropReply(sess, reply)
      e == [d EXCEPT !.established = TRUE]
  IN  /\ reply \in sess.replyl
      /\ \A other \in sess.replyl : reply.seq <= other.seq
      /\ sess' = IF d.replyl # {} THEN d ELSE Out(e, bok)
      /\ ups' = IF d.replyl # {} THEN {} ELSE OutCalls(d)
      /\ UNCHANGED <<role, rseq>>

\* modify.c tmr_handler: the re-INVITE put off by a 491 or 500 is sent again.
RetryFires(ok) ==
  /\ sess.tmr
  /\ sess' = Reinvite([sess EXCEPT !.tmr = FALSE], ok, TRUE)
  /\ ups' = {}
  /\ UNCHANGED <<role, rseq>>

-----------------------------------------------------------------------------
User ==
  \/ \E ok \in BOOLEAN : Accept(ok) \/ Progress(ok) \/ Modify(ok) \/ Release(ok)
  \/ \E x, ok \in BOOLEAN : Connect(x, ok) \/ Answer(x, ok)
  \/ \E i \in Infos : SendInfo(i)

InviteFinal ==
  \E x, y, ok, bok \in BOOLEAN :
    InviteOk(x, y, ok, bok) \/ \E r \in Finals : InviteFail(r, x, ok, bok)
ReinviteFinal ==
  \E x, ok, bok \in BOOLEAN :
    ReinviteOk(ok, bok) \/ \E r \in Finals : ReinviteFail(r, x, ok, bok)
ByeDone == \E r \in Finals, x, ok \in BOOLEAN : ByeFinal(r, x, ok)
InfoDone(i) == \E r \in Finals, x, bok \in BOOLEAN : InfoFinal(i, r, x, bok)

Peer ==
  \/ \E reply \in Reply, cok, ok, bok \in BOOLEAN : Ack(reply, cok, ok, bok)
  \/ \E bok \in BOOLEAN : PeerBye(bok) \/ PeerCancel(bok)
  \/ \E x, cok, ok \in BOOLEAN : PeerReinvite(x, cok, ok)

Notice == RecvProvisional \/ PeerInfo

ReplyTimer == \E reply \in Reply, bok \in BOOLEAN : ReplyTimeout(reply, bok)
RetryTimer == \E ok \in BOOLEAN : RetryFires(ok)

Next ==
  \/ User \/ Peer \/ Notice
  \/ InviteFinal \/ ReinviteFinal \/ ByeDone \/ \E i \in Info : InfoDone(i)
  \/ ReplyTimer \/ RetryTimer

\* termwait cancels the request that is pending (sip_request_cancel).
Canceled == sess.terminated = 1 /\ sess.req # "none"

(***************************************************************************)
(* Timers fire.  The client transaction answers every request it still     *)
(* times: a BYE, an INFO and a cancelled INVITE get a final response or an *)
(* error after 64*T1.  An INVITE that was answered 1xx and not cancelled   *)
(* has no timer, so nothing is assumed of it.                              *)
(***************************************************************************)
Fairness ==
  /\ WF_vars(ReplyTimer) /\ WF_vars(RetryTimer)
  /\ WF_vars(ByeDone)
  /\ WF_vars(Canceled /\ InviteFinal)
  /\ WF_vars(Canceled /\ ReinviteFinal)
  /\ \A i \in Info : WF_vars(InfoDone(i))

Spec == Init /\ [][Next]_vars
FairSpec == Spec /\ Fairness

-----------------------------------------------------------------------------
(***************************************************************************)
(* Properties.                                                             *)
(***************************************************************************)
TypeOK ==
  /\ role \in {"uac", "uas"}
  /\ sess \in Session
  /\ rseq \in 0..MaxSeq
  /\ ups \in SUBSET Upcalls

\* Every reference on a session is owed by someone who will give it back: the
\* user before the end, afterwards the pending request (termwait, terminate),
\* the list of unacknowledged replies and the list of INFO requests, one each.
\* A count above that leaks the session, one below frees it under a handler.
RefsExact ==
  IF Live(sess)
  THEN /\ sess.refs > 0
       /\ sess.refs = Bit(sess.held) + IF sess.terminated = 0 THEN 0 ELSE Waits(sess)
  ELSE sess.refs = 0 /\ ~sess.held

\* The destructor runs to its end only when no request, reply or INFO is left:
\* its list_flush and mem_deref(sess->req) never cut an exchange short.
FreedClean == sess.mem # "dangling"

\* A session that is not over never has two INVITE exchanges open: its own
\* request, a retry it has put off, and a 2xx waiting for its ACK exclude each
\* other (sipsess_modify, reinvite_handler and ack_handler each test a part).
OneExchange ==
  sess.terminated = 0 =>
    Bit(sess.req # "none") + Bit(sess.tmr) + Bit(sess.replyl # {}) <= 1

\* A modification put off by sipsess_modify is never forgotten: while it is
\* pending there is a response, a timer or an ACK to come that picks it up.
ModifyKept ==
  sess.modify_pending /\ sess.terminated = 0 =>
    sess.req # "none" \/ sess.tmr \/ sess.replyl # {}

\* A re-INVITE always carries the description it was requested with, also when
\* it was put off, challenged or retried in between.
OfferCarried == (sess.req = "reinvite" => sess.sent_offer) /\ (sess.tmr => sess.desc)

\* The session refuses INVITEs of the peer for want of an answer (500) only
\* while some reply is still waiting for the ACK that brings it.
AnswerAwaited ==
  sess.awaiting_answer /\ sess.terminated = 0 =>
    \E reply \in sess.replyl : reply.awaiting_answer

\* A session that was established and not ended by the peer is not freed
\* without an attempt to send BYE.
ByeSent ==
  sess.mem = "freed" /\ sess.established /\ ~sess.peerterm => sess.bye # "none"

\* After the user has let go, or has been told with closeh, no handler of the
\* user is called any more: its argument, the struct call, is gone.
UpcallsToOwner == [][ups' # {} => sess.held]_vars

\* estabh is called once, for a session that goes on living, and closeh ends
\* the user's ownership in the very step that calls it.
UpcallOrder ==
  [][/\ "estab" \in ups' => ~sess.established /\ sess'.established /\ sess'.terminated = 0
     /\ "close" \in ups' => sess.terminated = 0 /\ sess'.terminated # 0 /\ ~sess'.held]_vars

\* A session the user has let go of is eventually freed: no wait is for ever
\* (a challenge to each BYE is cut short by sip_request_loops).
Reclaimed == Live(sess) /\ ~sess.held ~> sess.mem = "freed"

\* The session implements the contract its user relies on.
Contract == INSTANCE SessionContract WITH
  phase <- IF sess.mem = "none" THEN "idle"
           ELSE IF ~sess.held THEN "over"
           ELSE IF sess.established THEN "talking" ELSE "setup",
  block <- sess.mem

ImplementsContract == Contract!CSpec
=============================================================================
