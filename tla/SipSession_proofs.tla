-------------------------- MODULE SipSession_proofs --------------------------
(***************************************************************************)
(* Proofs about SipSession.  A handler is a composition of operators on    *)
(* session records, each of which gives a few fields new values.  The      *)
(* first part therefore has, for each field, an operator that gives it a   *)
(* value and a lemma that says that the result is a session and what its   *)
(* fields are; the second part states what each operator of the model      *)
(* does, by way of these; the third proves that every action keeps the     *)
(* inductive invariant, and the theorems about states; the fourth proves   *)
(* what a step never undoes, and with it the order of the handlers and the *)
(* safety of the contract.                                                 *)
(***************************************************************************)
EXTENDS SipSession, TLAPS

SameLife(t, s) ==
  t.mem = s.mem /\ t.refs = s.refs /\ t.held = s.held /\ t.terminated = s.terminated
SamePast(t, s) ==
  t.established = s.established /\ t.peerterm = s.peerterm /\ t.bye = s.bye
SameWork(t, s) ==
  /\ t.req = s.req /\ t.replyl = s.replyl /\ t.requestl = s.requestl
  /\ t.tmr = s.tmr /\ t.st = s.st
SameMedia(t, s) ==
  /\ t.awaiting_answer = s.awaiting_answer /\ t.modify_pending = s.modify_pending
  /\ t.desc = s.desc /\ t.sent_offer = s.sent_offer

PutMem(s, v) == [s EXCEPT !.mem = v]
PutRefs(s, v) == [s EXCEPT !.refs = v]
PutHeld(s, v) == [s EXCEPT !.held = v]
PutTerminated(s, v) == [s EXCEPT !.terminated = v]
PutEstablished(s, v) == [s EXCEPT !.established = v]
PutPeerterm(s, v) == [s EXCEPT !.peerterm = v]
PutBye(s, v) == [s EXCEPT !.bye = v]
PutReq(s, v) == [s EXCEPT !.req = v]
PutReplyl(s, v) == [s EXCEPT !.replyl = v]
PutRequestl(s, v) == [s EXCEPT !.requestl = v]
PutTmr(s, v) == [s EXCEPT !.tmr = v]
PutSt(s, v) == [s EXCEPT !.st = v]
PutAwaiting(s, v) == [s EXCEPT !.awaiting_answer = v]
PutModify(s, v) == [s EXCEPT !.modify_pending = v]
PutDesc(s, v) == [s EXCEPT !.desc = v]
PutSentOffer(s, v) == [s EXCEPT !.sent_offer = v]
PutFailc(s, v) == [s EXCEPT !.failc = v]

LEMMA PutMemFacts ==
  ASSUME NEW s \in Session, NEW v \in Blocks
  PROVE  /\ PutMem(s, v) \in Session /\ PutMem(s, v).mem = v
         /\ PutMem(s, v).refs = s.refs /\ PutMem(s, v).held = s.held
         /\ PutMem(s, v).terminated = s.terminated /\ SamePast(PutMem(s, v), s)
         /\ SameWork(PutMem(s, v), s) /\ SameMedia(PutMem(s, v), s)
BY DEF PutMem, Session, SameLife, SamePast, SameWork, SameMedia

LEMMA PutRefsFacts ==
  ASSUME NEW s \in Session, NEW v \in Nat
  PROVE  /\ PutRefs(s, v) \in Session /\ PutRefs(s, v).refs = v
         /\ PutRefs(s, v).mem = s.mem /\ PutRefs(s, v).held = s.held
         /\ PutRefs(s, v).terminated = s.terminated /\ SamePast(PutRefs(s, v), s)
         /\ SameWork(PutRefs(s, v), s) /\ SameMedia(PutRefs(s, v), s)
BY DEF PutRefs, Session, SameLife, SamePast, SameWork, SameMedia

LEMMA PutHeldFacts ==
  ASSUME NEW s \in Session, NEW v \in BOOLEAN
  PROVE  /\ PutHeld(s, v) \in Session /\ PutHeld(s, v).held = v
         /\ PutHeld(s, v).mem = s.mem /\ PutHeld(s, v).refs = s.refs
         /\ PutHeld(s, v).terminated = s.terminated /\ SamePast(PutHeld(s, v), s)
         /\ SameWork(PutHeld(s, v), s) /\ SameMedia(PutHeld(s, v), s)
BY DEF PutHeld, Session, SameLife, SamePast, SameWork, SameMedia

LEMMA PutTerminatedFacts ==
  ASSUME NEW s \in Session, NEW v \in 0..2
  PROVE  /\ PutTerminated(s, v) \in Session /\ PutTerminated(s, v).terminated = v
         /\ PutTerminated(s, v).mem = s.mem /\ PutTerminated(s, v).refs = s.refs
         /\ PutTerminated(s, v).held = s.held /\ SamePast(PutTerminated(s, v), s)
         /\ SameWork(PutTerminated(s, v), s) /\ SameMedia(PutTerminated(s, v), s)
BY DEF PutTerminated, Session, SameLife, SamePast, SameWork, SameMedia

LEMMA PutEstablishedFacts ==
  ASSUME NEW s \in Session, NEW v \in BOOLEAN
  PROVE  /\ PutEstablished(s, v) \in Session /\ PutEstablished(s, v).established = v
         /\ SameLife(PutEstablished(s, v), s)
         /\ PutEstablished(s, v).peerterm = s.peerterm
         /\ PutEstablished(s, v).bye = s.bye /\ SameWork(PutEstablished(s, v), s)
         /\ SameMedia(PutEstablished(s, v), s)
BY DEF PutEstablished, Session, SameLife, SamePast, SameWork, SameMedia

LEMMA PutPeertermFacts ==
  ASSUME NEW s \in Session, NEW v \in BOOLEAN
  PROVE  /\ PutPeerterm(s, v) \in Session /\ PutPeerterm(s, v).peerterm = v
         /\ SameLife(PutPeerterm(s, v), s)
         /\ PutPeerterm(s, v).established = s.established
         /\ PutPeerterm(s, v).bye = s.bye /\ SameWork(PutPeerterm(s, v), s)
         /\ SameMedia(PutPeerterm(s, v), s)
BY DEF PutPeerterm, Session, SameLife, SamePast, SameWork, SameMedia

LEMMA PutByeFacts ==
  ASSUME NEW s \in Session, NEW v \in {"none", "sent", "failed"}
  PROVE  /\ PutBye(s, v) \in Session /\ PutBye(s, v).bye = v
         /\ SameLife(PutBye(s, v), s) /\ PutBye(s, v).established = s.established
         /\ PutBye(s, v).peerterm = s.peerterm /\ SameWork(PutBye(s, v), s)
         /\ SameMedia(PutBye(s, v), s)
BY DEF PutBye, Session, SameLife, SamePast, SameWork, SameMedia

LEMMA PutReqFacts ==
  ASSUME NEW s \in Session, NEW v \in Reqs
  PROVE  /\ PutReq(s, v) \in Session /\ PutReq(s, v).req = v
         /\ SameLife(PutReq(s, v), s) /\ SamePast(PutReq(s, v), s)
         /\ PutReq(s, v).replyl = s.replyl /\ PutReq(s, v).requestl = s.requestl
         /\ PutReq(s, v).tmr = s.tmr /\ PutReq(s, v).st = s.st
         /\ SameMedia(PutReq(s, v), s)
BY DEF PutReq, Session, SameLife, SamePast, SameWork, SameMedia

LEMMA PutReplylFacts ==
  ASSUME NEW s \in Session, NEW v \in SUBSET Reply
  PROVE  /\ PutReplyl(s, v) \in Session /\ PutReplyl(s, v).replyl = v
         /\ SameLife(PutReplyl(s, v), s) /\ SamePast(PutReplyl(s, v), s)
         /\ PutReplyl(s, v).req = s.req /\ PutReplyl(s, v).requestl = s.requestl
         /\ PutReplyl(s, v).tmr = s.tmr /\ PutReplyl(s, v).st = s.st
         /\ SameMedia(PutReplyl(s, v), s)
BY DEF PutReplyl, Session, SameLife, SamePast, SameWork, SameMedia

LEMMA PutRequestlFacts ==
  ASSUME NEW s \in Session, NEW v \in SUBSET Info
  PROVE  /\ PutRequestl(s, v) \in Session /\ PutRequestl(s, v).requestl = v
         /\ SameLife(PutRequestl(s, v), s) /\ SamePast(PutRequestl(s, v), s)
         /\ PutRequestl(s, v).req = s.req /\ PutRequestl(s, v).replyl = s.replyl
         /\ PutRequestl(s, v).tmr = s.tmr /\ PutRequestl(s, v).st = s.st
         /\ SameMedia(PutRequestl(s, v), s)
BY DEF PutRequestl, Session, SameLife, SamePast, SameWork, SameMedia

LEMMA PutTmrFacts ==
  ASSUME NEW s \in Session, NEW v \in BOOLEAN
  PROVE  /\ PutTmr(s, v) \in Session /\ PutTmr(s, v).tmr = v
         /\ SameLife(PutTmr(s, v), s) /\ SamePast(PutTmr(s, v), s)
         /\ PutTmr(s, v).req = s.req /\ PutTmr(s, v).replyl = s.replyl
         /\ PutTmr(s, v).requestl = s.requestl /\ PutTmr(s, v).st = s.st
         /\ SameMedia(PutTmr(s, v), s)
BY DEF PutTmr, Session, SameLife, SamePast, SameWork, SameMedia

LEMMA PutStFacts ==
  ASSUME NEW s \in Session, NEW v \in BOOLEAN
  PROVE  /\ PutSt(s, v) \in Session /\ PutSt(s, v).st = v
         /\ SameLife(PutSt(s, v), s) /\ SamePast(PutSt(s, v), s)
         /\ PutSt(s, v).req = s.req /\ PutSt(s, v).replyl = s.replyl
         /\ PutSt(s, v).requestl = s.requestl /\ PutSt(s, v).tmr = s.tmr
         /\ SameMedia(PutSt(s, v), s)
BY DEF PutSt, Session, SameLife, SamePast, SameWork, SameMedia

LEMMA PutAwaitingFacts ==
  ASSUME NEW s \in Session, NEW v \in BOOLEAN
  PROVE  /\ PutAwaiting(s, v) \in Session /\ PutAwaiting(s, v).awaiting_answer = v
         /\ SameLife(PutAwaiting(s, v), s) /\ SamePast(PutAwaiting(s, v), s)
         /\ SameWork(PutAwaiting(s, v), s)
         /\ PutAwaiting(s, v).modify_pending = s.modify_pending
         /\ PutAwaiting(s, v).desc = s.desc
         /\ PutAwaiting(s, v).sent_offer = s.sent_offer
BY DEF PutAwaiting, Session, SameLife, SamePast, SameWork, SameMedia

LEMMA PutModifyFacts ==
  ASSUME NEW s \in Session, NEW v \in BOOLEAN
  PROVE  /\ PutModify(s, v) \in Session /\ PutModify(s, v).modify_pending = v
         /\ SameLife(PutModify(s, v), s) /\ SamePast(PutModify(s, v), s)
         /\ SameWork(PutModify(s, v), s)
         /\ PutModify(s, v).awaiting_answer = s.awaiting_answer
         /\ PutModify(s, v).desc = s.desc
         /\ PutModify(s, v).sent_offer = s.sent_offer
BY DEF PutModify, Session, SameLife, SamePast, SameWork, SameMedia

LEMMA PutDescFacts ==
  ASSUME NEW s \in Session, NEW v \in BOOLEAN
  PROVE  /\ PutDesc(s, v) \in Session /\ PutDesc(s, v).desc = v
         /\ SameLife(PutDesc(s, v), s) /\ SamePast(PutDesc(s, v), s)
         /\ SameWork(PutDesc(s, v), s)
         /\ PutDesc(s, v).awaiting_answer = s.awaiting_answer
         /\ PutDesc(s, v).modify_pending = s.modify_pending
         /\ PutDesc(s, v).sent_offer = s.sent_offer
BY DEF PutDesc, Session, SameLife, SamePast, SameWork, SameMedia

LEMMA PutSentOfferFacts ==
  ASSUME NEW s \in Session, NEW v \in BOOLEAN
  PROVE  /\ PutSentOffer(s, v) \in Session /\ PutSentOffer(s, v).sent_offer = v
         /\ SameLife(PutSentOffer(s, v), s) /\ SamePast(PutSentOffer(s, v), s)
         /\ SameWork(PutSentOffer(s, v), s)
         /\ PutSentOffer(s, v).awaiting_answer = s.awaiting_answer
         /\ PutSentOffer(s, v).modify_pending = s.modify_pending
         /\ PutSentOffer(s, v).desc = s.desc
BY DEF PutSentOffer, Session, SameLife, SamePast, SameWork, SameMedia

LEMMA PutFailcFacts ==
  ASSUME NEW s \in Session, NEW v \in 0..LoopMax
  PROVE  /\ PutFailc(s, v) \in Session /\ PutFailc(s, v).failc = v
         /\ SameLife(PutFailc(s, v), s) /\ SamePast(PutFailc(s, v), s)
         /\ SameWork(PutFailc(s, v), s) /\ SameMedia(PutFailc(s, v), s)
BY DEF PutFailc, Session, SameLife, SamePast, SameWork, SameMedia

-----------------------------------------------------------------------------
(***************************************************************************)
(* What the operators of the model do.                                     *)
(***************************************************************************)
LEMMA WaitsFacts ==
  ASSUME NEW s \in Session
  PROVE  /\ Waits(s) \in Nat
         /\ Waits(s) = 0 <=> s.req = "none" /\ s.replyl = {} /\ s.requestl = {}
BY DEF Waits, Bit

LEMMA AnsweredFacts ==
  ASSUME NEW s \in Session
  PROVE  /\ Answered(s) \in Session /\ Answered(s).req = "none"
         /\ SameLife(Answered(s), s) /\ SamePast(Answered(s), s)
         /\ Answered(s).replyl = s.replyl /\ Answered(s).requestl = s.requestl
         /\ Answered(s).tmr = s.tmr /\ Answered(s).st = s.st
         /\ SameMedia(Answered(s), s)
<1>1. Answered(s) = PutReq(s, "none")  BY DEF Answered, PutReq
<1> QED  BY <1>1, PutReqFacts DEF Reqs

LEMMA CountFacts ==
  ASSUME NEW s \in Session, NEW r
  PROVE  /\ Count(s, r) \in Session
         /\ SameLife(Count(s, r), s) /\ SamePast(Count(s, r), s)
         /\ SameWork(Count(s, r), s) /\ SameMedia(Count(s, r), s)
<1>1. FailCount(s.failc, r) \in 0..LoopMax
  BY LoopMaxAssumption DEF FailCount, Session
<1>2. CASE r \in {"timeout", "error"}
  BY <1>2 DEF Count, SameLife, SamePast, SameWork, SameMedia
<1>3. CASE r \notin {"timeout", "error"}
  <2>1. Count(s, r) = PutFailc(s, FailCount(s.failc, r))  BY <1>3 DEF Count, PutFailc
  <2> QED  BY <2>1, <1>1, PutFailcFacts
<1> QED  BY <1>2, <1>3

Sent(kind, ok) == IF ok THEN kind ELSE "none"

LEMMA SendFacts ==
  ASSUME NEW s \in Session, NEW kind \in Reqs, NEW ok
  PROVE  /\ SendRequest(s, kind, ok) \in Session
         /\ SendRequest(s, kind, ok).req = Sent(kind, ok)
         /\ SameLife(SendRequest(s, kind, ok), s) /\ SamePast(SendRequest(s, kind, ok), s)
         /\ SendRequest(s, kind, ok).replyl = s.replyl
         /\ SendRequest(s, kind, ok).requestl = s.requestl
         /\ SendRequest(s, kind, ok).tmr = s.tmr /\ SendRequest(s, kind, ok).st = s.st
         /\ SameMedia(SendRequest(s, kind, ok), s)
<1>1. SendRequest(s, kind, ok) = PutReq(s, Sent(kind, ok))
  BY DEF SendRequest, PutReq, Sent
<1>2. Sent(kind, ok) \in Reqs  BY DEF Sent, Reqs
<1> QED  BY <1>1, <1>2, PutReqFacts

LEMMA OfferFacts ==
  ASSUME NEW s \in Session
  PROVE  /\ Offer(s) \in Session
         /\ Offer(s).sent_offer = s.desc /\ ~Offer(s).modify_pending
         /\ Offer(s).desc = s.desc /\ Offer(s).awaiting_answer = s.awaiting_answer
         /\ SameLife(Offer(s), s) /\ SamePast(Offer(s), s) /\ SameWork(Offer(s), s)
<1> DEFINE a == PutSentOffer(s, s.desc)
           b == PutModify(a, FALSE)
<1>1. Offer(s) = b  BY DEF Offer, PutModify, PutSentOffer
<1>2. s.desc \in BOOLEAN  BY DEF Session
<1>3. /\ a \in Session /\ a.sent_offer = s.desc /\ a.desc = s.desc
      /\ a.awaiting_answer = s.awaiting_answer
      /\ SameLife(a, s) /\ SamePast(a, s) /\ SameWork(a, s)
  BY <1>2, PutSentOfferFacts
<1>4. /\ b \in Session /\ ~b.modify_pending /\ b.sent_offer = a.sent_offer
      /\ b.desc = a.desc /\ b.awaiting_answer = a.awaiting_answer
      /\ SameLife(b, a) /\ SamePast(b, a) /\ SameWork(b, a)
  BY <1>3, PutModifyFacts
<1> HIDE DEF a, b
<1> QED  BY <1>1, <1>3, <1>4 DEF SameLife, SamePast, SameWork

LEMMA ResetFacts ==
  ASSUME NEW s \in Session, NEW reset
  PROVE  /\ ResetLoops(s, reset) \in Session
         /\ SameLife(ResetLoops(s, reset), s) /\ SamePast(ResetLoops(s, reset), s)
         /\ SameWork(ResetLoops(s, reset), s) /\ SameMedia(ResetLoops(s, reset), s)
<1>1. CASE reset
  <2>1. ResetLoops(s, reset) = PutFailc(s, 0)  BY <1>1 DEF ResetLoops, PutFailc
  <2> QED  BY <2>1, PutFailcFacts, LoopMaxAssumption
<1>2. CASE ~reset
  BY <1>2 DEF ResetLoops, SameLife, SamePast, SameWork, SameMedia
<1> QED  BY <1>1, <1>2

LEMMA InviteFacts ==
  ASSUME NEW s \in Session, NEW ok
  PROVE  LET t == Invite(s, ok)
         IN  /\ t \in Session /\ t.req = Sent("invite", ok)
             /\ t.sent_offer = s.desc /\ ~t.modify_pending
             /\ t.desc = s.desc /\ t.awaiting_answer = s.awaiting_answer
             /\ SameLife(t, s) /\ SamePast(t, s)
             /\ t.replyl = s.replyl /\ t.requestl = s.requestl
             /\ t.tmr = s.tmr /\ t.st = s.st
<1> DEFINE o == Offer(s)
           t == SendRequest(o, "invite", ok)
<1>1. Invite(s, ok) = t  BY DEF Invite
<1>2. /\ o \in Session /\ o.sent_offer = s.desc /\ ~o.modify_pending
      /\ o.desc = s.desc /\ o.awaiting_answer = s.awaiting_answer
      /\ SameLife(o, s) /\ SamePast(o, s) /\ SameWork(o, s)
  BY OfferFacts
<1>3. /\ t \in Session /\ t.req = Sent("invite", ok)
      /\ SameLife(t, o) /\ SamePast(t, o) /\ SameMedia(t, o)
      /\ t.replyl = o.replyl /\ t.requestl = o.requestl /\ t.tmr = o.tmr /\ t.st = o.st
  BY <1>2, SendFacts DEF Reqs
<1> HIDE DEF o, t
<1> QED  BY <1>1, <1>2, <1>3 DEF SameLife, SamePast, SameWork, SameMedia

LEMMA ReinviteFacts ==
  ASSUME NEW s \in Session, s.req = "none", NEW ok, NEW reset
  PROVE  LET t == Reinvite(s, ok, reset)
         IN  /\ t \in Session /\ t.req = Sent("reinvite", ok)
             /\ t.sent_offer = s.desc /\ ~t.modify_pending
             /\ t.desc = s.desc /\ t.awaiting_answer = s.awaiting_answer
             /\ SameLife(t, s) /\ SamePast(t, s)
             /\ t.replyl = s.replyl /\ t.requestl = s.requestl
             /\ t.tmr = s.tmr /\ t.st = s.st
<1> DEFINE o == Offer(s)
           l == ResetLoops(o, reset)
           t == SendRequest(l, "reinvite", ok)
<1>1. Reinvite(s, ok, reset) = t  BY DEF Reinvite
<1>2. /\ o \in Session /\ o.sent_offer = s.desc /\ ~o.modify_pending
      /\ o.desc = s.desc /\ o.awaiting_answer = s.awaiting_answer
      /\ SameLife(o, s) /\ SamePast(o, s) /\ SameWork(o, s)
  BY OfferFacts
<1>3. /\ l \in Session /\ SameLife(l, o) /\ SamePast(l, o) /\ SameWork(l, o) /\ SameMedia(l, o)
  BY <1>2, ResetFacts
<1>4. /\ t \in Session /\ t.req = Sent("reinvite", ok)
      /\ SameLife(t, l) /\ SamePast(t, l) /\ SameMedia(t, l)
      /\ t.replyl = l.replyl /\ t.requestl = l.requestl /\ t.tmr = l.tmr /\ t.st = l.st
  BY <1>3, SendFacts DEF Reqs
<1> HIDE DEF o, l, t
<1> QED  BY <1>1, <1>2, <1>3, <1>4 DEF SameLife, SamePast, SameWork, SameMedia

LEMMA ByeFacts ==
  ASSUME NEW s \in Session, s.req = "none", NEW ok, NEW reset
  PROVE  LET t == Bye(s, ok, reset)
         IN  /\ t \in Session /\ t.req = Sent("bye", ok)
             /\ t.bye # "none"
             /\ t.established = s.established /\ t.peerterm = s.peerterm
             /\ SameLife(t, s) /\ SameMedia(t, s)
             /\ t.replyl = s.replyl /\ t.requestl = s.requestl
             /\ t.tmr = s.tmr /\ t.st = s.st
<1> DEFINE l == ResetLoops(s, reset)
           b == PutBye(l, IF ok THEN "sent" ELSE "failed")
           t == SendRequest(b, "bye", ok)
<1>1. Bye(s, ok, reset) = t  BY DEF Bye, PutBye
<1>2. /\ l \in Session /\ SameLife(l, s) /\ SamePast(l, s) /\ SameWork(l, s) /\ SameMedia(l, s)
  BY ResetFacts
<1>3. /\ b \in Session /\ b.bye # "none" /\ SameLife(b, l)
      /\ b.established = l.established /\ b.peerterm = l.peerterm
      /\ SameWork(b, l) /\ SameMedia(b, l)
  BY <1>2, PutByeFacts
<1>4. /\ t \in Session /\ t.req = Sent("bye", ok)
      /\ SameLife(t, b) /\ SamePast(t, b) /\ SameMedia(t, b)
      /\ t.replyl = b.replyl /\ t.requestl = b.requestl /\ t.tmr = b.tmr /\ t.st = b.st
  BY <1>3, SendFacts DEF Reqs
<1> HIDE DEF l, b, t
<1> QED  BY <1>1, <1>2, <1>3, <1>4 DEF SameLife, SamePast, SameWork, SameMedia

LEMMA SilenceFacts ==
  ASSUME NEW s \in Session
  PROVE  LET t == Silence(s)
         IN  /\ t \in Session /\ t.terminated = 1 /\ ~t.tmr /\ ~t.st
             /\ t.mem = s.mem /\ t.refs = s.refs /\ t.held = s.held
             /\ SamePast(t, s) /\ SameMedia(t, s)
             /\ t.req = s.req /\ t.replyl = s.replyl /\ t.requestl = s.requestl
<1> DEFINE a == PutTerminated(s, 1)
           b == PutTmr(a, FALSE)
           t == PutSt(b, FALSE)
<1>1. Silence(s) = t  BY DEF Silence, PutSt, PutTmr, PutTerminated
<1>2. /\ a \in Session /\ a.terminated = 1 /\ a.mem = s.mem /\ a.refs = s.refs
      /\ a.held = s.held /\ SamePast(a, s) /\ SameWork(a, s) /\ SameMedia(a, s)
  BY PutTerminatedFacts
<1>3. /\ b \in Session /\ ~b.tmr
      /\ SameLife(b, a) /\ SamePast(b, a) /\ SameMedia(b, a)
      /\ b.req = a.req /\ b.replyl = a.replyl /\ b.requestl = a.requestl
  BY <1>2, PutTmrFacts
<1>4. /\ t \in Session /\ ~t.st /\ t.tmr = b.tmr
      /\ SameLife(t, b) /\ SamePast(t, b) /\ SameMedia(t, b)
      /\ t.req = b.req /\ t.replyl = b.replyl /\ t.requestl = b.requestl
  BY <1>3, PutStFacts
<1> HIDE DEF a, b, t
<1> QED  BY <1>1, <1>2, <1>3, <1>4 DEF SameLife, SamePast, SameWork, SameMedia

LEMMA TermWaitFacts ==
  ASSUME NEW s \in Session
  PROVE  LET t == TermWait(s)
         IN  /\ t \in Session /\ t.terminated = 1 /\ ~t.tmr /\ ~t.st
             /\ t.mem = s.mem /\ t.refs = s.refs + Waits(s) /\ t.held = s.held
             /\ SamePast(t, s) /\ SameMedia(t, s)
             /\ t.req = s.req /\ t.replyl = s.replyl /\ t.requestl = s.requestl
<1> DEFINE q == Silence(s)
           t == PutRefs(q, q.refs + Waits(s))
<1>1. TermWait(s) = t  BY DEF TermWait, PutRefs
<1>2. /\ q \in Session /\ q.terminated = 1 /\ ~q.tmr /\ ~q.st
      /\ q.mem = s.mem /\ q.refs = s.refs /\ q.held = s.held
      /\ SamePast(q, s) /\ SameMedia(q, s)
      /\ q.req = s.req /\ q.replyl = s.replyl /\ q.requestl = s.requestl
  BY SilenceFacts
<1>3. q.refs + Waits(s) \in Nat
  <2>1. q.refs \in Nat  BY <1>2 DEF Session
  <2>2. Waits(s) \in Nat  BY WaitsFacts
  <2> QED  BY <2>1, <2>2
<1>4. /\ t \in Session /\ t.refs = q.refs + Waits(s)
      /\ t.mem = q.mem /\ t.held = q.held /\ t.terminated = q.terminated
      /\ SamePast(t, q) /\ SameWork(t, q) /\ SameMedia(t, q)
  BY <1>2, <1>3, PutRefsFacts
<1> HIDE DEF q, t
<1> QED  BY <1>1, <1>2, <1>4 DEF SamePast, SameWork, SameMedia

LEMMA FreeFacts ==
  ASSUME NEW s \in Session
  PROVE  LET t == Free(s)
         IN  /\ t \in Session /\ t.mem = (IF Pending(s) THEN "dangling" ELSE "freed")
             /\ t.refs = s.refs /\ t.held = s.held /\ t.terminated = s.terminated
             /\ SamePast(t, s) /\ SameMedia(t, s)
             /\ t.req = "none" /\ t.replyl = {} /\ t.requestl = {}
             /\ t.tmr = s.tmr /\ t.st = s.st
<1> DEFINE a == PutReq(s, "none")
           b == PutReplyl(a, {})
           c == PutRequestl(b, {})
           m == IF Pending(s) THEN "dangling" ELSE "freed"
<1>1. Free(s) = PutMem(c, m)  BY DEF Free, PutMem, PutReq, PutReplyl, PutRequestl
<1>2. m \in Blocks  BY DEF Blocks
<1>3. /\ a \in Session /\ a.req = "none" /\ SameLife(a, s) /\ SamePast(a, s)
      /\ a.tmr = s.tmr /\ a.st = s.st /\ SameMedia(a, s)
  BY PutReqFacts DEF Reqs
<1>4. /\ b \in Session /\ b.req = "none" /\ b.replyl = {} /\ SameLife(b, a)
      /\ SamePast(b, a) /\ b.tmr = a.tmr /\ b.st = a.st /\ SameMedia(b, a)
  BY <1>3, PutReplylFacts
<1>5. /\ c \in Session /\ c.req = "none" /\ c.replyl = {} /\ c.requestl = {}
      /\ SameLife(c, b) /\ SamePast(c, b) /\ c.tmr = b.tmr /\ c.st = b.st
      /\ SameMedia(c, b)
  BY <1>4, PutRequestlFacts
<1> HIDE DEF a, b, c, m
<1>6. PutMem(c, m) \in Session /\ PutMem(c, m).mem = m
  BY <1>2, <1>5, PutMemFacts
<1>7. /\ PutMem(c, m).refs = c.refs /\ PutMem(c, m).held = c.held
      /\ PutMem(c, m).terminated = c.terminated /\ SamePast(PutMem(c, m), c)
      /\ SameWork(PutMem(c, m), c) /\ SameMedia(PutMem(c, m), c)
  BY <1>2, <1>5, PutMemFacts
<1> QED
  BY <1>1, <1>3, <1>4, <1>5, <1>6, <1>7 DEF m, SameLife, SamePast, SameWork, SameMedia

-----------------------------------------------------------------------------
(***************************************************************************)
(* The stages of a session.  Owned: the user holds it and it is not over.  *)
(* Waiting(s, n): over (terminated = 1), kept by what it waits for and by  *)
(* n references more.  Closing(s, n): nothing but its BYE is left          *)
(* (terminated = 2).  Gone: freed, with nothing that refers to it.         *)
(***************************************************************************)
Owned(s) ==
  /\ s \in Session /\ s.mem = "live" /\ s.terminated = 0 /\ s.refs = 1
  /\ s.req # "bye"
  /\ s.req = "reinvite" => s.sent_offer

Waiting(s, n) ==
  /\ s \in Session /\ s.mem = "live" /\ s.terminated = 1
  /\ s.refs = n + Waits(s)
  /\ s.req # "bye" /\ ~s.tmr /\ ~s.st
  /\ s.req = "reinvite" => s.sent_offer

Closing(s, n) ==
  /\ s \in Session /\ s.mem = "live" /\ s.terminated = 2
  /\ s.replyl = {} /\ s.requestl = {} /\ s.req \in {"none", "bye"}
  /\ s.refs = n + Bit(s.req # "none")
  /\ ~s.tmr /\ ~s.st
  /\ s.established /\ ~s.peerterm => s.bye # "none"

Gone(s) ==
  /\ s \in Session /\ s.mem = "freed" /\ s.terminated = 2
  /\ s.refs = 0
  /\ s.replyl = {} /\ s.requestl = {} /\ s.req = "none"
  /\ ~s.tmr /\ ~s.st
  /\ s.established /\ ~s.peerterm => s.bye # "none"

\* A session that is over and that nobody is handling at the moment.
Over(s) ==
  /\ ~s.held
  /\ \/ Waiting(s, 0) /\ s.refs > 0
     \/ Closing(s, 0) /\ s.refs > 0
     \/ Gone(s)

\* terminate sends a BYE only when nothing is pending, and needs one reference
\* for it.
LEMMA TerminateCloses ==
  ASSUME NEW s, NEW n \in Nat, Waiting(s, n), Waits(s) = 0, NEW bok
  PROVE  Closing(Terminate(s, bok), n) /\ Terminate(s, bok).held = s.held
<1>0. PICK reset : reset = TRUE  OBVIOUS
<1> DEFINE t == PutTerminated(s, 2)
           b == Bye(t, bok, reset)
           u == PutRefs(b, b.refs + Bit(bok))
<1>1. /\ s \in Session /\ s.mem = "live" /\ s.refs = n
      /\ s.req = "none" /\ s.replyl = {} /\ s.requestl = {}
      /\ ~s.tmr /\ ~s.st
  BY WaitsFacts DEF Waiting
<1>2. /\ t \in Session /\ t.terminated = 2 /\ t.mem = s.mem /\ t.refs = s.refs
      /\ t.held = s.held /\ SamePast(t, s) /\ SameWork(t, s) /\ SameMedia(t, s)
  BY <1>1, PutTerminatedFacts
<1>3. t.req = "none"  BY <1>1, <1>2 DEF SameWork
<1>4. CASE ~s.established \/ s.peerterm
  <2>1. Terminate(s, bok) = t  BY <1>4 DEF Terminate, PutTerminated
  <2> HIDE DEF t
  <2> QED  BY <2>1, <1>1, <1>2, <1>4 DEF Closing, Bit, SamePast, SameWork
<1>5. CASE s.established /\ ~s.peerterm
  <2>1. Terminate(s, bok) = u
    BY <1>0, <1>1, <1>5 DEF Terminate, PutTerminated, PutRefs
  <2>2. /\ b \in Session /\ b.req = Sent("bye", bok) /\ b.bye # "none"
        /\ SameLife(b, t) /\ b.replyl = t.replyl /\ b.requestl = t.requestl
        /\ b.tmr = t.tmr /\ b.st = t.st
    BY <1>2, <1>3, ByeFacts
  <2> HIDE DEF t, b
  <2>3. b.refs + Bit(bok) \in Nat
    <3>1. b.refs \in Nat  BY <2>2 DEF Session
    <3> QED  BY <3>1 DEF Bit
  <2>4. /\ u \in Session /\ u.refs = b.refs + Bit(bok) /\ u.mem = b.mem
        /\ u.held = b.held /\ u.terminated = b.terminated /\ SamePast(u, b)
        /\ SameWork(u, b)
    BY <2>2, <2>3, PutRefsFacts
  <2> HIDE DEF u
  <2> QED
    BY <2>1, <2>2, <2>4, <1>1, <1>2 DEF Closing, Bit, Sent, SamePast, SameWork, SameLife
<1> QED  BY <1>1, <1>4, <1>5 DEF Session

LEMMA FreeEnds ==
  ASSUME NEW s, Closing(s, 0), s.refs = 0
  PROVE  Gone(Free(s)) /\ Free(s).held = s.held
<1>1. s \in Session /\ s.req = "none" /\ ~Pending(s)
  BY DEF Closing, Bit, Pending
<1> QED  BY <1>1, FreeFacts DEF Closing, Gone, SamePast

LEMMA DestructorEnds ==
  ASSUME NEW s, NEW bok, Waiting(s, 0) \/ Closing(s, 0),
         s.refs = 0, ~s.held
  PROVE  Over(Destructor(s, bok))
<1>1. CASE Closing(s, 0)
  <2>1. Destructor(s, bok) = Free(s)  BY <1>1 DEF Destructor, Closing
  <2> QED  BY <2>1, <1>1, FreeEnds DEF Over
<1>2. CASE Waiting(s, 0)
  <2> DEFINE t == Terminate(s, bok)
  <2>1. Waits(s) = 0  BY <1>2, WaitsFacts DEF Waiting
  <2>2. Closing(t, 0) /\ ~t.held  BY <1>2, <2>1, TerminateCloses
  <2>3. Destructor(s, bok) = IF t.refs = 0 THEN Free(t) ELSE t
    BY <1>2 DEF Destructor, Waiting
  <2> HIDE DEF t
  <2>4. t.refs \in Nat  BY <2>2 DEF Closing, Session
  <2> QED  BY <2>2, <2>3, <2>4, FreeEnds DEF Over
<1> QED  BY <1>1, <1>2

\* Giving back one reference of a session that is over.
LEMMA DerefEnds ==
  ASSUME NEW s, NEW bok, Waiting(s, 1) \/ Closing(s, 1),
         ~s.held
  PROVE  Over(Deref(s, bok))
<1> DEFINE d == PutRefs(s, s.refs - 1)
<1>1. s \in Session  BY DEF Waiting, Closing
<1>2. s.refs - 1 \in Nat
  <2>1. Waits(s) \in Nat /\ s.refs \in Nat  BY <1>1, WaitsFacts DEF Session
  <2> QED  BY <2>1 DEF Waiting, Closing, Bit
<1>3. /\ d \in Session /\ d.refs = s.refs - 1 /\ d.mem = s.mem /\ d.held = s.held
      /\ d.terminated = s.terminated /\ SamePast(d, s) /\ SameWork(d, s) /\ SameMedia(d, s)
  BY <1>1, <1>2, PutRefsFacts
<1>4. Deref(s, bok) = IF d.refs = 0 THEN Destructor(d, bok) ELSE d
  BY DEF Deref, PutRefs
<1> HIDE DEF d
<1>5. Waits(d) = Waits(s)  BY <1>3 DEF Waits, SameWork
<1>6. Waits(s) \in Nat /\ s.refs \in Nat  BY <1>1, WaitsFacts DEF Session
<1>7. Waiting(d, 0) \/ Closing(d, 0)
  <2>1. CASE Waiting(s, 1)
    BY <2>1, <1>3, <1>5, <1>6 DEF Waiting, SameWork, SameMedia
  <2>2. CASE Closing(s, 1)
    BY <2>2, <1>3 DEF Closing, Bit, SameWork, SamePast
  <2> QED  BY <2>1, <2>2
<1>8. CASE d.refs = 0
  BY <1>3, <1>4, <1>7, <1>8, DestructorEnds
<1>9. CASE d.refs # 0
  <2>1. d.refs \in Nat  BY <1>3 DEF Session
  <2>2. d.refs > 0  BY <1>9, <2>1
  <2>3. Deref(s, bok) = d  BY <1>4, <1>9
  <2>4. Over(d)  BY <1>3, <1>7, <2>2 DEF Over
  <2> QED  BY <2>3, <2>4
<1> QED  BY <1>8, <1>9

\* Whatever the state of an owned session, ending it leaves one that is over.
LEMMA SessTerminateEnds ==
  ASSUME NEW s, Owned(s), NEW bok
  PROVE  Over(SessTerminate(s, bok))
<1> DEFINE w == TermWait(s)
           t == IF Waits(s) = 0 THEN Terminate(w, bok) ELSE w
           h == PutHeld(t, FALSE)
<1>1. s \in Session  BY DEF Owned
<1>2. SessTerminate(s, bok) = Deref(h, bok)  BY DEF SessTerminate, PutHeld
<1>3. Waiting(w, 1) /\ Waits(w) = Waits(s)
  <2>1. /\ w \in Session /\ w.terminated = 1 /\ ~w.tmr /\ ~w.st
        /\ w.mem = s.mem /\ w.refs = s.refs + Waits(s) /\ SameMedia(w, s)
        /\ w.req = s.req /\ w.replyl = s.replyl /\ w.requestl = s.requestl
    BY <1>1, TermWaitFacts
  <2> HIDE DEF w
  <2>2. Waits(w) = Waits(s)  BY <2>1 DEF Waits
  <2> QED  BY <2>1, <2>2 DEF Owned, Waiting, SameMedia
<1>4. Waiting(t, 1) \/ Closing(t, 1)
  <2>1. CASE Waits(s) = 0
    <3>1. Closing(Terminate(w, bok), 1)  BY <1>3, <2>1, TerminateCloses
    <3> QED  BY <2>1, <3>1
  <2>2. CASE Waits(s) # 0
    BY <1>3, <2>2
  <2> QED  BY <2>1, <2>2
<1> HIDE DEF t
<1>5. t \in Session  BY <1>4 DEF Waiting, Closing
<1>6. /\ h \in Session /\ ~h.held /\ h.mem = t.mem /\ h.refs = t.refs
      /\ h.terminated = t.terminated /\ SamePast(h, t) /\ SameWork(h, t) /\ SameMedia(h, t)
  BY <1>5, PutHeldFacts
<1> HIDE DEF h
<1>7. Waits(h) = Waits(t)  BY <1>6 DEF Waits, SameWork
<1>8. Waiting(h, 1) \/ Closing(h, 1)
  BY <1>4, <1>6, <1>7 DEF Waiting, Closing, SamePast, SameWork, SameMedia
<1> QED  BY <1>2, <1>6, <1>8, DerefEnds

\* The same when the user gives its reference back unasked.
LEMMA ReleaseEnds ==
  ASSUME NEW s, Owned(s), ~s.held, NEW bok
  PROVE  Over(Deref(s, bok))
<1> DEFINE d == PutRefs(s, 0)
           w == TermWait(d)
<1>1. s \in Session /\ s.refs - 1 = 0  BY DEF Owned
<1>2. /\ d \in Session /\ d.refs = 0 /\ d.mem = s.mem /\ d.held = s.held
      /\ d.terminated = s.terminated /\ SameWork(d, s) /\ SameMedia(d, s)
  BY <1>1, PutRefsFacts
<1>3. Deref(s, bok) = Destructor(d, bok)
  <2>1. Deref(s, bok) = IF d.refs = 0 THEN Destructor(d, bok) ELSE d
    BY <1>1 DEF Deref, PutRefs
  <2> QED  BY <1>2, <2>1
<1>4. /\ w \in Session /\ w.terminated = 1 /\ ~w.tmr /\ ~w.st
      /\ w.mem = d.mem /\ w.refs = d.refs + Waits(d) /\ w.held = d.held
      /\ SameMedia(w, d)
      /\ w.req = d.req /\ w.replyl = d.replyl /\ w.requestl = d.requestl
  BY <1>2, TermWaitFacts
<1>5. Destructor(d, bok) = IF w.refs = 0 THEN Destructor(w, bok) ELSE w
  BY <1>2, <1>4 DEF Destructor, Owned
<1> HIDE DEF d, w
<1>6. Waits(w) = Waits(d) /\ Waits(d) \in Nat  BY <1>2, <1>4, WaitsFacts DEF Waits
<1>7. Waiting(w, 0) /\ ~w.held
  BY <1>2, <1>4, <1>6 DEF Owned, Waiting, SameWork, SameMedia
<1>8. CASE w.refs = 0
  BY <1>3, <1>5, <1>7, <1>8, DestructorEnds
<1>9. CASE w.refs # 0
  <2>1. w.refs \in Nat  BY <1>4 DEF Session
  <2>2. w.refs > 0  BY <1>9, <2>1
  <2> QED  BY <1>3, <1>5, <1>7, <1>9, <2>2 DEF Over
<1> QED  BY <1>8, <1>9

-----------------------------------------------------------------------------
(***************************************************************************)
(* The inductive invariant.  While the user holds the session, the three   *)
(* ways to be in an INVITE exchange exclude each other, and whatever is    *)
(* put off has what it needs: a description to offer, and an event to come *)
(* that picks it up.  A reply that waits for the answer in its ACK is the  *)
(* newest, since reinvite_handler refuses any other INVITE meanwhile.      *)
(***************************************************************************)
Exchange(s) ==
  /\ s.req # "none" => ~s.tmr /\ s.replyl = {}
  /\ s.tmr => s.replyl = {} /\ s.desc
  /\ s.modify_pending => s.desc /\ (s.req # "none" \/ s.tmr \/ s.replyl # {})
  /\ s.req = "reinvite" => s.desc
  /\ s.st => /\ s.req = "none" /\ ~s.tmr /\ s.replyl = {}
             /\ ~s.modify_pending

Awaits(s, n) ==
  /\ \A r \in s.replyl : r.seq <= n /\ (r.awaiting_answer => s.awaiting_answer)
  /\ \A r, q \in s.replyl : r.awaiting_answer /\ q # r => q.seq < r.seq
  /\ s.awaiting_answer => \E r \in s.replyl : r.awaiting_answer
  /\ s.st => n >= 1

Open(s, n) == Owned(s) /\ s.held /\ Exchange(s) /\ Awaits(s, n)

\* An open session that is in no exchange.
Quiet(s) ==
  /\ Owned(s) /\ s.held
  /\ s.req = "none" /\ ~s.tmr /\ ~s.st /\ s.replyl = {}
  /\ ~s.awaiting_answer

IInv ==
  /\ TypeOK
  /\ IF sess.mem = "none" THEN sess = Fresh
                          ELSE Open(sess, rseq) \/ Over(sess)

LEMMA QuietOpens ==
  ASSUME NEW s, Quiet(s), ~s.modify_pending, NEW n \in Nat
  PROVE  Open(s, n)
BY DEF Quiet, Open, Exchange, Awaits

LEMMA ReinviteOpens ==
  ASSUME NEW s, Quiet(s), NEW n \in Nat, NEW ok, NEW reset
  PROVE  /\ s.desc => Open(Reinvite(s, ok, reset), n)
         /\ ~ok => Quiet(Reinvite(s, ok, reset))
         /\ ~Reinvite(s, ok, reset).modify_pending
<1> DEFINE t == Reinvite(s, ok, reset)
<1>1. s \in Session /\ s.req = "none"  BY DEF Quiet, Owned
<1>2. /\ t \in Session /\ t.req = Sent("reinvite", ok)
      /\ t.sent_offer = s.desc /\ ~t.modify_pending
      /\ t.desc = s.desc /\ t.awaiting_answer = s.awaiting_answer
      /\ SameLife(t, s)
      /\ t.replyl = s.replyl /\ t.tmr = s.tmr /\ t.st = s.st
  BY <1>1, ReinviteFacts
<1> HIDE DEF t
<1>3. ~t.tmr /\ ~t.st /\ t.replyl = {} /\ ~t.awaiting_answer
  BY <1>2 DEF Quiet
<1>4. ~ok => Quiet(t)
  BY <1>2, <1>3 DEF Sent, Quiet, Owned, SameLife
<1>5. s.desc => Open(t, n)
  <2> SUFFICES ASSUME s.desc PROVE Open(t, n)  OBVIOUS
  <2>1. Owned(t) /\ t.held
    BY <1>2 DEF Sent, Quiet, Owned, SameLife
  <2>2. Exchange(t) /\ Awaits(t, n)
    BY <1>2, <1>3 DEF Sent, Exchange, Awaits
  <2> QED  BY <2>1, <2>2 DEF Open
<1> QED  BY <1>2, <1>4, <1>5 DEF t

LEMMA InviteOpens ==
  ASSUME NEW s, Quiet(s), NEW n \in Nat, NEW ok
  PROVE  /\ Open(Invite(s, ok), n)
         /\ ~ok => Quiet(Invite(s, ok))
<1> DEFINE t == Invite(s, ok)
<1>1. s \in Session  BY DEF Quiet, Owned
<1>2. /\ t \in Session /\ t.req = Sent("invite", ok)
      /\ ~t.modify_pending /\ t.awaiting_answer = s.awaiting_answer
      /\ SameLife(t, s)
      /\ t.replyl = s.replyl /\ t.tmr = s.tmr /\ t.st = s.st
  BY <1>1, InviteFacts
<1> HIDE DEF t
<1>3. Owned(t) /\ t.held
  BY <1>2 DEF Sent, Quiet, Owned, SameLife
<1>4. ~t.tmr /\ ~t.st /\ t.replyl = {} /\ ~t.awaiting_answer
  BY <1>2 DEF Quiet
<1>5. Exchange(t) /\ Awaits(t, n)
  BY <1>2, <1>4 DEF Sent, Exchange, Awaits
<1>6. ~ok => Quiet(t)
  BY <1>2, <1>3, <1>4 DEF Sent, Quiet
<1>7. Open(t, n)  BY <1>3, <1>5 DEF Open
<1> QED  BY <1>6, <1>7 DEF t

\* A final response frees the request; a session that is over thereby loses
\* what one of its references was for.
LEMMA ResponseFacts ==
  ASSUME NEW s \in Session, NEW r
  PROVE  LET a == Count(Answered(s), r)
         IN  /\ a \in Session /\ a.req = "none" /\ SameLife(a, s) /\ SamePast(a, s)
             /\ a.replyl = s.replyl /\ a.requestl = s.requestl
             /\ a.tmr = s.tmr /\ a.st = s.st /\ SameMedia(a, s)
<1> DEFINE q == Answered(s)
           a == Count(q, r)
<1>1. /\ q \in Session /\ q.req = "none" /\ SameLife(q, s) /\ SamePast(q, s)
      /\ q.replyl = s.replyl /\ q.requestl = s.requestl
      /\ q.tmr = s.tmr /\ q.st = s.st /\ SameMedia(q, s)
  BY AnsweredFacts
<1>2. /\ a \in Session /\ SameLife(a, q) /\ SamePast(a, q) /\ SameWork(a, q) /\ SameMedia(a, q)
  BY <1>1, CountFacts
<1>3. a = Count(Answered(s), r)  OBVIOUS
<1> HIDE DEF q, a
<1> QED  BY <1>1, <1>2, <1>3 DEF SameLife, SamePast, SameWork, SameMedia

LEMMA ResponseStages ==
  ASSUME NEW s, NEW n \in Nat, Open(s, n) \/ Over(s), s.req # "none", NEW r
  PROVE  LET a == Count(Answered(s), r)
         IN  \/ Open(s, n) /\ Quiet(a)
             \/ Waiting(s, 0) /\ Waiting(a, 1) /\ ~a.held
             \/ Closing(s, 0) /\ s.req = "bye" /\ Closing(a, 1) /\ ~a.held
<1> DEFINE a == Count(Answered(s), r)
<1>1. s \in Session  BY DEF Open, Owned, Over, Waiting, Closing, Gone
<1>2. /\ a \in Session /\ a.req = "none" /\ SameLife(a, s) /\ SamePast(a, s)
      /\ a.replyl = s.replyl /\ a.requestl = s.requestl
      /\ a.tmr = s.tmr /\ a.st = s.st /\ SameMedia(a, s)
  BY <1>1, ResponseFacts
<1>3. a = Count(Answered(s), r)  OBVIOUS
<1> HIDE DEF a
<1>4. CASE Open(s, n)
  <2>1. ~s.tmr /\ s.replyl = {} /\ ~s.st /\ ~s.awaiting_answer
    <3>1. s.st \in BOOLEAN /\ s.awaiting_answer \in BOOLEAN  BY <1>1 DEF Session
    <3> QED  BY <1>4, <3>1 DEF Open, Exchange, Awaits
  <2>2. Quiet(a)
    BY <1>2, <1>4, <2>1 DEF Open, Owned, Quiet, SameLife, SameMedia
  <2> QED  BY <1>3, <1>4, <2>2
<1>5. CASE Waiting(s, 0) /\ ~s.held
  <2>1. Waits(s) = 1 + Waits(a)  BY <1>2 DEF Waits, Bit
  <2>2. Waits(a) \in Nat  BY <1>2, WaitsFacts
  <2>3. Waiting(a, 1) /\ ~a.held
    BY <1>2, <1>5, <2>1, <2>2 DEF Waiting, SameLife, SameMedia
  <2> QED  BY <1>3, <1>5, <2>3
<1>6. CASE Closing(s, 0) /\ ~s.held
  <2>1. Closing(a, 1) /\ ~a.held
    BY <1>2, <1>6 DEF Closing, Bit, SameLife, SamePast
  <2>2. s.req = "bye"  BY <1>6 DEF Closing
  <2> QED  BY <1>3, <1>6, <2>1, <2>2
<1>7. ~Gone(s)  BY DEF Gone
<1> QED  BY <1>4, <1>5, <1>6, <1>7 DEF Over

\* The exits of the response handlers.
LEMMA OutEnds ==
  ASSUME NEW s, Owned(s) \/ (Waiting(s, 1) /\ ~s.held), NEW bok
  PROVE  Over(Out(s, bok))
<1>1. CASE Owned(s)
  BY <1>1, SessTerminateEnds DEF Out, Owned
<1>2. CASE Waiting(s, 1) /\ ~s.held
  <2>1. Out(s, bok) = Deref(s, bok)  BY <1>2 DEF Out, Waiting
  <2> QED  BY <1>2, <2>1, DerefEnds
<1> QED  BY <1>1, <1>2

LEMMA ReinviteOutEnds ==
  ASSUME NEW s, NEW n \in Nat, NEW r, NEW ok, NEW bok,
         \/ Quiet(s) /\ (s.modify_pending => s.desc)
         \/ Waiting(s, 1) /\ ~s.held
  PROVE  Open(ReinviteOut(s, r, ok, bok), n) \/ Over(ReinviteOut(s, r, ok, bok))
<1>1. CASE Quiet(s) /\ (s.modify_pending => s.desc)
  <2>1. Owned(s) /\ s.terminated = 0 /\ s \in Session  BY <1>1 DEF Quiet, Owned
  <2>2. CASE r = "timeout"
    <3>1. ReinviteOut(s, r, ok, bok) = SessTerminate(s, bok)  BY <2>1, <2>2 DEF ReinviteOut
    <3> QED  BY <3>1, <2>1, SessTerminateEnds
  <2>3. CASE r # "timeout" /\ s.modify_pending
    <3>1. ReinviteOut(s, r, ok, bok) = Reinvite(s, ok, TRUE)  BY <2>1, <2>3 DEF ReinviteOut
    <3>2. s.desc  BY <1>1, <2>3
    <3> QED  BY <3>1, <3>2, <1>1, ReinviteOpens
  <2>4. CASE r # "timeout" /\ ~s.modify_pending
    <3> DEFINE t == PutDesc(s, FALSE)
    <3>1. ReinviteOut(s, r, ok, bok) = t  BY <2>1, <2>4 DEF ReinviteOut, PutDesc
    <3>2. /\ t \in Session /\ SameLife(t, s) /\ SameWork(t, s)
          /\ t.awaiting_answer = s.awaiting_answer
          /\ t.modify_pending = s.modify_pending /\ t.sent_offer = s.sent_offer
      BY <2>1, PutDescFacts
    <3> HIDE DEF t
    <3>3. Quiet(t)  BY <1>1, <3>2 DEF Quiet, Owned, SameLife, SameWork
    <3>4. ~t.modify_pending
      <4>1. s.modify_pending \in BOOLEAN  BY <2>1 DEF Session
      <4> QED  BY <2>4, <3>2, <4>1
    <3> QED  BY <3>1, <3>3, <3>4, QuietOpens
  <2> QED  BY <2>2, <2>3, <2>4
<1>2. CASE Waiting(s, 1) /\ ~s.held
  <2>1. ReinviteOut(s, r, ok, bok) = Deref(s, bok)  BY <1>2 DEF ReinviteOut, Waiting
  <2> QED  BY <1>2, <2>1, DerefEnds
<1> QED  BY <1>1, <1>2

-----------------------------------------------------------------------------
(***************************************************************************)
(* The responses keep the invariant.                                       *)
(***************************************************************************)
Good(s, n) == Open(s, n) \/ Over(s)

\* Nothing happens to a session before it exists.
LEMMA Alive ==
  ASSUME IInv,
         \/ sess.held \/ sess.st \/ sess.tmr \/ sess.req # "none"
         \/ sess.replyl # {} \/ sess.requestl # {} \/ Live(sess)
  PROVE  Good(sess, rseq) /\ rseq \in Nat /\ sess \in Session
<1>1. sess.mem # "none"
  <2> SUFFICES ASSUME sess = Fresh PROVE FALSE  BY DEF IInv, Live
  <2> QED  BY DEF Fresh, Live
<1> QED  BY <1>1, MaxSeqAssumption DEF IInv, TypeOK, Good

LEMMA InviteOkKeeps ==
  ASSUME IInv, NEW dok, NEW cok, NEW ok, NEW bok, InviteOk(dok, cok, ok, bok)
  PROVE  Good(sess', rseq')
<1>0. PICK reset : reset = TRUE  OBVIOUS
<1> DEFINE a == Count(Answered(sess), "ok")
           x == PutEstablished(a, TRUE)
           e == PutModify(x, a.modify_pending /\ a.sent_offer)
           f == PutDesc(e, FALSE)
           leave == ~cok \/ a.terminated # 0
<1>1. /\ sess.req = "invite" /\ rseq' = rseq
      /\ sess' = IF ~dok THEN Out(a, bok)
                 ELSE IF leave THEN Out(e, bok)
                 ELSE IF e.modify_pending THEN Reinvite(e, ok, reset) ELSE f
  BY <1>0 DEF InviteOk, PutEstablished, PutModify, PutDesc
<1>2. Good(sess, rseq) /\ rseq \in Nat /\ sess \in Session  BY <1>1, Alive
<1>3. \/ Open(sess, rseq) /\ Quiet(a)
      \/ Waiting(sess, 0) /\ Waiting(a, 1) /\ ~a.held
  BY <1>1, <1>2, ResponseStages DEF Good
<1>4. a \in Session /\ SameMedia(a, sess) /\ a.modify_pending \in BOOLEAN
  BY <1>2, ResponseFacts DEF Session
<1> HIDE DEF a
<1>5. /\ x \in Session /\ SameLife(x, a) /\ SameWork(x, a) /\ SameMedia(x, a)
  BY <1>4, PutEstablishedFacts
<1> HIDE DEF x
<1>6. /\ e \in Session /\ SameLife(e, x) /\ SameWork(e, x)
      /\ e.modify_pending = (a.modify_pending /\ a.sent_offer)
      /\ e.awaiting_answer = x.awaiting_answer /\ e.desc = x.desc /\ e.sent_offer = x.sent_offer
  BY <1>5, PutModifyFacts
<1> HIDE DEF e
<1>7. /\ f \in Session /\ SameLife(f, e) /\ SameWork(f, e)
      /\ f.modify_pending = e.modify_pending
      /\ f.awaiting_answer = e.awaiting_answer /\ f.sent_offer = e.sent_offer
  BY <1>6, PutDescFacts
<1> HIDE DEF f
<1>8. CASE Open(sess, rseq) /\ Quiet(a)
  <2>1. Quiet(e)
    BY <1>5, <1>6, <1>8 DEF Quiet, Owned, SameLife, SameWork, SameMedia
  <2>2. Over(Out(a, bok)) /\ Over(Out(e, bok))
    BY <1>8, <2>1, OutEnds DEF Quiet
  <2>3. ASSUME e.modify_pending PROVE Open(Reinvite(e, ok, reset), rseq)
    <3>1. sess.modify_pending  BY <1>4, <1>6, <2>3 DEF SameMedia
    <3>2. e.desc  BY <1>4, <1>5, <1>6, <1>8, <3>1 DEF Open, Exchange, SameMedia
    <3> QED  BY <1>2, <2>1, <3>2, ReinviteOpens
  <2>4. ASSUME ~e.modify_pending PROVE Open(f, rseq)
    <3>1. Quiet(f) /\ ~f.modify_pending
      BY <1>7, <2>1, <2>4 DEF Quiet, Owned, SameLife, SameWork
    <3> QED  BY <1>2, <3>1, QuietOpens
  <2> QED  BY <1>1, <2>2, <2>3, <2>4 DEF Good
<1>9. CASE Waiting(a, 1) /\ ~a.held
  <2>1. Waits(e) = Waits(a)  BY <1>5, <1>6 DEF Waits, SameWork
  <2>2. Waiting(e, 1) /\ ~e.held
    BY <1>5, <1>6, <1>9, <2>1 DEF Waiting, SameLife, SameWork, SameMedia
  <2>3. Over(Out(a, bok)) /\ Over(Out(e, bok))
    BY <1>9, <2>2, OutEnds
  <2>4. leave  BY <1>9 DEF Waiting
  <2> QED  BY <1>1, <2>3, <2>4 DEF Good
<1> QED  BY <1>3, <1>8, <1>9

LEMMA InviteFailKeeps ==
  ASSUME IInv, NEW r, NEW tried, NEW ok, NEW bok, InviteFail(r, tried, ok, bok)
  PROVE  Good(sess', rseq')
<1> DEFINE a == Count(Answered(sess), r)
           again == /\ r \in {"redirect", "auth"} /\ tried
                    /\ ~Fails(sess.failc, r) /\ a.terminated = 0
<1>0. PICK yes, no : yes = TRUE /\ no = FALSE  OBVIOUS
<1>1. /\ sess.req = "invite" /\ rseq' = rseq
      /\ sess' = IF again /\ ok THEN Invite(a, yes)
                 ELSE Out(IF again THEN Invite(a, no) ELSE a, bok)
  BY <1>0 DEF InviteFail
<1>2. Good(sess, rseq) /\ rseq \in Nat /\ sess \in Session  BY <1>1, Alive
<1>3. \/ Quiet(a)
      \/ Waiting(a, 1) /\ ~a.held
  BY <1>1, <1>2, ResponseStages DEF Good
<1> HIDE DEF a
<1>4. CASE Quiet(a)
  <2>1. Open(Invite(a, yes), rseq)  BY <1>2, <1>4, InviteOpens
  <2>2. Quiet(Invite(a, no))  BY <1>0, <1>4, InviteOpens
  <2>3. Over(Out(a, bok)) /\ Over(Out(Invite(a, no), bok))
    BY <1>4, <2>2, OutEnds DEF Quiet
  <2> QED  BY <1>1, <2>1, <2>3 DEF Good
<1>5. CASE Waiting(a, 1) /\ ~a.held
  <2>1. ~again  BY <1>5 DEF Waiting
  <2>2. sess' = Out(a, bok)  BY <1>1, <2>1
  <2> QED  BY <1>5, <2>2, OutEnds DEF Good
<1> QED  BY <1>3, <1>4, <1>5

LEMMA ReinviteOkKeeps ==
  ASSUME IInv, NEW ok, NEW bok, ReinviteOk(ok, bok)
  PROVE  Good(sess', rseq')
<1> DEFINE a == Count(Answered(sess), "ok")
           e == PutModify(a, a.modify_pending /\ a.sent_offer)
<1>1. /\ sess.req = "reinvite" /\ rseq' = rseq
      /\ sess' = ReinviteOut(e, "ok", ok, bok)
  BY DEF ReinviteOk, PutModify
<1>2. Good(sess, rseq) /\ rseq \in Nat /\ sess \in Session  BY <1>1, Alive
<1>3. \/ Open(sess, rseq) /\ Quiet(a)
      \/ Waiting(a, 1) /\ ~a.held
  BY <1>1, <1>2, ResponseStages DEF Good
<1>4. a \in Session /\ SameMedia(a, sess) /\ a.modify_pending \in BOOLEAN
  BY <1>2, ResponseFacts DEF Session
<1> HIDE DEF a
<1>5. /\ e \in Session /\ SameLife(e, a) /\ SameWork(e, a)
      /\ e.modify_pending = (a.modify_pending /\ a.sent_offer)
      /\ e.awaiting_answer = a.awaiting_answer /\ e.desc = a.desc /\ e.sent_offer = a.sent_offer
  BY <1>4, PutModifyFacts
<1> HIDE DEF e
<1>6. CASE Open(sess, rseq) /\ Quiet(a)
  <2>1. Quiet(e)
    BY <1>5, <1>6 DEF Quiet, Owned, SameLife, SameWork
  <2>2. e.desc
    BY <1>1, <1>4, <1>5, <1>6 DEF Open, Exchange, SameMedia
  <2> QED  BY <1>1, <1>2, <2>1, <2>2, ReinviteOutEnds DEF Good
<1>7. CASE Waiting(a, 1) /\ ~a.held
  <2>1. Waits(e) = Waits(a)  BY <1>5 DEF Waits, SameWork
  <2>2. Waiting(e, 1) /\ ~e.held
    BY <1>5, <1>7, <2>1 DEF Waiting, SameLife, SameWork
  <2> QED  BY <1>1, <1>2, <2>2, ReinviteOutEnds DEF Good
<1> QED  BY <1>3, <1>6, <1>7

LEMMA ReinviteFailKeeps ==
  ASSUME IInv, NEW r, NEW tried, NEW ok, NEW bok, ReinviteFail(r, tried, ok, bok)
  PROVE  Good(sess', rseq')
<1> DEFINE a == Count(Answered(sess), r)
           handled == ~Fails(sess.failc, r) /\ a.terminated = 0
           late == PutTmr(a, TRUE)
<1>0. PICK yes, no : yes = TRUE /\ no = FALSE  OBVIOUS
<1>1. /\ sess.req = "reinvite" /\ rseq' = rseq
      /\ sess' = IF handled /\ r = "gone" THEN SessTerminate(a, bok)
                 ELSE IF handled /\ r \in {"glare", "retry"} THEN late
                 ELSE IF handled /\ r = "auth" /\ tried
                      THEN IF ok THEN Reinvite(a, yes, no)
                           ELSE ReinviteOut(Reinvite(a, no, no), "auth", ok, bok)
                 ELSE ReinviteOut(a, r, ok, bok)
  BY <1>0 DEF ReinviteFail, PutTmr
<1>2. Good(sess, rseq) /\ rseq \in Nat /\ sess \in Session  BY <1>1, Alive
<1>3. \/ Open(sess, rseq) /\ Quiet(a)
      \/ Waiting(a, 1) /\ ~a.held
  BY <1>1, <1>2, ResponseStages DEF Good
<1>4. a \in Session /\ SameMedia(a, sess)
  BY <1>2, ResponseFacts
<1> HIDE DEF a
<1>5. /\ late \in Session /\ late.tmr /\ SameLife(late, a)
      /\ late.req = a.req /\ late.replyl = a.replyl /\ late.st = a.st
      /\ SameMedia(late, a)
  BY <1>4, PutTmrFacts
<1> HIDE DEF late
<1>6. CASE Open(sess, rseq) /\ Quiet(a)
  <2>1. a.desc
    BY <1>1, <1>4, <1>6 DEF Open, Exchange, SameMedia
  <2>2. Over(SessTerminate(a, bok))  BY <1>6, SessTerminateEnds DEF Quiet
  <2>3. Open(late, rseq)
    BY <1>2, <1>5, <1>6, <2>1 DEF Quiet, Owned, Open, Exchange, Awaits, SameLife, SameMedia
  <2>4. Open(Reinvite(a, yes, no), rseq)  BY <1>2, <1>6, <2>1, ReinviteOpens
  <2>5. /\ Quiet(Reinvite(a, no, no))
        /\ ~Reinvite(a, no, no).modify_pending
    BY <1>0, <1>2, <1>6, ReinviteOpens
  <2>6. Good(ReinviteOut(Reinvite(a, no, no), "auth", ok, bok), rseq)
    BY <1>2, <2>5, ReinviteOutEnds DEF Good
  <2>7. Good(ReinviteOut(a, r, ok, bok), rseq)
    BY <1>2, <1>6, <2>1, ReinviteOutEnds DEF Good
  <2> QED  BY <1>1, <2>2, <2>3, <2>4, <2>6, <2>7 DEF Good
<1>7. CASE Waiting(a, 1) /\ ~a.held
  <2>1. ~handled  BY <1>7 DEF Waiting
  <2>2. sess' = ReinviteOut(a, r, ok, bok)  BY <1>1, <2>1
  <2> QED  BY <1>1, <1>2, <1>7, <2>2, ReinviteOutEnds DEF Good
<1> QED  BY <1>3, <1>6, <1>7

LEMMA ByeFinalKeeps ==
  ASSUME IInv, NEW r, NEW tried, NEW ok, ByeFinal(r, tried, ok)
  PROVE  Good(sess', rseq')
<1>0. PICK no : no = FALSE  OBVIOUS
<1> DEFINE a == Count(Answered(sess), r)
           b == Bye(a, ok, no)
           again == /\ r = "auth" /\ tried /\ ~Fails(sess.failc, r) /\ ~a.peerterm
<1>1. /\ sess.req = "bye" /\ rseq' = rseq
      /\ sess' = IF again /\ ok THEN b ELSE Deref(IF again THEN b ELSE a, ok)
  BY <1>0 DEF ByeFinal
<1>2. Good(sess, rseq) /\ rseq \in Nat /\ sess \in Session  BY <1>1, Alive
<1>3. ~Open(sess, rseq) /\ ~Waiting(sess, 0)
  BY <1>1 DEF Open, Owned, Waiting
<1>4. Closing(a, 1) /\ ~a.held
  BY <1>1, <1>2, <1>3, ResponseStages DEF Good
<1>5. a \in Session /\ a.req = "none"
  BY <1>2, ResponseFacts
<1> HIDE DEF a
<1>6. /\ b \in Session /\ b.req = Sent("bye", ok) /\ b.bye # "none"
      /\ SameLife(b, a) /\ b.replyl = a.replyl /\ b.requestl = a.requestl
      /\ b.tmr = a.tmr /\ b.st = a.st
  BY <1>5, ByeFacts
<1> HIDE DEF b
<1>7. CASE again /\ ok
  <2>1. Closing(b, 0) /\ ~b.held /\ b.refs > 0
    BY <1>4, <1>5, <1>6, <1>7 DEF Closing, Bit, Sent, SameLife
  <2> QED  BY <1>1, <1>7, <2>1 DEF Good, Over
<1>8. CASE again /\ ~ok
  <2>1. Closing(b, 1) /\ ~b.held
    BY <1>4, <1>5, <1>6, <1>8 DEF Closing, Bit, Sent, SameLife
  <2>2. sess' = Deref(b, ok)  BY <1>1, <1>8
  <2> QED  BY <2>1, <2>2, DerefEnds DEF Good
<1>9. CASE ~again
  <2>1. sess' = Deref(a, ok)  BY <1>1, <1>9
  <2> QED  BY <1>4, <2>1, DerefEnds DEF Good
<1> QED  BY <1>7, <1>8, <1>9

\* Ending a session whose INFO is still on the list leaves it waiting for it.
LEMMA SessTerminateWaits ==
  ASSUME NEW s, Owned(s), s.requestl # {}, NEW bok
  PROVE  LET t == SessTerminate(s, bok)
         IN  Waiting(t, 0) /\ ~t.held /\ t.requestl = s.requestl
<1>0. PICK no : no = FALSE  OBVIOUS
<1> DEFINE w == TermWait(s)
           h == PutHeld(w, no)
           d == PutRefs(h, h.refs - 1)
<1>1. s \in Session /\ s.refs = 1  BY DEF Owned
<1>2. Waits(s) \in Nat /\ Waits(s) # 0  BY <1>1, WaitsFacts
<1>3. SessTerminate(s, bok) = Deref(h, bok)
  BY <1>0, <1>2 DEF SessTerminate, PutHeld
<1>4. /\ w \in Session /\ w.terminated = 1 /\ ~w.tmr /\ ~w.st
      /\ w.mem = s.mem /\ w.refs = s.refs + Waits(s) /\ SameMedia(w, s)
      /\ w.req = s.req /\ w.replyl = s.replyl /\ w.requestl = s.requestl
  BY <1>1, TermWaitFacts
<1> HIDE DEF w
<1>5. /\ h \in Session /\ h.held = no /\ h.mem = w.mem /\ h.refs = w.refs
      /\ h.terminated = w.terminated /\ SameWork(h, w) /\ SameMedia(h, w)
  BY <1>0, <1>4, PutHeldFacts
<1>6. h.refs - 1 \in Nat  BY <1>1, <1>2, <1>4, <1>5
<1>7. Deref(h, bok) = IF d.refs = 0 THEN Destructor(d, bok) ELSE d
  BY DEF Deref, PutRefs
<1> HIDE DEF h
<1>8. /\ d \in Session /\ d.refs = h.refs - 1 /\ d.mem = h.mem /\ d.held = h.held
      /\ d.terminated = h.terminated /\ SameWork(d, h) /\ SameMedia(d, h)
  BY <1>5, <1>6, PutRefsFacts
<1> HIDE DEF d
<1>9. d.refs = Waits(s)  BY <1>1, <1>2, <1>4, <1>5, <1>8
<1>10. SessTerminate(s, bok) = d  BY <1>2, <1>3, <1>7, <1>9
<1>11. Waits(d) = Waits(s)  BY <1>4, <1>5, <1>8 DEF Waits, SameWork
<1>12. Waiting(d, 0)
  BY <1>2, <1>4, <1>5, <1>8, <1>9, <1>11 DEF Owned, Waiting, SameWork, SameMedia
<1>13. ~d.held /\ d.requestl = s.requestl
  BY <1>0, <1>4, <1>5, <1>8 DEF SameWork
<1> QED  BY <1>10, <1>12, <1>13

LEMMA DropInfoKeeps ==
  ASSUME NEW s, NEW i, i \in s.requestl, NEW n, NEW bok,
         Open(s, n) \/ (Waiting(s, 0) /\ ~s.held)
  PROVE  Good(DropInfo(s, i, bok), n)
<1> DEFINE d == PutRequestl(s, s.requestl \ {i})
<1>1. s \in Session  BY DEF Open, Owned, Waiting
<1>2. s.requestl \ {i} \in SUBSET Info  BY <1>1 DEF Session
<1>3. DropInfo(s, i, bok) =
        IF d.terminated # 0 /\ d.requestl = {} THEN Deref(d, bok) ELSE d
  BY DEF DropInfo, PutRequestl
<1>4. /\ d \in Session /\ d.requestl = s.requestl \ {i}
      /\ SameLife(d, s) /\ d.req = s.req /\ d.replyl = s.replyl
      /\ d.tmr = s.tmr /\ d.st = s.st /\ SameMedia(d, s)
  BY <1>1, <1>2, PutRequestlFacts
<1> HIDE DEF d
<1>5. CASE Open(s, n)
  <2>1. Open(d, n)
    BY <1>4, <1>5 DEF Open, Owned, Exchange, Awaits, SameLife, SameMedia
  <2>2. d.terminated = 0  BY <2>1 DEF Open, Owned
  <2> QED  BY <1>3, <2>1, <2>2 DEF Good
<1>6. CASE Waiting(s, 0) /\ ~s.held
  <2>1. d.terminated # 0 /\ ~d.held  BY <1>4, <1>6 DEF Waiting, SameLife
  <2>2. Waits(s) \in Nat /\ Waits(d) \in Nat  BY <1>1, <1>4, WaitsFacts
  <2>3. CASE d.requestl = {}
    <3>1. Waits(s) = 1 + Waits(d)  BY <1>4, <2>3 DEF Waits, Bit
    <3>2. Waiting(d, 1)
      BY <1>4, <1>6, <2>2, <3>1 DEF Waiting, SameLife, SameMedia
    <3> QED  BY <1>3, <2>1, <2>3, <3>2, DerefEnds DEF Good
  <2>4. CASE d.requestl # {}
    <3>1. Waits(s) = Waits(d)  BY <1>4, <2>4 DEF Waits, Bit
    <3>2. Waiting(d, 0) /\ d.refs = Waits(d)
      BY <1>4, <1>6, <2>2, <3>1 DEF Waiting, SameLife, SameMedia
    <3>3. d.refs > 0  BY <1>4, <2>2, <2>4, <3>2, WaitsFacts
    <3> QED  BY <1>3, <2>1, <2>4, <3>2, <3>3 DEF Good, Over
  <2> QED  BY <2>3, <2>4
<1> QED  BY <1>5, <1>6

LEMMA InfoFinalKeeps ==
  ASSUME IInv, NEW i \in Info, NEW r, NEW again, NEW bok, InfoFinal(i, r, again, bok)
  PROVE  Good(sess', rseq')
<1> DEFINE handled == ~Fails(i.failc, r) /\ sess.terminated = 0
           ends == sess.terminated = 0 /\ (r = "timeout" \/ (handled /\ r = "gone"))
           t == IF ends THEN SessTerminate(sess, bok) ELSE sess
           j == [i EXCEPT !.failc = FailCount(@, r)]
           u == (sess.requestl \ {i}) \cup {j}
           d == PutRequestl(sess, u)
<1>1. /\ i \in sess.requestl /\ rseq' = rseq
      /\ sess' = IF handled /\ r = "auth" /\ again THEN d ELSE DropInfo(t, i, bok)
  BY DEF InfoFinal, PutRequestl
<1>2. Good(sess, rseq) /\ rseq \in Nat /\ sess \in Session
  <2>1. sess.requestl # {}  BY <1>1
  <2> QED  BY <2>1, Alive
<1>3. Open(sess, rseq) \/ (Waiting(sess, 0) /\ ~sess.held)
  BY <1>1, <1>2 DEF Good, Over, Closing, Gone
<1>4. CASE handled /\ r = "auth" /\ again
  <2>1. j \in Info
    <3>1. FailCount(i.failc, r) \in 0..LoopMax
      BY LoopMaxAssumption DEF FailCount, Info
    <3> QED  BY <3>1 DEF Info
  <2> HIDE DEF j
  <2>2. u \in SUBSET Info
    <3>1. sess.requestl \in SUBSET Info  BY <1>2 DEF Session
    <3> QED  BY <2>1, <3>1
  <2> HIDE DEF u
  <2>3. /\ d \in Session /\ SameLife(d, sess) /\ d.req = sess.req /\ d.replyl = sess.replyl
        /\ d.tmr = sess.tmr /\ d.st = sess.st /\ SameMedia(d, sess)
    BY <1>2, <2>2, PutRequestlFacts
  <2> HIDE DEF d
  <2>4. Open(sess, rseq)  BY <1>3, <1>4 DEF Waiting
  <2>5. Open(d, rseq)
    BY <2>3, <2>4 DEF Open, Owned, Exchange, Awaits, SameLife, SameMedia
  <2> QED  BY <1>1, <1>4, <2>5 DEF Good
<1>5. CASE ~(handled /\ r = "auth" /\ again)
  <2>1. sess' = DropInfo(t, i, bok)  BY <1>1, <1>5
  <2>2. i \in t.requestl /\ (Open(t, rseq) \/ (Waiting(t, 0) /\ ~t.held))
    <3>1. CASE ends
      <4>1. Owned(sess) /\ sess.requestl # {}
        BY <1>1, <1>3, <3>1 DEF Open, Waiting
      <4>2. t = SessTerminate(sess, bok)  BY <3>1
      <4> QED  BY <1>1, <4>1, <4>2, SessTerminateWaits
    <3>2. CASE ~ends
      BY <1>1, <1>3, <3>2
    <3> QED  BY <3>1, <3>2
  <2> HIDE DEF t
  <2> QED  BY <1>1, <2>1, <2>2, DropInfoKeeps
<1> QED  BY <1>4, <1>5

-----------------------------------------------------------------------------
(***************************************************************************)
(* The peer's requests and the timers keep the invariant.                  *)
(***************************************************************************)
LEMMA DropReplyFacts ==
  ASSUME NEW s \in Session, NEW r
  PROVE  LET t == DropReply(s, r)
         IN  /\ t \in Session /\ t.replyl = s.replyl \ {r}
             /\ SameLife(t, s) /\ SamePast(t, s) /\ SameMedia(t, s)
             /\ t.req = s.req /\ t.requestl = s.requestl /\ t.tmr = s.tmr /\ t.st = s.st
<1>1. DropReply(s, r) = PutReplyl(s, s.replyl \ {r})  BY DEF DropReply, PutReplyl
<1>2. s.replyl \ {r} \in SUBSET Reply  BY DEF Session
<1> QED  BY <1>1, <1>2, PutReplylFacts

\* A session that is over and loses a reply without an ACK.
LEMMA DropReplyStage ==
  ASSUME NEW s, Waiting(s, 0), NEW r \in s.replyl
  PROVE  LET t == DropReply(s, r)
         IN  /\ t.replyl = {} => Waiting(t, 1)
             /\ t.replyl # {} => Waiting(t, 0) /\ t.refs > 0
<1> DEFINE t == DropReply(s, r)
<1>1. s \in Session  BY DEF Waiting
<1>2. /\ t \in Session /\ t.replyl = s.replyl \ {r}
      /\ SameLife(t, s) /\ SameMedia(t, s)
      /\ t.req = s.req /\ t.requestl = s.requestl /\ t.tmr = s.tmr /\ t.st = s.st
  BY <1>1, DropReplyFacts
<1> HIDE DEF t
<1>3. Waits(s) \in Nat /\ Waits(t) \in Nat  BY <1>1, <1>2, WaitsFacts
<1>4. ASSUME t.replyl = {} PROVE Waiting(t, 1)
  <2>1. Waits(s) = 1 + Waits(t)  BY <1>2, <1>4 DEF Waits, Bit
  <2> QED  BY <1>2, <1>3, <2>1 DEF Waiting, SameLife, SameMedia
<1>5. ASSUME t.replyl # {} PROVE Waiting(t, 0) /\ t.refs > 0
  <2>1. Waits(s) = Waits(t)  BY <1>2, <1>5 DEF Waits, Bit
  <2>2. Waits(t) > 0  BY <1>2, <1>3, <1>5, WaitsFacts
  <2> QED  BY <1>2, <1>3, <2>1, <2>2 DEF Waiting, SameLife, SameMedia
<1> QED  BY <1>4, <1>5 DEF t

\* Whether the session was ever established matters to its end only.
LEMMA EstablishedStages ==
  ASSUME NEW s \in Session, NEW v \in BOOLEAN
  PROVE  LET t == PutEstablished(s, v)
         IN  /\ t \in Session /\ SameLife(t, s)
             /\ \A n : Open(s, n) => Open(t, n)
             /\ Owned(s) => Owned(t)
             /\ \A n : Waiting(s, n) => Waiting(t, n)
<1> DEFINE t == PutEstablished(s, v)
<1>1. t \in Session /\ SameLife(t, s) /\ SameWork(t, s) /\ SameMedia(t, s)
  BY PutEstablishedFacts
<1> HIDE DEF t
<1>2. Waits(t) = Waits(s)  BY <1>1 DEF Waits, SameWork
<1>3. Owned(s) => Owned(t)  BY <1>1 DEF Owned, SameLife, SameWork, SameMedia
<1>4. ASSUME NEW n, Open(s, n) PROVE Open(t, n)
  BY <1>1, <1>3, <1>4 DEF Open, Exchange, Awaits, SameLife, SameWork, SameMedia
<1>5. ASSUME NEW n, Waiting(s, n) PROVE Waiting(t, n)
  BY <1>1, <1>2, <1>5 DEF Waiting, SameLife, SameWork, SameMedia
<1> QED  BY <1>1, <1>3, <1>4, <1>5 DEF t

\* The reply that an ACK or a timeout removes from an open session.
LEMMA DropReplyOpen ==
  ASSUME NEW s, NEW n \in Nat, Open(s, n), NEW r \in s.replyl
  PROVE  LET t == DropReply(s, r)
         IN  /\ Owned(t) /\ t.held /\ t \in Session
             /\ t.req = "none" /\ ~t.tmr /\ ~t.st /\ t.replyl = s.replyl \ {r}
             /\ SamePast(t, s) /\ SameMedia(t, s)
<1>1. s \in Session /\ s.replyl # {}  BY DEF Open, Owned
<1>2. s.req = "none" /\ ~s.tmr /\ ~s.st  BY <1>1 DEF Open, Exchange
<1>3. /\ DropReply(s, r) \in Session /\ DropReply(s, r).replyl = s.replyl \ {r}
      /\ SameLife(DropReply(s, r), s) /\ SamePast(DropReply(s, r), s)
      /\ SameMedia(DropReply(s, r), s)
      /\ DropReply(s, r).req = s.req /\ DropReply(s, r).tmr = s.tmr
      /\ DropReply(s, r).st = s.st
  BY <1>1, DropReplyFacts
<1> QED  BY <1>2, <1>3 DEF Open, Owned, SameLife, SameMedia

LEMMA AckKeeps ==
  ASSUME IInv, NEW reply \in Reply, NEW cok, NEW ok, NEW bok, Ack(reply, cok, ok, bok)
  PROVE  Good(sess', rseq')
<1>0. PICK yes : yes = TRUE  OBVIOUS
<1> DEFINE d == DropReply(sess, reply)
           y == PutAwaiting(d, FALSE)
           a == IF reply.awaiting_answer THEN y ELSE d
           m == IF a.modify_pending /\ a.replyl = {} THEN Reinvite(a, ok, yes) ELSE a
           e == PutEstablished(m, TRUE)
           x == PutEstablished(d, TRUE)
           bad == reply.awaiting_answer /\ ~cok
<1>1. /\ reply \in sess.replyl /\ rseq' = rseq
      /\ sess' = IF sess.terminated # 0
                 THEN IF d.replyl = {} THEN Deref(x, bok) ELSE d
                 ELSE IF ~m.established /\ bad THEN SessTerminate(e, bok) ELSE e
  BY <1>0 DEF Ack, AnswerReceived, PutAwaiting, PutEstablished
<1>2. Good(sess, rseq) /\ rseq \in Nat /\ sess \in Session
  <2>1. sess.replyl # {}  BY <1>1
  <2> QED  BY <2>1, Alive
<1>3. Open(sess, rseq) \/ (Waiting(sess, 0) /\ ~sess.held)
  BY <1>1, <1>2 DEF Good, Over, Closing, Gone
<1>4. CASE Open(sess, rseq)
  <2>1. sess.terminated = 0  BY <1>4 DEF Open, Owned
  <2>2. /\ Owned(d) /\ d.held /\ d \in Session
        /\ d.req = "none" /\ ~d.tmr /\ ~d.st /\ d.replyl = sess.replyl \ {reply}
        /\ SameMedia(d, sess)
    BY <1>1, <1>2, <1>4, DropReplyOpen
  <2> HIDE DEF d
  <2>3. /\ y \in Session /\ ~y.awaiting_answer /\ SameLife(y, d) /\ SameWork(y, d)
        /\ y.modify_pending = d.modify_pending /\ y.desc = d.desc
        /\ y.sent_offer = d.sent_offer
    BY <2>2, PutAwaitingFacts
  <2> HIDE DEF y
  <2>4. /\ Owned(a) /\ a.held /\ a \in Session
        /\ a.req = "none" /\ ~a.tmr /\ ~a.st /\ a.replyl = sess.replyl \ {reply}
        /\ a.modify_pending = sess.modify_pending /\ a.desc = sess.desc
        /\ a.awaiting_answer => sess.awaiting_answer /\ ~reply.awaiting_answer
        /\ ~reply.awaiting_answer => a.awaiting_answer = sess.awaiting_answer
    <3>1. CASE reply.awaiting_answer
      BY <2>2, <2>3, <3>1 DEF Owned, SameLife, SameWork, SameMedia
    <3>2. CASE ~reply.awaiting_answer
      BY <2>2, <3>2 DEF SameMedia
    <3> QED  BY <3>1, <3>2
  <2> HIDE DEF a
  <2>5. ASSUME a.replyl = {} PROVE Quiet(a)
    <3>1. ~a.awaiting_answer
      <4> SUFFICES ASSUME a.awaiting_answer PROVE FALSE  OBVIOUS
      <4>1. \E q \in sess.replyl : q.awaiting_answer  BY <1>4, <2>4 DEF Open, Awaits
      <4> QED  BY <2>4, <2>5, <4>1
    <3> QED  BY <2>4, <2>5, <3>1 DEF Quiet
  <2>6. sess.modify_pending => a.desc  BY <1>4, <2>4 DEF Open, Exchange
  <2>7. CASE a.modify_pending /\ a.replyl = {}
    <3>1. Open(m, rseq)
      BY <1>2, <2>4, <2>5, <2>6, <2>7, ReinviteOpens
    <3> HIDE DEF m
    <3>2. m \in Session  BY <3>1 DEF Open, Owned
    <3>3. Open(e, rseq) /\ Owned(e)  BY <3>1, <3>2, EstablishedStages DEF Open
    <3> HIDE DEF e
    <3>4. Over(SessTerminate(e, bok))  BY <3>3, SessTerminateEnds
    <3> QED  BY <1>1, <2>1, <3>3, <3>4 DEF Good
  <2>8. CASE ~(a.modify_pending /\ a.replyl = {})
    <3>1. m = a  BY <2>8
    <3>2. Exchange(a)  BY <2>4, <2>6, <2>8 DEF Exchange
    <3>3. Awaits(a, rseq)
      <4>1. \A r \in sess.replyl : r.seq <= rseq /\ (r.awaiting_answer => sess.awaiting_answer)
        BY <1>4 DEF Open, Awaits
      <4>2. \A r, q \in sess.replyl : r.awaiting_answer /\ q # r => q.seq < r.seq
        BY <1>4 DEF Open, Awaits
      <4>3. sess.awaiting_answer => \E r \in sess.replyl : r.awaiting_answer
        BY <1>4 DEF Open, Awaits
      <4>4. a.awaiting_answer => \E r \in a.replyl : r.awaiting_answer
        BY <2>4, <4>3
      <4>5. \A r, q \in a.replyl : r.awaiting_answer /\ q # r => q.seq < r.seq
        BY <2>4, <4>2
      <4>6. ASSUME NEW r \in a.replyl
            PROVE  r.seq <= rseq /\ (r.awaiting_answer => a.awaiting_answer)
        <5>1. r \in sess.replyl /\ r # reply  BY <2>4, <4>6
        <5>2. r.seq <= rseq  BY <4>1, <5>1
        <5>3. CASE ~reply.awaiting_answer
          BY <2>4, <4>1, <5>1, <5>2, <5>3
        <5>4. CASE reply.awaiting_answer
          <6>1. ~r.awaiting_answer
            <7> SUFFICES ASSUME r.awaiting_answer PROVE FALSE  OBVIOUS
            <7>1. reply.seq < r.seq /\ r.seq < reply.seq
              BY <1>1, <4>2, <5>1, <5>4
            <7>2. r \in Reply  BY <1>2, <5>1 DEF Session
            <7> QED  BY <7>1, <7>2 DEF Reply, Seqs
          <6> QED  BY <5>2, <6>1
        <5> QED  BY <5>3, <5>4
      <4> QED  BY <2>4, <4>4, <4>5, <4>6 DEF Awaits
    <3>4. Open(a, rseq)  BY <2>4, <3>2, <3>3 DEF Open
    <3> HIDE DEF m
    <3>5. Open(e, rseq) /\ Owned(e)
      BY <2>4, <3>1, <3>4, EstablishedStages DEF Open
    <3> HIDE DEF e
    <3>6. Over(SessTerminate(e, bok))  BY <3>5, SessTerminateEnds
    <3> QED  BY <1>1, <2>1, <3>5, <3>6 DEF Good
  <2> QED  BY <2>7, <2>8
<1>5. CASE Waiting(sess, 0) /\ ~sess.held
  <2>1. sess.terminated # 0  BY <1>5 DEF Waiting
  <2>2. d \in Session /\ SameLife(d, sess)  BY <1>2, DropReplyFacts
  <2>3. /\ d.replyl = {} => Waiting(d, 1)
        /\ d.replyl # {} => Waiting(d, 0) /\ d.refs > 0
    BY <1>1, <1>5, DropReplyStage
  <2> HIDE DEF d
  <2>4. SameLife(x, d) /\ (Waiting(d, 1) => Waiting(x, 1))
    BY <2>2, EstablishedStages
  <2> HIDE DEF x
  <2>5. ~d.held /\ ~x.held  BY <1>5, <2>2, <2>4 DEF SameLife
  <2>6. CASE d.replyl = {}
    BY <1>1, <2>1, <2>3, <2>4, <2>5, <2>6, DerefEnds DEF Good
  <2>7. CASE d.replyl # {}
    BY <1>1, <2>1, <2>3, <2>5, <2>7 DEF Good, Over
  <2> QED  BY <2>6, <2>7
<1> QED  BY <1>3, <1>4, <1>5

LEMMA ReplyTimeoutKeeps ==
  ASSUME IInv, NEW reply \in Reply, NEW bok, ReplyTimeout(reply, bok)
  PROVE  Good(sess', rseq')
<1> DEFINE d == DropReply(sess, reply)
           x == PutEstablished(d, TRUE)
<1>1. /\ reply \in sess.replyl /\ rseq' = rseq
      /\ \A other \in sess.replyl : reply.seq <= other.seq
      /\ sess' = IF d.replyl # {} THEN d ELSE Out(x, bok)
  BY DEF ReplyTimeout, PutEstablished
<1>2. Good(sess, rseq) /\ rseq \in Nat /\ sess \in Session
  <2>1. sess.replyl # {}  BY <1>1
  <2> QED  BY <2>1, Alive
<1>3. Open(sess, rseq) \/ (Waiting(sess, 0) /\ ~sess.held)
  BY <1>1, <1>2 DEF Good, Over, Closing, Gone
<1>4. CASE Open(sess, rseq)
  <2>1. /\ Owned(d) /\ d.held /\ d \in Session
        /\ d.req = "none" /\ ~d.tmr /\ ~d.st /\ d.replyl = sess.replyl \ {reply}
        /\ SameMedia(d, sess)
    BY <1>1, <1>2, <1>4, DropReplyOpen
  <2> HIDE DEF d
  <2>2. Owned(x)  BY <2>1, EstablishedStages
  <2>3. CASE d.replyl = {}
    BY <1>1, <2>2, <2>3, OutEnds DEF Good
  <2>4. CASE d.replyl # {}
    <3>1. Exchange(d)
      BY <1>4, <2>1, <2>4 DEF Open, Exchange, SameMedia
    <3>2. \A r \in sess.replyl : r.seq <= rseq /\ (r.awaiting_answer => sess.awaiting_answer)
      BY <1>4 DEF Open, Awaits
    <3>3. \A r, q \in sess.replyl : r.awaiting_answer /\ q # r => q.seq < r.seq
      BY <1>4 DEF Open, Awaits
    <3>4. ASSUME d.awaiting_answer PROVE \E r \in d.replyl : r.awaiting_answer
      <4>1. PICK r \in sess.replyl : r.awaiting_answer
        BY <1>4, <2>1, <3>4 DEF Open, Awaits, SameMedia
      <4>2. r # reply
        <5> SUFFICES ASSUME r = reply PROVE FALSE  OBVIOUS
        <5>1. PICK q \in d.replyl : TRUE  BY <2>4
        <5>2. q \in sess.replyl /\ q # reply  BY <2>1, <5>1
        <5>3. q.seq < reply.seq /\ reply.seq <= q.seq
          BY <1>1, <3>3, <4>1, <5>2
        <5>4. q \in Reply  BY <1>2, <5>2 DEF Session
        <5> QED  BY <5>3, <5>4 DEF Reply, Seqs
      <4> QED  BY <2>1, <4>1, <4>2
    <3>5. \A r \in d.replyl : r.seq <= rseq /\ (r.awaiting_answer => d.awaiting_answer)
      BY <2>1, <3>2 DEF SameMedia
    <3>6. \A r, q \in d.replyl : r.awaiting_answer /\ q # r => q.seq < r.seq
      BY <2>1, <3>3
    <3>7. Awaits(d, rseq)
      BY <2>1, <3>4, <3>5, <3>6 DEF Awaits
    <3> QED  BY <1>1, <2>1, <2>4, <3>1, <3>7 DEF Good, Open
  <2> QED  BY <2>3, <2>4
<1>5. CASE Waiting(sess, 0) /\ ~sess.held
  <2>1. d \in Session /\ SameLife(d, sess)  BY <1>2, DropReplyFacts
  <2>2. /\ d.replyl = {} => Waiting(d, 1)
        /\ d.replyl # {} => Waiting(d, 0) /\ d.refs > 0
    BY <1>1, <1>5, DropReplyStage
  <2> HIDE DEF d
  <2>3. SameLife(x, d) /\ (Waiting(d, 1) => Waiting(x, 1))
    BY <2>1, EstablishedStages
  <2> HIDE DEF x
  <2>4. ~d.held /\ ~x.held  BY <1>5, <2>1, <2>3 DEF SameLife
  <2>5. CASE d.replyl = {}
    BY <1>1, <2>2, <2>3, <2>4, <2>5, OutEnds DEF Good
  <2>6. CASE d.replyl # {}
    BY <1>1, <2>2, <2>4, <2>6 DEF Good, Over
  <2> QED  BY <2>5, <2>6
<1> QED  BY <1>3, <1>4, <1>5

\* The peer's BYE and CANCEL.
LEMMA PeerEndsKeeps ==
  ASSUME IInv, NEW bok, PeerBye(bok) \/ PeerCancel(bok)
  PROVE  Good(sess', rseq')
<1>0. PICK yes, no : yes = TRUE /\ no = FALSE  OBVIOUS
<1> DEFINE p == PutPeerterm(sess, yes)
           x == PutSt(p, no)
           c == PutPeerterm(PutSt(sess, no), yes)
<1>1. /\ rseq' = rseq /\ (Live(sess) \/ sess.st)
      /\ sess' = (IF p.terminated # 0 THEN p ELSE SessTerminate(x, bok))
           \/ (sess.st /\ sess' = IF c.terminated # 0 THEN c ELSE SessTerminate(c, bok))
  BY <1>0 DEF PeerBye, PeerCancel, InDialog, PutPeerterm, PutSt
<1>2. Good(sess, rseq) /\ rseq \in Nat /\ sess \in Session  BY <1>1, Alive
<1>3. /\ p \in Session /\ p.peerterm = yes /\ SameLife(p, sess)
      /\ SameWork(p, sess) /\ SameMedia(p, sess) /\ p.established = sess.established
  BY <1>0, <1>2, PutPeertermFacts
<1>4. PutSt(sess, no) \in Session
  BY <1>0, <1>2, PutStFacts
<1>5. /\ SameLife(PutSt(sess, no), sess) /\ SameMedia(PutSt(sess, no), sess)
      /\ PutSt(sess, no).req = sess.req
  BY <1>0, <1>2, PutStFacts
<1>6. /\ c \in Session /\ SameLife(c, PutSt(sess, no))
      /\ SameMedia(c, PutSt(sess, no)) /\ SameWork(c, PutSt(sess, no))
  BY <1>0, <1>4, PutPeertermFacts
<1> HIDE DEF p
<1>7. x \in Session /\ SameLife(x, p) /\ SameMedia(x, p) /\ x.req = p.req
  BY <1>0, <1>3, PutStFacts
<1> HIDE DEF x, c
<1>8. CASE Open(sess, rseq)
  <2>1. Owned(x) /\ p.terminated = 0
    BY <1>3, <1>7, <1>8 DEF Open, Owned, SameLife, SameWork, SameMedia
  <2>2. Owned(c) /\ c.terminated = 0
    BY <1>5, <1>6, <1>8 DEF Open, Owned, SameLife, SameWork, SameMedia
  <2> QED  BY <1>1, <2>1, <2>2, SessTerminateEnds DEF Good
<1>9. CASE Over(sess)
  <2>1. p.terminated # 0 /\ ~sess.st
    BY <1>3, <1>9 DEF Over, Waiting, Closing, Gone, SameLife
  <2>2. sess' = p  BY <1>1, <2>1
  <2>3. Waits(p) = Waits(sess)  BY <1>3 DEF Waits, SameWork
  <2>4. p.peerterm  BY <1>0, <1>3
  <2>5. Over(p)
    <3>1. Waiting(sess, 0) => Waiting(p, 0)
      BY <1>3, <2>3 DEF Waiting, SameLife, SameWork, SameMedia
    <3>2. Closing(sess, 0) => Closing(p, 0)
      BY <1>3, <2>4 DEF Closing, SameLife, SameWork
    <3>3. Gone(sess) => Gone(p)
      BY <1>3, <2>4 DEF Gone, SameLife, SameWork
    <3> QED  BY <1>3, <1>9, <3>1, <3>2, <3>3 DEF Over, SameLife
  <2> QED  BY <2>2, <2>5 DEF Good
<1> QED  BY <1>2, <1>8, <1>9 DEF Good

\* A 2xx to an INVITE, the newest of the dialog, when no answer is awaited.
LEMMA Reply2xxFacts ==
  ASSUME NEW s, NEW n \in Nat, Open(s, n), s.req = "none", ~s.awaiting_answer,
         NEW seq \in Seqs, NEW awaits \in BOOLEAN, NEW ok,
         \A r \in s.replyl : r.seq < seq
  PROVE  LET t == Reply2xx(s, seq, awaits, ok)
         IN  /\ Owned(t) /\ t.held /\ Awaits(t, seq)
             /\ t.req = "none" /\ ~t.st /\ t.tmr = s.tmr
             /\ t.modify_pending = s.modify_pending
<1>0. PICK no : no = FALSE  OBVIOUS
<1> DEFINE q == [seq |-> seq, awaiting_answer |-> awaits]
           f == PutSt(s, no)
           l == PutReplyl(f, s.replyl \cup {q})
           t == PutAwaiting(l, s.awaiting_answer \/ awaits)
<1>1. Reply2xx(s, seq, awaits, ok) = IF ok THEN t ELSE f
  BY <1>0 DEF Reply2xx, PutSt, PutReplyl, PutAwaiting
<1>2. s \in Session /\ s.replyl \in SUBSET Reply  BY DEF Open, Owned, Session
<1>3. f \in Session /\ f.st = no
      /\ SameLife(f, s) /\ f.req = s.req /\ f.replyl = s.replyl /\ f.tmr = s.tmr
      /\ SameMedia(f, s)
  BY <1>0, <1>2, PutStFacts
<1> HIDE DEF f
<1>4. q \in Reply  BY DEF Reply
<1>5. q.seq = seq /\ q.awaiting_answer = awaits  OBVIOUS
<1> HIDE DEF q
<1>6. /\ l \in Session /\ l.replyl = s.replyl \cup {q}
      /\ SameLife(l, f) /\ l.req = f.req /\ l.tmr = f.tmr /\ l.st = f.st
      /\ SameMedia(l, f)
  BY <1>2, <1>3, <1>4, PutReplylFacts
<1> HIDE DEF l
<1>7. (s.awaiting_answer \/ awaits) \in BOOLEAN  OBVIOUS
<1>8. /\ t \in Session /\ t.awaiting_answer = (s.awaiting_answer \/ awaits)
      /\ SameLife(t, l) /\ SameWork(t, l)
      /\ t.modify_pending = l.modify_pending /\ t.desc = l.desc
      /\ t.sent_offer = l.sent_offer
  BY <1>6, <1>7, PutAwaitingFacts
<1> HIDE DEF t
<1>9. /\ Owned(f) /\ f.held /\ ~f.st /\ Owned(t) /\ t.held /\ ~t.st
      /\ t.req = "none" /\ t.tmr = s.tmr /\ t.replyl = s.replyl \cup {q}
      /\ t.modify_pending = s.modify_pending
  BY <1>0, <1>3, <1>6, <1>8 DEF Open, Owned, SameLife, SameWork, SameMedia
<1>11. \A r \in s.replyl : r.seq \in Nat /\ r.seq <= seq /\ ~r.awaiting_answer
  <2> SUFFICES ASSUME NEW r \in s.replyl
               PROVE  r.seq \in Nat /\ r.seq <= seq /\ ~r.awaiting_answer
    OBVIOUS
  <2>1. r \in Reply /\ r.seq < seq  BY <1>2
  <2>2. r.seq \in Nat  BY <2>1 DEF Reply, Seqs
  <2>3. ~r.awaiting_answer  BY DEF Open, Awaits
  <2> QED  BY <2>1, <2>2, <2>3, MaxSeqAssumption DEF Seqs
<1>12. Awaits(f, seq)
  BY <1>3, <1>9, <1>11 DEF Awaits, SameMedia
<1>13. Awaits(t, seq)
  <2>1. t.awaiting_answer = awaits  BY <1>8
  <2>2. \A r \in t.replyl : r.seq <= seq /\ (r.awaiting_answer => t.awaiting_answer)
    BY <1>5, <1>9, <1>11, <2>1, MaxSeqAssumption DEF Seqs
  <2>3. \A r, p \in t.replyl : r.awaiting_answer /\ p # r => p.seq < r.seq
    BY <1>5, <1>9, <1>11
  <2>4. t.awaiting_answer => \E r \in t.replyl : r.awaiting_answer
    BY <1>5, <1>9, <2>1
  <2> QED  BY <1>9, <2>2, <2>3, <2>4 DEF Awaits
<1> QED  BY <1>1, <1>3, <1>9, <1>12, <1>13 DEF SameMedia

LEMMA PeerReinviteKeeps ==
  ASSUME IInv, NEW offerless \in BOOLEAN, NEW cok, NEW ok, PeerReinvite(offerless, cok, ok)
  PROVE  Good(sess', rseq')
<1>0. PICK no : no = FALSE  OBVIOUS
<1> DEFINE r == Reply2xx(sess, rseq + 1, offerless, ok)
           x == PutDesc(r, no)
           y == PutModify(x, no)
           t == PutTmr(y, no)
           free == ~sess.st /\ ~sess.awaiting_answer /\ sess.req = "none"
<1>1. /\ Live(sess) /\ sess.terminated = 0 /\ rseq < MaxSeq /\ rseq' = rseq + 1
      /\ sess' = IF free /\ cok THEN t ELSE sess
  BY <1>0 DEF PeerReinvite, InDialog, PutDesc, PutModify, PutTmr
<1>2. Good(sess, rseq) /\ rseq \in Nat /\ sess \in Session  BY <1>1, Alive
<1>3. Open(sess, rseq)
  BY <1>1, <1>2 DEF Good, Over, Waiting, Closing, Gone
<1>4. \A q \in sess.replyl : q.seq \in Nat /\ q.seq <= rseq
  BY <1>2, <1>3 DEF Open, Awaits, Session, Reply, Seqs
<1>5. rseq + 1 \in Seqs
  BY <1>1, <1>2, MaxSeqAssumption DEF Seqs
<1>6. CASE free /\ cok
  <2>1. \A q \in sess.replyl : q.seq < rseq + 1  BY <1>2, <1>4
  <2>2. /\ Owned(r) /\ r.held /\ Awaits(r, rseq + 1)
        /\ r.req = "none" /\ ~r.st
    BY <1>2, <1>3, <1>5, <1>6, <2>1, Reply2xxFacts
  <2>3. r \in Session  BY <2>2 DEF Owned
  <2> HIDE DEF r
  <2>4. /\ x \in Session /\ SameLife(x, r) /\ SameWork(x, r)
        /\ x.awaiting_answer = r.awaiting_answer /\ x.sent_offer = r.sent_offer
    BY <1>0, <2>3, PutDescFacts
  <2> HIDE DEF x
  <2>5. /\ y \in Session /\ y.modify_pending = no /\ SameLife(y, x) /\ SameWork(y, x)
        /\ y.awaiting_answer = x.awaiting_answer /\ y.sent_offer = x.sent_offer
    BY <1>0, <2>4, PutModifyFacts
  <2> HIDE DEF y
  <2>6. /\ t \in Session /\ t.tmr = no /\ SameLife(t, y) /\ SameMedia(t, y)
        /\ t.req = y.req /\ t.replyl = y.replyl /\ t.st = y.st
    BY <1>0, <2>5, PutTmrFacts
  <2> HIDE DEF t
  <2>7. Owned(t) /\ t.held
    BY <2>2, <2>4, <2>5, <2>6 DEF Owned, SameLife, SameWork, SameMedia
  <2>8. ~t.tmr /\ ~t.modify_pending /\ t.req = "none" /\ ~t.st
    BY <1>0, <2>2, <2>4, <2>5, <2>6 DEF SameWork, SameMedia
  <2>9. t.replyl = r.replyl /\ t.awaiting_answer = r.awaiting_answer
    BY <2>4, <2>5, <2>6 DEF SameWork, SameMedia
  <2>10. Exchange(t) /\ Awaits(t, rseq + 1)
    BY <2>2, <2>8, <2>9 DEF Exchange, Awaits
  <2> QED  BY <1>1, <1>6, <2>7, <2>10 DEF Good, Open
<1>7. CASE ~(free /\ cok)
  <2>1. Awaits(sess, rseq + 1)
    BY <1>2, <1>3, <1>4 DEF Open, Awaits
  <2> QED  BY <1>1, <1>3, <1>7, <2>1 DEF Good, Open
<1> QED  BY <1>6, <1>7

LEMMA RetryKeeps ==
  ASSUME IInv, NEW ok, RetryFires(ok)
  PROVE  Good(sess', rseq')
<1>0. PICK yes, no : yes = TRUE /\ no = FALSE  OBVIOUS
<1> DEFINE t == PutTmr(sess, no)
<1>1. /\ sess.tmr /\ rseq' = rseq /\ sess' = Reinvite(t, ok, yes)
  BY <1>0 DEF RetryFires, PutTmr
<1>2. Good(sess, rseq) /\ rseq \in Nat /\ sess \in Session  BY <1>1, Alive
<1>3. Open(sess, rseq)
  BY <1>1, <1>2 DEF Good, Over, Waiting, Closing, Gone
<1>4. /\ t \in Session /\ t.tmr = no /\ SameLife(t, sess) /\ SameMedia(t, sess)
      /\ t.req = sess.req /\ t.replyl = sess.replyl /\ t.st = sess.st
  BY <1>0, <1>2, PutTmrFacts
<1> HIDE DEF t
<1>5. /\ sess.req = "none" /\ sess.replyl = {} /\ ~sess.st /\ sess.desc
      /\ ~sess.awaiting_answer
  BY <1>1, <1>3 DEF Open, Exchange, Awaits
<1>6. Quiet(t) /\ t.desc
  BY <1>0, <1>3, <1>4, <1>5 DEF Open, Owned, Quiet, SameLife, SameMedia
<1> QED  BY <1>1, <1>2, <1>6, ReinviteOpens DEF Good

-----------------------------------------------------------------------------
(***************************************************************************)
(* The user's operations keep the invariant.                               *)
(***************************************************************************)
\* A session just allocated by sipsess_alloc.
LEMMA NewFacts ==
         LET t == [Fresh EXCEPT !.mem = "live", !.refs = 1]
         IN  /\ Owned(t) /\ ~t.held /\ t.req = "none" /\ ~t.tmr /\ ~t.st
             /\ t.replyl = {} /\ ~t.awaiting_answer /\ ~t.modify_pending
<1> DEFINE x == PutMem(Fresh, "live")
           t == PutRefs(x, 1)
<1>1. [Fresh EXCEPT !.mem = "live", !.refs = 1] = t
  BY DEF PutMem, PutRefs
<1>2. Fresh \in Session
  BY LoopMaxAssumption DEF Fresh, Session, Blocks, Reqs
<1>3. /\ Fresh.terminated = 0 /\ ~Fresh.held /\ Fresh.req = "none" /\ ~Fresh.tmr
      /\ ~Fresh.st /\ Fresh.replyl = {} /\ ~Fresh.awaiting_answer
      /\ ~Fresh.modify_pending
  BY DEF Fresh
<1>4. /\ x \in Session /\ x.mem = "live" /\ x.held = Fresh.held
      /\ x.terminated = Fresh.terminated /\ SameWork(x, Fresh) /\ SameMedia(x, Fresh)
  BY <1>2, PutMemFacts DEF Blocks
<1> HIDE DEF x
<1>5. /\ t \in Session /\ t.refs = 1 /\ t.mem = x.mem /\ t.held = x.held
      /\ t.terminated = x.terminated /\ SameWork(t, x) /\ SameMedia(t, x)
  BY <1>4, PutRefsFacts
<1> HIDE DEF t
<1> QED
  BY <1>1, <1>3, <1>4, <1>5 DEF Owned, SameWork, SameMedia

LEMMA HoldFacts ==
  ASSUME NEW s, Owned(s), NEW v \in BOOLEAN
  PROVE  LET t == PutHeld(s, v)
         IN  /\ Owned(t) /\ t.held = v /\ SameWork(t, s) /\ SameMedia(t, s)
<1>1. s \in Session  BY DEF Owned
<1> QED  BY <1>1, PutHeldFacts DEF Owned, SameWork, SameMedia

LEMMA ConnectKeeps ==
  ASSUME IInv, NEW offer \in BOOLEAN, NEW ok, Connect(offer, ok)
  PROVE  Good(sess', rseq')
<1>0. PICK yes : yes = TRUE  OBVIOUS
<1> DEFINE n == [Fresh EXCEPT !.mem = "live", !.refs = 1]
           f == PutDesc(n, offer)
           new == Invite(f, ok)
           h == PutHeld(new, yes)
<1>1. rseq' = rseq /\ sess' = IF ok THEN h ELSE Deref(new, yes)
  BY <1>0 DEF Connect, PutDesc, PutHeld
<1>2. rseq \in Nat  BY MaxSeqAssumption DEF IInv, TypeOK
<1>3. /\ Owned(f) /\ ~f.held /\ f.req = "none" /\ ~f.tmr /\ ~f.st
      /\ f.replyl = {} /\ ~f.awaiting_answer /\ ~f.modify_pending
  <2>1. /\ Owned(n) /\ ~n.held /\ n.req = "none" /\ ~n.tmr /\ ~n.st
        /\ n.replyl = {} /\ ~n.awaiting_answer /\ ~n.modify_pending
    BY NewFacts
  <2> HIDE DEF n
  <2>2. n \in Session  BY <2>1 DEF Owned
  <2>3. /\ f \in Session /\ SameLife(f, n) /\ SameWork(f, n)
        /\ f.awaiting_answer = n.awaiting_answer /\ f.modify_pending = n.modify_pending
    BY <2>2, PutDescFacts
  <2> HIDE DEF f
  <2> QED  BY <2>1, <2>3 DEF Owned, SameLife, SameWork
<1> HIDE DEF f
<1>4. f \in Session  BY <1>3 DEF Owned
<1>5. /\ new \in Session /\ new.req = Sent("invite", ok)
      /\ ~new.modify_pending /\ new.awaiting_answer = f.awaiting_answer
      /\ SameLife(new, f)
      /\ new.replyl = f.replyl /\ new.tmr = f.tmr /\ new.st = f.st
  BY <1>4, InviteFacts
<1> HIDE DEF new
<1>6. Owned(new) /\ ~new.held
  BY <1>3, <1>5 DEF Owned, Sent, SameLife
<1>7. /\ Owned(h) /\ h.held = yes /\ SameWork(h, new) /\ SameMedia(h, new)
  BY <1>0, <1>6, HoldFacts
<1> HIDE DEF h
<1>8. Open(h, rseq)
  BY <1>0, <1>3, <1>5, <1>7 DEF Open, Exchange, Awaits, Sent, SameWork, SameMedia
<1>9. Over(Deref(new, yes))  BY <1>6, ReleaseEnds
<1> QED  BY <1>1, <1>8, <1>9 DEF Good

LEMMA AcceptKeeps ==
  ASSUME IInv, NEW ok, Accept(ok)
  PROVE  Good(sess', rseq')
<1>0. PICK yes : yes = TRUE  OBVIOUS
<1> DEFINE f == [Fresh EXCEPT !.mem = "live", !.refs = 1]
           h == PutHeld(f, yes)
           t == PutSt(h, yes)
<1>2. rseq' = 1 /\ sess' = IF ok THEN t ELSE Deref(f, yes)
  BY <1>0 DEF Accept, PutHeld, PutSt
<1>3. /\ Owned(f) /\ ~f.held /\ f.req = "none" /\ ~f.tmr /\ ~f.st
      /\ f.replyl = {} /\ ~f.awaiting_answer /\ ~f.modify_pending
  BY NewFacts
<1> HIDE DEF f
<1>4. /\ Owned(h) /\ h.held = yes /\ SameWork(h, f) /\ SameMedia(h, f)
  BY <1>0, <1>3, HoldFacts
<1> HIDE DEF h
<1>5. h \in Session  BY <1>4 DEF Owned
<1>6. /\ t \in Session /\ t.st = yes /\ SameLife(t, h)
      /\ t.req = h.req /\ t.replyl = h.replyl /\ t.tmr = h.tmr /\ SameMedia(t, h)
  BY <1>0, <1>5, PutStFacts
<1> HIDE DEF t
<1>7. Open(t, 1)
  BY <1>0, <1>3, <1>4, <1>6
     DEF Open, Owned, Exchange, Awaits, SameLife, SameWork, SameMedia
<1>8. Over(Deref(f, yes))  BY <1>3, ReleaseEnds
<1> QED  BY <1>2, <1>7, <1>8 DEF Good

\* An unanswered INVITE belongs to an open session in no exchange.
LEMMA UnansweredOpen ==
  ASSUME IInv, sess.st
  PROVE  /\ Open(sess, rseq) /\ rseq \in Nat /\ rseq >= 1
         /\ sess.req = "none" /\ ~sess.tmr /\ sess.replyl = {}
         /\ ~sess.modify_pending /\ ~sess.awaiting_answer
<1>1. Good(sess, rseq) /\ rseq \in Nat  BY Alive
<1>2. Open(sess, rseq)
  BY <1>1 DEF Good, Over, Waiting, Closing, Gone
<1> QED  BY <1>1, <1>2 DEF Open, Exchange, Awaits

LEMMA ProgressKeeps ==
  ASSUME IInv, NEW ok \in BOOLEAN, Progress(ok)
  PROVE  Good(sess', rseq')
<1> DEFINE t == PutSt(sess, ok)
<1>1. sess.st /\ rseq' = rseq /\ sess' = t  BY DEF Progress, PutSt
<1>2. /\ Open(sess, rseq) /\ rseq \in Nat /\ rseq >= 1
      /\ sess.req = "none" /\ ~sess.tmr /\ sess.replyl = {}
      /\ ~sess.modify_pending /\ ~sess.awaiting_answer
  BY <1>1, UnansweredOpen
<1>3. sess \in Session  BY <1>2 DEF Open, Owned
<1>4. /\ t \in Session /\ SameLife(t, sess) /\ SameMedia(t, sess)
      /\ t.req = sess.req /\ t.replyl = sess.replyl /\ t.tmr = sess.tmr
  BY <1>3, PutStFacts
<1> HIDE DEF t
<1>5. Open(t, rseq)
  BY <1>2, <1>4 DEF Open, Owned, Exchange, Awaits, SameLife, SameMedia
<1> QED  BY <1>1, <1>5 DEF Good

LEMMA AnswerKeeps ==
  ASSUME IInv, NEW offerless \in BOOLEAN, NEW ok, Answer(offerless, ok)
  PROVE  Good(sess', rseq')
<1> DEFINE t == Reply2xx(sess, 1, offerless, ok)
<1>1. sess.st /\ rseq' = rseq /\ sess' = t  BY DEF Answer
<1>2. /\ Open(sess, rseq) /\ rseq \in Nat /\ rseq >= 1
      /\ sess.req = "none" /\ ~sess.tmr /\ sess.replyl = {}
      /\ ~sess.modify_pending /\ ~sess.awaiting_answer
  BY <1>1, UnansweredOpen
<1>3. 1 \in Seqs  BY MaxSeqAssumption DEF Seqs
<1>4. /\ Owned(t) /\ t.held /\ Awaits(t, 1)
      /\ t.req = "none" /\ ~t.st /\ t.tmr = sess.tmr
      /\ t.modify_pending = sess.modify_pending
  BY <1>2, <1>3, Reply2xxFacts
<1> HIDE DEF t
<1>5. Exchange(t)  BY <1>2, <1>4 DEF Exchange
<1>6. \A r \in t.replyl : r.seq \in Nat
  BY <1>4 DEF Owned, Session, Reply, Seqs
<1>7. Awaits(t, rseq)  BY <1>2, <1>4, <1>6 DEF Awaits
<1> QED  BY <1>1, <1>4, <1>5, <1>7 DEF Good, Open

LEMMA ModifyKeeps ==
  ASSUME IInv, NEW ok, Modify(ok)
  PROVE  Good(sess', rseq')
<1>0. PICK yes : yes = TRUE  OBVIOUS
<1> DEFINE s == PutDesc(sess, yes)
           m == PutModify(s, yes)
<1>1. /\ sess.held /\ ~sess.st /\ sess.terminated = 0 /\ rseq' = rseq
      /\ sess' = IF sess.req # "none" \/ s.tmr \/ s.replyl # {} THEN m
                 ELSE Reinvite(s, ok, yes)
  BY <1>0 DEF Modify, PutDesc, PutModify
<1>2. Good(sess, rseq) /\ rseq \in Nat /\ sess \in Session  BY <1>1, Alive
<1>3. Open(sess, rseq)
  BY <1>1, <1>2 DEF Good, Over, Waiting, Closing, Gone
<1>4. /\ s \in Session /\ s.desc = yes /\ SameLife(s, sess) /\ SameWork(s, sess)
      /\ s.awaiting_answer = sess.awaiting_answer
      /\ s.modify_pending = sess.modify_pending /\ s.sent_offer = sess.sent_offer
  BY <1>0, <1>2, PutDescFacts
<1> HIDE DEF s
<1>5. /\ m \in Session /\ SameLife(m, s) /\ SameWork(m, s)
      /\ m.awaiting_answer = s.awaiting_answer /\ m.desc = s.desc
      /\ m.sent_offer = s.sent_offer
  BY <1>0, <1>4, PutModifyFacts
<1> HIDE DEF m
<1>6. CASE sess.req # "none" \/ s.tmr \/ s.replyl # {}
  <2>1. Owned(m) /\ m.held
    BY <1>3, <1>4, <1>5 DEF Open, Owned, SameLife, SameWork
  <2>2. Exchange(m)
    BY <1>0, <1>1, <1>3, <1>4, <1>5, <1>6 DEF Open, Exchange, SameWork
  <2>3. Awaits(m, rseq)
    BY <1>3, <1>4, <1>5 DEF Open, Awaits, SameWork
  <2> QED  BY <1>1, <1>6, <2>1, <2>2, <2>3 DEF Good, Open
<1>7. CASE ~(sess.req # "none" \/ s.tmr \/ s.replyl # {})
  <2>1. ~sess.awaiting_answer
    BY <1>3, <1>4, <1>7 DEF Open, Awaits, SameWork
  <2>2. Quiet(s) /\ s.desc
    BY <1>0, <1>1, <1>3, <1>4, <1>7, <2>1 DEF Open, Owned, Quiet, SameLife, SameWork
  <2> QED  BY <1>1, <1>2, <1>7, <2>2, ReinviteOpens DEF Good
<1> QED  BY <1>6, <1>7

LEMMA SendInfoKeeps ==
  ASSUME IInv, NEW i \in Infos, SendInfo(i)
  PROVE  Good(sess', rseq')
<1> DEFINE u == sess.requestl \cup {[id |-> i, failc |-> 0]}
           t == PutRequestl(sess, u)
<1>1. /\ sess.held /\ sess.terminated = 0 /\ rseq' = rseq /\ sess' = t
  BY DEF SendInfo, PutRequestl
<1>2. Good(sess, rseq) /\ rseq \in Nat /\ sess \in Session  BY <1>1, Alive
<1>3. Open(sess, rseq)
  BY <1>1, <1>2 DEF Good, Over, Waiting, Closing, Gone
<1>4. u \in SUBSET Info
  BY <1>2, LoopMaxAssumption DEF Session, Info
<1> HIDE DEF u
<1>5. /\ t \in Session /\ SameLife(t, sess) /\ t.req = sess.req
      /\ t.replyl = sess.replyl /\ t.tmr = sess.tmr /\ t.st = sess.st
      /\ SameMedia(t, sess)
  BY <1>2, <1>4, PutRequestlFacts
<1> HIDE DEF t
<1>6. Open(t, rseq)
  BY <1>3, <1>5 DEF Open, Owned, Exchange, Awaits, SameLife, SameMedia
<1> QED  BY <1>1, <1>6 DEF Good

LEMMA ReleaseKeeps ==
  ASSUME IInv, NEW bok, Release(bok)
  PROVE  Good(sess', rseq')
<1>0. PICK no : no = FALSE  OBVIOUS
<1> DEFINE h == PutHeld(sess, no)
           t == PutSt(h, no)
<1>1. sess.held /\ rseq' = rseq /\ sess' = Deref(t, bok)
  BY <1>0 DEF Release, PutHeld, PutSt
<1>2. Good(sess, rseq) /\ rseq \in Nat /\ sess \in Session  BY <1>1, Alive
<1>3. Open(sess, rseq)  BY <1>1, <1>2 DEF Good, Over
<1>4. Owned(h) /\ h.held = no  BY <1>0, <1>3, HoldFacts DEF Open
<1> HIDE DEF h
<1>5. h \in Session  BY <1>4 DEF Owned
<1>6. /\ t \in Session /\ SameLife(t, h) /\ SameMedia(t, h) /\ t.req = h.req
  BY <1>0, <1>5, PutStFacts
<1> HIDE DEF t
<1>7. Owned(t) /\ ~t.held
  BY <1>0, <1>4, <1>6 DEF Owned, SameLife, SameMedia
<1> QED  BY <1>1, <1>7, ReleaseEnds DEF Good

-----------------------------------------------------------------------------
(***************************************************************************)
(* Every step keeps the invariant, and the theorems.                       *)
(***************************************************************************)
LEMMA InitIInv == Init => IInv
<1> SUFFICES ASSUME Init PROVE IInv  OBVIOUS
<1>1. Fresh \in Session
  BY LoopMaxAssumption DEF Fresh, Session, Blocks, Reqs
<1>2. Fresh.mem = "none"  BY DEF Fresh
<1> QED  BY <1>1, <1>2, MaxSeqAssumption DEF Init, IInv, TypeOK

\* The session of every action but a provisional response.
LEMMA NextGood ==
  ASSUME IInv, Next
  PROVE  Notice \/ Good(sess', rseq')
<1>1. CASE User
  BY <1>1, AcceptKeeps, ProgressKeeps, ModifyKeeps, ReleaseKeeps, ConnectKeeps,
     AnswerKeeps, SendInfoKeeps DEF User
<1>2. CASE Peer
  BY <1>2, AckKeeps, PeerEndsKeeps, PeerReinviteKeeps DEF Peer
<1>3. CASE InviteFinal
  BY <1>3, InviteOkKeeps, InviteFailKeeps DEF InviteFinal
<1>4. CASE ReinviteFinal
  BY <1>4, ReinviteOkKeeps, ReinviteFailKeeps DEF ReinviteFinal
<1>5. CASE ByeDone
  BY <1>5, ByeFinalKeeps DEF ByeDone
<1>6. CASE \E i \in Info : InfoDone(i)
  BY <1>6, InfoFinalKeeps DEF InfoDone
<1>7. CASE ReplyTimer
  BY <1>7, ReplyTimeoutKeeps DEF ReplyTimer
<1>8. CASE RetryTimer
  BY <1>8, RetryKeeps DEF RetryTimer
<1> QED  BY <1>1, <1>2, <1>3, <1>4, <1>5, <1>6, <1>7, <1>8 DEF Next

\* Only an open session, whose user is there to be called, has handlers.
LEMMA HandlersOwned ==
  ASSUME IInv, sess.terminated = 0,
         \/ sess.held \/ sess.st \/ sess.tmr \/ sess.req # "none"
         \/ sess.replyl # {} \/ sess.requestl # {} \/ Live(sess)
  PROVE  sess.held
<1>1. Good(sess, rseq)  BY Alive
<1> QED  BY <1>1 DEF Good, Open, Over, Waiting, Closing, Gone

\* The two fields of a session that decide whom a response is handed to.
LEMMA AfterResponse ==
  ASSUME IInv, sess.req # "none", NEW r
  PROVE  LET a == Count(Answered(sess), r)
         IN  a \in Session /\ a.terminated = sess.terminated
<1>1. sess \in Session  BY DEF IInv, TypeOK
<1> QED  BY <1>1, ResponseFacts DEF SameLife

LEMMA ResponseUpcalls ==
  ASSUME IInv, Notice \/ InviteFinal \/ ReinviteFinal
  PROVE  role' = role /\ rseq' = rseq /\ ups' \in SUBSET Upcalls /\ (ups' # {} => sess.held)
<1>1. CASE Notice
  BY <1>1, HandlersOwned
     DEF Notice, RecvProvisional, PeerInfo, InDialog, Call, HandlersInstalled, Upcalls
<1>2. ASSUME NEW dok, NEW cok, NEW ok, NEW bok, InviteOk(dok, cok, ok, bok)
      PROVE  /\ role' = role /\ rseq' = rseq /\ ups' \in SUBSET Upcalls
             /\ ups' # {} => sess.held
  <2> DEFINE a == Count(Answered(sess), "ok")
             x == PutEstablished(a, TRUE)
             e == PutModify(x, a.modify_pending /\ a.sent_offer)
             leave == ~cok \/ a.terminated # 0
  <2>1. /\ sess.req = "invite" /\ role' = role /\ rseq' = rseq
        /\ ups' = IF ~dok THEN OutCalls(a)
                  ELSE Call(a, IF a.sent_offer THEN "answer" ELSE "offer")
                         \cup (IF leave THEN OutCalls(e) ELSE Call(e, "estab"))
    BY <1>2 DEF InviteOk, PutEstablished, PutModify
  <2>2. a \in Session /\ a.terminated = sess.terminated  BY <2>1, AfterResponse
  <2>3. a.modify_pending \in BOOLEAN  BY <2>2 DEF Session
  <2> HIDE DEF a
  <2>4. x \in Session /\ SameLife(x, a)  BY <2>2, PutEstablishedFacts
  <2> HIDE DEF x
  <2>5. SameLife(e, x)  BY <2>3, <2>4, PutModifyFacts
  <2> HIDE DEF e
  <2>6. e.terminated = sess.terminated  BY <2>2, <2>4, <2>5 DEF SameLife
  <2>7. ups' \in SUBSET Upcalls
    BY <2>1 DEF OutCalls, Call, Upcalls
  <2>8. sess.terminated # 0 => ups' = {}
    BY <2>1, <2>2, <2>6 DEF OutCalls, Call, HandlersInstalled
  <2> QED  BY <2>1, <2>7, <2>8, HandlersOwned
<1>3. ASSUME NEW r, NEW tried, NEW ok, NEW bok, InviteFail(r, tried, ok, bok)
      PROVE  /\ role' = role /\ rseq' = rseq /\ ups' \in SUBSET Upcalls
             /\ ups' # {} => sess.held
  <2> DEFINE a == Count(Answered(sess), r)
  <2>1. sess.req = "invite" /\ role' = role /\ rseq' = rseq /\ ups' \subseteq OutCalls(a)
    BY <1>3 DEF InviteFail
  <2>2. a.terminated = sess.terminated  BY <2>1, AfterResponse
  <2> HIDE DEF a
  <2> QED  BY <2>1, <2>2, HandlersOwned DEF OutCalls, Upcalls
<1>4. ASSUME NEW ok, NEW bok, ReinviteOk(ok, bok)
      PROVE  /\ role' = role /\ rseq' = rseq /\ ups' \in SUBSET Upcalls
             /\ ups' # {} => sess.held
  <2> DEFINE a == Count(Answered(sess), "ok")
  <2>1. /\ sess.req = "reinvite" /\ role' = role /\ rseq' = rseq
        /\ ups' = Call(a, IF a.sent_offer THEN "answer" ELSE "offer")
    BY <1>4 DEF ReinviteOk
  <2>2. a.terminated = sess.terminated  BY <2>1, AfterResponse
  <2> HIDE DEF a
  <2> QED  BY <2>1, <2>2, HandlersOwned DEF Call, HandlersInstalled, Upcalls
<1>5. ASSUME NEW r, NEW tried, NEW ok, NEW bok, ReinviteFail(r, tried, ok, bok)
      PROVE  /\ role' = role /\ rseq' = rseq /\ ups' \in SUBSET Upcalls
             /\ ups' # {} => sess.held
  <2> DEFINE a == Count(Answered(sess), r)
  <2>1. /\ sess.req = "reinvite" /\ role' = role /\ rseq' = rseq
        /\ ups' \subseteq {"close"} /\ (ups' # {} => a.terminated = 0)
    BY <1>5 DEF ReinviteFail
  <2>2. a.terminated = sess.terminated  BY <2>1, AfterResponse
  <2> HIDE DEF a
  <2> QED  BY <2>1, <2>2, HandlersOwned DEF Upcalls
<1> QED  BY <1>1, <1>2, <1>3, <1>4, <1>5 DEF InviteFinal, ReinviteFinal

LEMMA PeerUpcalls ==
  ASSUME IInv, Peer \/ ReplyTimer \/ (\E i \in Info : InfoDone(i))
  PROVE  /\ role' = role /\ (rseq' = rseq \/ (rseq < MaxSeq /\ rseq' = rseq + 1))
         /\ ups' \in SUBSET Upcalls /\ (ups' # {} => sess.held)
<1>0. sess \in Session  BY DEF IInv, TypeOK
<1>1. ASSUME NEW reply \in Reply, NEW cok, NEW ok, NEW bok, Ack(reply, cok, ok, bok)
      PROVE  /\ role' = role /\ rseq' = rseq /\ ups' \in SUBSET Upcalls
             /\ ups' # {} => sess.held
  <2>1. /\ role' = role /\ rseq' = rseq /\ sess.replyl # {}
        /\ ups' \subseteq {"answer", "estab", "close"}
        /\ ups' # {} => sess.terminated = 0
    BY <1>1 DEF Ack, AckCalls
  <2> QED  BY <2>1, HandlersOwned DEF Upcalls
<1>2. ASSUME NEW bok, PeerBye(bok)
      PROVE  /\ role' = role /\ rseq' = rseq /\ ups' \in SUBSET Upcalls
             /\ ups' # {} => sess.held
  <2>1. /\ role' = role /\ rseq' = rseq /\ Live(sess)
        /\ ups' = OutCalls(PutPeerterm(sess, TRUE))
    BY <1>2 DEF PeerBye, InDialog, PutPeerterm
  <2>2. PutPeerterm(sess, TRUE).terminated = sess.terminated
    BY <1>0, PutPeertermFacts DEF SameLife
  <2> QED  BY <2>1, <2>2, HandlersOwned DEF OutCalls, Upcalls
<1>3. ASSUME NEW bok, PeerCancel(bok)
      PROVE  /\ role' = role /\ rseq' = rseq /\ ups' \in SUBSET Upcalls
             /\ ups' # {} => sess.held
  <2>1. /\ role' = role /\ rseq' = rseq /\ sess.st /\ ups' \subseteq {"close"}
    BY <1>3 DEF PeerCancel, OutCalls
  <2>2. sess.held  BY <2>1, UnansweredOpen DEF Open
  <2> QED  BY <2>1, <2>2 DEF Upcalls
<1>4. ASSUME NEW x, NEW cok, NEW ok, PeerReinvite(x, cok, ok)
      PROVE  /\ role' = role /\ rseq < MaxSeq /\ rseq' = rseq + 1
             /\ ups' \in SUBSET Upcalls /\ (ups' # {} => sess.held)
  <2>1. /\ role' = role /\ rseq < MaxSeq /\ rseq' = rseq + 1 /\ Live(sess)
        /\ sess.terminated = 0 /\ ups' \subseteq {"offer"}
    BY <1>4 DEF PeerReinvite, InDialog
  <2> QED  BY <2>1, HandlersOwned DEF Upcalls
<1>5. ASSUME NEW reply \in Reply, NEW bok, ReplyTimeout(reply, bok)
      PROVE  /\ role' = role /\ rseq' = rseq /\ ups' \in SUBSET Upcalls
             /\ ups' # {} => sess.held
  <2>1. /\ role' = role /\ rseq' = rseq /\ sess.replyl # {}
        /\ ups' \subseteq OutCalls(DropReply(sess, reply))
    BY <1>5 DEF ReplyTimeout
  <2>2. DropReply(sess, reply).terminated = sess.terminated
    BY <1>0, DropReplyFacts DEF SameLife
  <2> QED  BY <2>1, <2>2, HandlersOwned DEF OutCalls, Upcalls
<1>6. ASSUME NEW i \in Info, NEW r, NEW again, NEW bok, InfoFinal(i, r, again, bok)
      PROVE  /\ role' = role /\ rseq' = rseq /\ ups' \in SUBSET Upcalls
             /\ ups' # {} => sess.held
  <2>1. /\ role' = role /\ rseq' = rseq /\ sess.requestl # {}
        /\ ups' \subseteq {"close", "resp"} /\ (ups' # {} => sess.terminated = 0)
    BY <1>6 DEF InfoFinal, Call, HandlersInstalled
  <2> QED  BY <2>1, HandlersOwned DEF Upcalls
<1> QED
  BY <1>1, <1>2, <1>3, <1>4, <1>5, <1>6 DEF Peer, ReplyTimer, InfoDone

\* The user's own calls, the answer to a BYE and the retry timer call nobody.
LEMMA SilentSteps ==
  ASSUME IInv, User \/ ByeDone \/ RetryTimer
  PROVE  role' = role /\ (rseq' = rseq \/ rseq' = 1) /\ ups' = {}
BY DEF User, Accept, Progress, Modify, Release, Connect, Answer, SendInfo,
       ByeDone, ByeFinal, RetryTimer, RetryFires

LEMMA NextUpcalls ==
  ASSUME IInv, Next
  PROVE  /\ role' \in {"uac", "uas"} /\ rseq' \in 0..MaxSeq
         /\ ups' \in SUBSET Upcalls /\ (ups' # {} => sess.held)
<1>1. role \in {"uac", "uas"} /\ rseq \in 0..MaxSeq  BY DEF IInv, TypeOK
<1>2. CASE Notice \/ InviteFinal \/ ReinviteFinal
  BY <1>1, <1>2, ResponseUpcalls
<1>3. CASE Peer \/ ReplyTimer \/ (\E i \in Info : InfoDone(i))
  <2>1. /\ role' = role /\ (rseq' = rseq \/ (rseq < MaxSeq /\ rseq' = rseq + 1))
        /\ ups' \in SUBSET Upcalls /\ (ups' # {} => sess.held)
    BY <1>3, PeerUpcalls
  <2> QED  BY <1>1, <2>1, MaxSeqAssumption
<1>4. CASE User \/ ByeDone \/ RetryTimer
  <2>1. role' = role /\ (rseq' = rseq \/ rseq' = 1) /\ ups' = {}
    BY <1>4, SilentSteps
  <2> QED  BY <1>1, <2>1, MaxSeqAssumption
<1> QED  BY <1>2, <1>3, <1>4 DEF Next

LEMMA StepIInv == IInv /\ [Next]_vars => IInv'
<1> SUFFICES ASSUME IInv, [Next]_vars PROVE IInv'  OBVIOUS
<1>1. CASE UNCHANGED vars
  BY <1>1 DEF vars, IInv, TypeOK, Open, Owned, Exchange, Awaits, Over, Waiting,
              Closing, Gone, Waits, Bit
<1>2. CASE Notice
  <2>1. sess' = sess /\ rseq' = rseq  BY <1>2 DEF Notice, RecvProvisional, PeerInfo
  <2>2. Next  BY <1>2 DEF Next
  <2>3. /\ role' \in {"uac", "uas"} /\ rseq' \in 0..MaxSeq /\ ups' \in SUBSET Upcalls
    BY <2>2, NextUpcalls
  <2> QED
    BY <2>1, <2>3 DEF IInv, TypeOK, Open, Owned, Exchange, Awaits, Over, Waiting,
                      Closing, Gone, Waits, Bit
<1>3. CASE Next /\ ~Notice
  <2>1. Good(sess', rseq')  BY <1>3, NextGood
  <2>2. /\ role' \in {"uac", "uas"} /\ rseq' \in 0..MaxSeq /\ ups' \in SUBSET Upcalls
    BY <1>3, NextUpcalls
  <2>3. sess' \in Session /\ sess'.mem # "none"
    BY <2>1 DEF Good, Open, Owned, Over, Waiting, Closing, Gone
  <2>4. TypeOK'  BY <2>2, <2>3 DEF TypeOK
  <2>5. Open(sess', rseq') \/ Over(sess')  BY <2>1 DEF Good
  <2> QED  BY <2>3, <2>4, <2>5 DEF IInv
<1> QED  BY <1>1, <1>2, <1>3

\* What the invariant says of each stage is what the properties ask.
LEMMA Consequences ==
  ASSUME IInv
  PROVE  /\ TypeOK /\ RefsExact /\ FreedClean /\ OneExchange /\ ModifyKept
         /\ OfferCarried /\ AnswerAwaited /\ ByeSent
<1>0. TypeOK  BY DEF IInv
<1>1. CASE sess.mem = "none"
  <2>1. sess = Fresh  BY <1>1 DEF IInv
  <2> QED
    BY <1>0, <2>1 DEF Fresh, RefsExact, FreedClean, OneExchange, ModifyKept,
                      OfferCarried, AnswerAwaited, ByeSent, Live, Bit
<1>2. CASE Open(sess, rseq)
  BY <1>0, <1>2 DEF Open, Owned, Exchange, Awaits, RefsExact, FreedClean,
     OneExchange, ModifyKept, OfferCarried, AnswerAwaited, ByeSent, Live, Bit
<1>3. CASE Over(sess)
  <2>1. CASE Waiting(sess, 0) /\ sess.refs > 0 /\ ~sess.held
    <3>1. Waits(sess) \in Nat  BY <2>1, WaitsFacts DEF Waiting
    <3> QED
      BY <1>0, <2>1, <3>1 DEF Waiting, RefsExact, FreedClean, OneExchange, ModifyKept,
         OfferCarried, AnswerAwaited, ByeSent, Live, Bit
  <2>2. CASE Closing(sess, 0) /\ sess.refs > 0 /\ ~sess.held
    <3>1. Waits(sess) = Bit(sess.req # "none")
      BY <2>2 DEF Closing, Waits, Bit
    <3> QED
      BY <1>0, <2>2, <3>1 DEF Closing, RefsExact, FreedClean, OneExchange, ModifyKept,
         OfferCarried, AnswerAwaited, ByeSent, Live, Bit
  <2>3. CASE Gone(sess) /\ ~sess.held
    BY <1>0, <2>3 DEF Gone, RefsExact, FreedClean, OneExchange, ModifyKept,
       OfferCarried, AnswerAwaited, ByeSent, Live, Bit
  <2> QED  BY <1>3, <2>1, <2>2, <2>3 DEF Over
<1> QED  BY <1>1, <1>2, <1>3 DEF IInv

\* The invariant holds of every behaviour of the session.
THEOREM Invariance == Spec => []IInv
<1> QED  BY InitIInv, StepIInv, PTL DEF Spec

\* The state is well typed.
THEOREM TypeCorrect == Spec => []TypeOK
<1> QED  BY Invariance, Consequences, PTL

\* The reference count is what the owner and the pending work are owed: sipsess
\* never leaks a session and never frees one that is still to be given back.
THEOREM RefsSound == Spec => []RefsExact
<1> QED  BY Invariance, Consequences, PTL

\* The memory never goes while a request, a reply or a timer still names it.
THEOREM NothingDangling == Spec => []FreedClean
<1> QED  BY Invariance, Consequences, PTL

\* INVITE exchanges of the session exclude each other.
THEOREM ExchangeSound == Spec => []OneExchange
<1> QED  BY Invariance, Consequences, PTL

\* A modification that was put off has something to come that picks it up.
THEOREM ModificationKept == Spec => []ModifyKept
<1> QED  BY Invariance, Consequences, PTL

\* A re-INVITE, also one to be retried, has the offer it was asked for with.
THEOREM OfferKept == Spec => []OfferCarried
<1> QED  BY Invariance, Consequences, PTL

\* INVITEs of the peer are refused for want of an answer only while one can come.
THEOREM AnswerToCome == Spec => []AnswerAwaited
<1> QED  BY Invariance, Consequences, PTL

\* An established session that the peer has not ended is not freed before a
\* BYE was attempted.
THEOREM ByeAttempted == Spec => []ByeSent
<1> QED  BY Invariance, Consequences, PTL

\* No handler of the user is called after the user has given the session up.
THEOREM UpcallsSound == Spec => UpcallsToOwner
<1>1. IInv /\ [Next]_vars => [ups' # {} => sess.held]_vars
  <2> SUFFICES ASSUME IInv, [Next]_vars, vars' # vars PROVE ups' # {} => sess.held
    BY DEF vars
  <2>1. Next  OBVIOUS
  <2> QED  BY <2>1, NextUpcalls
<1> QED  BY <1>1, Invariance, PTL DEF Spec, UpcallsToOwner

-----------------------------------------------------------------------------
(***************************************************************************)
(* What no handler undoes: an ownership given up is not taken back, an     *)
(* established session stays so, a session that is over stays over, and    *)
(* the first INVITE is not sent again once it is answered.  That depends   *)
(* on the values of four fields only, so a record need not be a session.   *)
(***************************************************************************)
Shaped(s) ==
  DOMAIN s = {"mem", "refs", "held", "terminated", "established", "peerterm",
              "awaiting_answer", "modify_pending", "desc", "sent_offer", "st", "req",
              "tmr", "failc", "replyl", "requestl", "bye"}

Passes(t, s) ==
  /\ Shaped(t) /\ t.held = s.held /\ t.established = s.established
  /\ t.req = "invite" => s.req = "invite"
  /\ s.terminated # 0 => t.terminated # 0

LEMMA SessionShaped == ASSUME NEW s \in Session PROVE Shaped(s)
BY DEF Session, Shaped

LEMMA SendPasses ==
  ASSUME NEW s, Shaped(s), NEW kind, kind # "invite", NEW ok
  PROVE  Passes(SendRequest(s, kind, ok), s)
BY DEF SendRequest, Shaped, Passes

LEMMA AnsweredPasses ==
  ASSUME NEW s, Shaped(s), NEW r
  PROVE  /\ Passes(Count(Answered(s), r), s) /\ Count(Answered(s), r).req = "none"
         /\ Count(Answered(s), r).terminated = s.terminated
BY DEF Answered, Count, Shaped, Passes

LEMMA OfferPasses ==
  ASSUME NEW s, Shaped(s), NEW reset
  PROVE  /\ Passes(Offer(s), s) /\ Passes(ResetLoops(s, reset), s)
         /\ ResetLoops(s, reset).req = s.req
BY DEF Offer, ResetLoops, Shaped, Passes

LEMMA ReinvitePasses ==
  ASSUME NEW s, Shaped(s), NEW ok, NEW reset
  PROVE  Passes(Reinvite(s, ok, reset), s)
<1> DEFINE o == Offer(s)
           l == ResetLoops(o, reset)
           t == SendRequest(l, "reinvite", ok)
<1>1. Reinvite(s, ok, reset) = IF s.req # "none" THEN s ELSE t  BY DEF Reinvite
<1>2. Passes(o, s)  BY OfferPasses
<1> HIDE DEF o
<1>3. Passes(l, o)  BY <1>2, OfferPasses DEF Passes
<1> HIDE DEF l
<1>4. Passes(t, l)  BY <1>3, SendPasses DEF Passes
<1> HIDE DEF t
<1> QED  BY <1>1, <1>2, <1>3, <1>4 DEF Passes

LEMMA ByePasses ==
  ASSUME NEW s, Shaped(s), NEW ok, NEW reset
  PROVE  Passes(Bye(s, ok, reset), s)
<1> DEFINE l == ResetLoops(s, reset)
           b == [l EXCEPT !.bye = IF ok THEN "sent" ELSE "failed"]
           t == SendRequest(b, "bye", ok)
<1>1. Bye(s, ok, reset) = IF s.req # "none" THEN s ELSE t  BY DEF Bye
<1>2. Passes(l, s)  BY OfferPasses
<1> HIDE DEF l
<1>3. Passes(b, l)  BY <1>2 DEF Passes, Shaped
<1> HIDE DEF b
<1>4. Passes(t, b)  BY <1>3, SendPasses DEF Passes
<1> HIDE DEF t
<1> QED  BY <1>1, <1>2, <1>3, <1>4 DEF Passes

\* From termwait on the session is over.
LEMMA TermWaitPasses ==
  ASSUME NEW s, Shaped(s)
  PROVE  Passes(TermWait(s), s) /\ TermWait(s).terminated # 0
<1> DEFINE q == Silence(s)
<1>1. Passes(q, s) /\ q.terminated # 0  BY DEF Silence, Shaped, Passes
<1>2. TermWait(s) = [q EXCEPT !.refs = @ + Waits(s)]  BY DEF TermWait
<1> HIDE DEF q
<1> QED  BY <1>1, <1>2 DEF Shaped, Passes

LEMMA TerminatePasses ==
  ASSUME NEW s, Shaped(s), NEW bok
  PROVE  Passes(Terminate(s, bok), s) /\ Terminate(s, bok).terminated # 0
<1>0. PICK reset : reset = TRUE  OBVIOUS
<1> DEFINE t == [s EXCEPT !.terminated = 2]
           b == Bye(t, bok, reset)
           u == [b EXCEPT !.refs = @ + Bit(bok)]
<1>1. Terminate(s, bok) =
        IF ~s.established \/ s.peerterm \/ s.req # "none" THEN t ELSE u
  BY <1>0 DEF Terminate
<1>2. Passes(t, s) /\ t.terminated # 0  BY DEF Shaped, Passes
<1> HIDE DEF t
<1>3. Passes(b, t)  BY <1>2, ByePasses DEF Passes
<1> HIDE DEF b
<1>4. Passes(u, b)  BY <1>3 DEF Passes, Shaped
<1> HIDE DEF u
<1> QED  BY <1>1, <1>2, <1>3, <1>4 DEF Passes

LEMMA FreePasses ==
  ASSUME NEW s, Shaped(s)
  PROVE  Passes(Free(s), s)
<1> DEFINE c == [s EXCEPT !.req = "none", !.replyl = {}, !.requestl = {}]
<1>1. Passes(c, s)  BY DEF Shaped, Passes
<1>2. Free(s) = [c EXCEPT !.mem = IF Pending(s) THEN "dangling" ELSE "freed"]  BY DEF Free
<1> HIDE DEF c
<1> QED  BY <1>1, <1>2 DEF Shaped, Passes

LEMMA DestructorPasses ==
  ASSUME NEW s, Shaped(s), NEW bok
  PROVE  Passes(Destructor(s, bok), s)
<1> DEFINE w == IF s.terminated = 0 THEN TermWait(s) ELSE s
           t == IF w.refs = 0 /\ w.terminated = 1 THEN Terminate(w, bok) ELSE w
<1>1. Destructor(s, bok) = IF t.refs = 0 THEN Free(t) ELSE t  BY DEF Destructor
<1>2. Passes(w, s)  BY TermWaitPasses DEF Passes
<1> HIDE DEF w
<1>3. Passes(t, w)  BY <1>2, TerminatePasses DEF Passes
<1> HIDE DEF t
<1>4. Passes(Free(t), t)  BY <1>3, FreePasses DEF Passes
<1> QED  BY <1>1, <1>2, <1>3, <1>4 DEF Passes

LEMMA DerefPasses ==
  ASSUME NEW s, Shaped(s), NEW bok
  PROVE  Passes(Deref(s, bok), s)
<1> DEFINE d == [s EXCEPT !.refs = @ - 1]
<1>1. Deref(s, bok) = IF d.refs = 0 THEN Destructor(d, bok) ELSE d  BY DEF Deref
<1>2. Passes(d, s)  BY DEF Shaped, Passes
<1> HIDE DEF d
<1>3. Passes(Destructor(d, bok), d)  BY <1>2, DestructorPasses DEF Passes
<1> QED  BY <1>1, <1>2, <1>3 DEF Passes

\* What sipsess_terminate and the user's closeh leave.
Ended(t, s) ==
  /\ Shaped(t) /\ ~t.held /\ t.established = s.established /\ t.terminated # 0
  /\ t.req = "invite" => s.req = "invite"

LEMMA SessTerminatePasses ==
  ASSUME NEW s, Shaped(s), NEW bok
  PROVE  Ended(SessTerminate(s, bok), s)
<1> DEFINE w == TermWait(s)
           t == IF Waits(s) = 0 THEN Terminate(w, bok) ELSE w
           h == [t EXCEPT !.held = FALSE]
<1>1. SessTerminate(s, bok) = Deref(h, bok)  BY DEF SessTerminate
<1>2. Passes(w, s) /\ w.terminated # 0  BY TermWaitPasses
<1> HIDE DEF w
<1>3. Passes(t, w) /\ t.terminated # 0  BY <1>2, TerminatePasses DEF Passes
<1> HIDE DEF t
<1>4. /\ Shaped(h) /\ ~h.held /\ h.established = t.established /\ h.req = t.req
      /\ h.terminated # 0
  BY <1>3 DEF Shaped, Passes
<1> HIDE DEF h
<1>5. Passes(Deref(h, bok), h)  BY <1>4, DerefPasses
<1> QED  BY <1>1, <1>2, <1>3, <1>4, <1>5 DEF Passes, Ended

LEMMA OutPasses ==
  ASSUME NEW s, Shaped(s), NEW bok
  PROVE  /\ s.terminated = 0 => Ended(Out(s, bok), s)
         /\ s.terminated # 0 => Passes(Out(s, bok), s)
BY SessTerminatePasses, DerefPasses DEF Out

LEMMA ReinviteOutPasses ==
  ASSUME NEW s, Shaped(s), NEW r, NEW ok, NEW bok
  PROVE  LET t == ReinviteOut(s, r, ok, bok)
         IN  /\ Passes(t, s) \/ Ended(t, s)
             /\ s.terminated = 0 /\ r = "timeout" => Ended(t, s)
<1>0. PICK yes : yes = TRUE  OBVIOUS
<1> DEFINE f == [s EXCEPT !.desc = FALSE]
<1>1. ReinviteOut(s, r, ok, bok) =
        IF s.terminated # 0 THEN Deref(s, bok)
        ELSE IF r = "timeout" THEN SessTerminate(s, bok)
        ELSE IF s.modify_pending THEN Reinvite(s, ok, yes) ELSE f
  BY <1>0 DEF ReinviteOut
<1>2. Passes(f, s)  BY DEF Shaped, Passes
<1> HIDE DEF f
<1> QED  BY <1>1, <1>2, DerefPasses, SessTerminatePasses, ReinvitePasses

\* A re-INVITE does not end the session, nor does another INVITE.
LEMMA ReinviteLives ==
  ASSUME NEW s, Shaped(s), NEW ok, NEW reset
  PROVE  Reinvite(s, ok, reset).terminated = s.terminated
<1> DEFINE o == Offer(s)
           l == ResetLoops(o, reset)
<1>1. Reinvite(s, ok, reset) =
        IF s.req # "none" THEN s ELSE SendRequest(l, "reinvite", ok)
  BY DEF Reinvite
<1>2. Shaped(o) /\ o.terminated = s.terminated  BY DEF Offer, Shaped
<1> HIDE DEF o
<1>3. Shaped(l) /\ l.terminated = o.terminated  BY <1>2 DEF ResetLoops, Shaped
<1> HIDE DEF l
<1> QED  BY <1>1, <1>2, <1>3 DEF SendRequest, Shaped

LEMMA InviteShape ==
  ASSUME NEW s, Shaped(s), NEW ok
  PROVE  LET t == Invite(s, ok)
         IN  /\ Shaped(t) /\ t.held = s.held /\ t.established = s.established
             /\ t.terminated = s.terminated
             /\ ~ok => Passes(t, s)
<1> DEFINE o == Offer(s)
<1>1. Invite(s, ok) = SendRequest(o, "invite", ok)  BY DEF Invite
<1>2. /\ Shaped(o) /\ o.held = s.held /\ o.established = s.established
      /\ o.terminated = s.terminated
  BY DEF Offer, Shaped
<1> HIDE DEF o
<1> QED  BY <1>1, <1>2 DEF SendRequest, Shaped, Passes

\* One step of a session that exists: what becomes of its past, and what the
\* handlers k that it calls may rely on.
Later(t, s) ==
  /\ Shaped(t)
  /\ t.held => s.held
  /\ s.established => t.established
  /\ t.req = "invite" =>
       s.req = "invite" /\ (t.established => s.established \/ s.replyl # {})

Told(t, s, k) ==
  /\ "estab" \in k => /\ ~s.established \/ (s.req = "invite" /\ s.terminated = 0)
                      /\ t.established /\ t.terminated = 0
  /\ "close" \in k => s.terminated = 0 /\ t.terminated # 0 /\ ~t.held

LEMMA PassesLater ==
  ASSUME NEW s, NEW a, NEW t, Passes(a, s), Passes(t, a) \/ Ended(t, a)
  PROVE  Later(t, s)
BY DEF Passes, Ended, Later

LEMMA InviteOkLater ==
  ASSUME Shaped(sess), NEW dok, NEW cok, NEW ok, NEW bok, InviteOk(dok, cok, ok, bok)
  PROVE  Later(sess', sess) /\ Told(sess', sess, ups')
<1>0. PICK yes : yes = TRUE  OBVIOUS
<1> DEFINE a == Count(Answered(sess), "ok")
           e == [a EXCEPT !.established = TRUE, !.modify_pending = @ /\ a.sent_offer]
           f == [e EXCEPT !.desc = FALSE]
           leave == ~cok \/ a.terminated # 0
           media == Call(a, IF a.sent_offer THEN "answer" ELSE "offer")
<1>1. /\ sess.req = "invite"
      /\ sess' = IF ~dok THEN Out(a, bok)
                 ELSE IF leave THEN Out(e, bok)
                 ELSE IF e.modify_pending THEN Reinvite(e, ok, yes) ELSE f
      /\ ups' = IF ~dok THEN OutCalls(a)
                ELSE media \cup (IF leave THEN OutCalls(e) ELSE Call(e, "estab"))
  BY <1>0 DEF InviteOk
<1>2. Passes(a, sess) /\ a.req = "none" /\ a.terminated = sess.terminated
  BY AnsweredPasses
<1> HIDE DEF a
<1>3. Shaped(e) /\ e.held = a.held /\ e.established /\ e.req = "none"
      /\ e.terminated = a.terminated
  BY <1>2 DEF Passes, Shaped
<1> HIDE DEF e
<1>4. Passes(f, e) /\ f.terminated = e.terminated  BY <1>3 DEF Passes, Shaped
<1> HIDE DEF f
<1>5. Passes(Reinvite(e, ok, yes), e)  BY <1>3, ReinvitePasses
<1>6. Reinvite(e, ok, yes).terminated = e.terminated  BY <1>3, ReinviteLives
<1>7. "estab" \notin media /\ "close" \notin media  BY DEF Call
<1> HIDE DEF media
<1>8. CASE ~dok
  <2>1. sess' = Out(a, bok) /\ ups' = OutCalls(a)  BY <1>1, <1>8
  <2>2. Later(sess', sess)  BY <1>2, <2>1, OutPasses, PassesLater DEF Passes
  <2>3. Told(sess', sess, ups')  BY <1>2, <2>1, OutPasses DEF Passes, Ended, OutCalls, Told
  <2> QED  BY <2>2, <2>3
<1>9. CASE dok /\ leave
  <2>1. sess' = Out(e, bok) /\ ups' = media \cup OutCalls(e)  BY <1>1, <1>9
  <2>2. Later(sess', sess)
    BY <1>2, <1>3, <2>1, OutPasses DEF Passes, Ended, Later
  <2>3. Told(sess', sess, ups')
    BY <1>2, <1>3, <1>7, <2>1, OutPasses DEF Ended, OutCalls, Told
  <2> QED  BY <2>2, <2>3
<1>10. CASE dok /\ ~leave
  <2>1. (sess' = Reinvite(e, ok, yes) \/ sess' = f) /\ ups' = media \cup Call(e, "estab")
    BY <1>1, <1>10
  <2>2. Later(sess', sess)  BY <1>2, <1>3, <1>4, <1>5, <2>1 DEF Passes, Later
  <2>3. Told(sess', sess, ups')
    BY <1>1, <1>2, <1>3, <1>4, <1>5, <1>6, <1>7, <1>10, <2>1 DEF Passes, Call, Told
  <2> QED  BY <2>2, <2>3
<1> QED  BY <1>8, <1>9, <1>10

LEMMA InviteFailLater ==
  ASSUME Shaped(sess), NEW r, NEW tried, NEW ok, NEW bok, InviteFail(r, tried, ok, bok)
  PROVE  Later(sess', sess) /\ Told(sess', sess, ups')
<1>0. PICK yes, no : yes = TRUE /\ no = FALSE  OBVIOUS
<1> DEFINE a == Count(Answered(sess), r)
           again == /\ r \in {"redirect", "auth"} /\ tried
                    /\ ~Fails(sess.failc, r) /\ a.terminated = 0
           i == Invite(a, no)
           j == Invite(a, yes)
<1>1. /\ sess.req = "invite"
      /\ sess' = IF again /\ ok THEN j ELSE Out(IF again THEN i ELSE a, bok)
      /\ ups' = IF again /\ ok THEN {} ELSE OutCalls(a)
  BY <1>0 DEF InviteFail
<1>2. Passes(a, sess) /\ a.req = "none" /\ a.terminated = sess.terminated
  BY AnsweredPasses
<1> HIDE DEF a
<1>3. /\ Shaped(j) /\ j.held = a.held /\ j.established = a.established
      /\ Passes(i, a) /\ i.terminated = a.terminated
  BY <1>0, <1>2, InviteShape DEF Passes
<1> HIDE DEF i, j
<1>4. CASE again /\ ok
  <2>1. sess' = j /\ ups' = {}  BY <1>1, <1>4
  <2> QED  BY <1>1, <1>2, <1>3, <2>1 DEF Passes, Later, Told
<1>5. CASE again /\ ~ok
  <2>1. sess' = Out(i, bok) /\ ups' = OutCalls(a)  BY <1>1, <1>5
  <2>2. Ended(Out(i, bok), i)  BY <1>3, <1>5, OutPasses DEF Passes
  <2> QED  BY <1>2, <1>3, <2>1, <2>2 DEF Passes, Ended, OutCalls, Later, Told
<1>6. CASE ~again
  <2>1. sess' = Out(a, bok) /\ ups' = OutCalls(a)  BY <1>1, <1>6
  <2>2. Later(sess', sess)  BY <1>2, <2>1, OutPasses, PassesLater DEF Passes
  <2>3. Told(sess', sess, ups')  BY <1>2, <2>1, OutPasses DEF Passes, Ended, OutCalls, Told
  <2> QED  BY <2>2, <2>3
<1> QED  BY <1>4, <1>5, <1>6

LEMMA ReinviteDoneLater ==
  ASSUME Shaped(sess), ReinviteFinal
  PROVE  Later(sess', sess) /\ Told(sess', sess, ups')
<1>1. ASSUME NEW ok, NEW bok, ReinviteOk(ok, bok)
      PROVE  Later(sess', sess) /\ Told(sess', sess, ups')
  <2> DEFINE a == Count(Answered(sess), "ok")
             e == [a EXCEPT !.modify_pending = @ /\ a.sent_offer]
  <2>1. /\ sess' = ReinviteOut(e, "ok", ok, bok)
        /\ ups' = Call(a, IF a.sent_offer THEN "answer" ELSE "offer")
    BY <1>1 DEF ReinviteOk
  <2>2. Passes(a, sess)  BY AnsweredPasses
  <2>3. "estab" \notin ups' /\ "close" \notin ups'  BY <2>1 DEF Call
  <2> HIDE DEF a
  <2>4. Passes(e, a)  BY <2>2 DEF Passes, Shaped
  <2> HIDE DEF e
  <2>5. Passes(sess', e) \/ Ended(sess', e)  BY <2>1, <2>4, ReinviteOutPasses DEF Passes
  <2>6. Passes(e, sess)  BY <2>2, <2>4 DEF Passes
  <2> QED  BY <2>3, <2>5, <2>6, PassesLater DEF Told
<1>2. ASSUME NEW r, NEW tried, NEW ok, NEW bok, ReinviteFail(r, tried, ok, bok)
      PROVE  Later(sess', sess) /\ Told(sess', sess, ups')
  <2>0. PICK yes, no : yes = TRUE /\ no = FALSE  OBVIOUS
  <2> DEFINE a == Count(Answered(sess), r)
             handled == ~Fails(sess.failc, r) /\ a.terminated = 0
             ends == (handled /\ r = "gone") \/ (r = "timeout" /\ a.terminated = 0)
             late == [a EXCEPT !.tmr = TRUE]
             b == Reinvite(a, no, no)
  <2>1. /\ sess' = IF handled /\ r = "gone" THEN SessTerminate(a, bok)
                   ELSE IF handled /\ r \in {"glare", "retry"} THEN late
                   ELSE IF handled /\ r = "auth" /\ tried
                        THEN IF ok THEN Reinvite(a, yes, no)
                             ELSE ReinviteOut(b, "auth", ok, bok)
                   ELSE ReinviteOut(a, r, ok, bok)
        /\ ups' = IF ends THEN {"close"} ELSE {}
    BY <1>2, <2>0 DEF ReinviteFail
  <2>2. Passes(a, sess) /\ a.terminated = sess.terminated  BY AnsweredPasses
  <2> HIDE DEF a
  <2>3. Passes(late, a)  BY <2>2 DEF Passes, Shaped
  <2>4. Passes(b, a)  BY <2>2, ReinvitePasses DEF Passes
  <2> HIDE DEF late, b
  <2>5. Passes(b, sess)  BY <2>2, <2>4 DEF Passes
  <2>6. Later(sess', sess)
    <3>1. CASE sess' = SessTerminate(a, bok)
      BY <2>2, <3>1, SessTerminatePasses, PassesLater DEF Passes
    <3>2. CASE sess' = late
      BY <2>2, <2>3, <3>2, PassesLater
    <3>3. CASE sess' = Reinvite(a, yes, no)
      BY <2>2, <3>3, ReinvitePasses, PassesLater DEF Passes
    <3>4. CASE sess' = ReinviteOut(b, "auth", ok, bok)
      BY <2>5, <3>4, ReinviteOutPasses, PassesLater DEF Passes
    <3>5. CASE sess' = ReinviteOut(a, r, ok, bok)
      BY <2>2, <3>5, ReinviteOutPasses, PassesLater DEF Passes
    <3> QED  BY <2>1, <3>1, <3>2, <3>3, <3>4, <3>5
  <2>7. CASE handled /\ r = "gone"
    <3>1. Ended(sess', a)  BY <2>1, <2>2, <2>7, SessTerminatePasses DEF Passes
    <3> QED  BY <2>1, <2>2, <2>6, <2>7, <3>1 DEF Ended, Told
  <2>8. CASE r = "timeout" /\ a.terminated = 0
    <3>1. sess' = ReinviteOut(a, r, ok, bok)  BY <2>1, <2>8
    <3>2. Ended(sess', a)  BY <2>2, <2>8, <3>1, ReinviteOutPasses DEF Passes
    <3> QED  BY <2>1, <2>2, <2>6, <2>8, <3>2 DEF Ended, Told
  <2>9. CASE ~ends
    BY <2>1, <2>6, <2>9 DEF Told
  <2> QED  BY <2>7, <2>8, <2>9
<1> QED  BY <1>1, <1>2 DEF ReinviteFinal

LEMMA ByeDoneLater ==
  ASSUME Shaped(sess), ByeDone
  PROVE  Later(sess', sess) /\ Told(sess', sess, ups')
<1> SUFFICES ASSUME NEW r, NEW tried, NEW ok, ByeFinal(r, tried, ok)
             PROVE  Later(sess', sess) /\ Told(sess', sess, ups')
  BY DEF ByeDone
<1>0. PICK no : no = FALSE  OBVIOUS
<1> DEFINE a == Count(Answered(sess), r)
           b == Bye(a, ok, no)
           again == /\ r = "auth" /\ tried /\ ~Fails(sess.failc, r) /\ ~a.peerterm
<1>1. /\ sess' = IF again /\ ok THEN b ELSE Deref(IF again THEN b ELSE a, ok)
      /\ ups' = {}
  BY <1>0 DEF ByeFinal
<1>2. Passes(a, sess)  BY AnsweredPasses
<1> HIDE DEF a
<1>3. Passes(b, a)  BY <1>2, ByePasses DEF Passes
<1> HIDE DEF b
<1>4. Passes(Deref(b, ok), b) /\ Passes(Deref(a, ok), a)
  BY <1>2, <1>3, DerefPasses DEF Passes
<1>5. Passes(b, sess)  BY <1>2, <1>3 DEF Passes
<1> QED  BY <1>1, <1>2, <1>3, <1>4, <1>5, PassesLater DEF Told

LEMMA InfoDoneLater ==
  ASSUME Shaped(sess), NEW i, InfoDone(i)
  PROVE  Later(sess', sess) /\ Told(sess', sess, ups')
<1> SUFFICES ASSUME NEW r, NEW again, NEW bok, InfoFinal(i, r, again, bok)
             PROVE  Later(sess', sess) /\ Told(sess', sess, ups')
  BY DEF InfoDone
<1> DEFINE handled == ~Fails(i.failc, r) /\ sess.terminated = 0
           ends == sess.terminated = 0 /\ (r = "timeout" \/ (handled /\ r = "gone"))
           t == IF ends THEN SessTerminate(sess, bok) ELSE sess
           d == [t EXCEPT !.requestl = @ \ {i}]
           more == (sess.requestl \ {i}) \cup {[i EXCEPT !.failc = FailCount(@, r)]}
           e == [sess EXCEPT !.requestl = more]
<1>1. /\ sess' = IF handled /\ r = "auth" /\ again THEN e
                 ELSE IF d.terminated # 0 /\ d.requestl = {} THEN Deref(d, bok) ELSE d
      /\ ups' = IF handled /\ r = "auth" /\ again THEN {}
                ELSE IF ends THEN {"close"} ELSE Call(sess, "resp")
  BY DEF InfoFinal, DropInfo
<1> HIDE DEF more
<1>2. Passes(e, sess)  BY DEF Shaped, Passes
<1> HIDE DEF e
<1>3. /\ ends => Ended(t, sess)
      /\ ~ends => t = sess
  BY SessTerminatePasses
<1> HIDE DEF t
<1>4. Passes(d, t)  BY <1>3 DEF Shaped, Ended, Passes
<1> HIDE DEF d
<1>5. Passes(Deref(d, bok), d)  BY <1>4, DerefPasses DEF Passes
<1>6. CASE handled /\ r = "auth" /\ again
  BY <1>1, <1>2, <1>6 DEF Passes, Later, Told
<1>7. CASE ~(handled /\ r = "auth" /\ again)
  <2>1. Passes(sess', t)  BY <1>1, <1>4, <1>5, <1>7 DEF Passes
  <2>2. ups' = IF ends THEN {"close"} ELSE Call(sess, "resp")  BY <1>1, <1>7
  <2>3. CASE ends
    BY <1>3, <2>1, <2>2, <2>3 DEF Passes, Ended, Later, Told
  <2>4. CASE ~ends
    BY <1>3, <2>1, <2>2, <2>4 DEF Passes, Call, Later, Told
  <2> QED  BY <2>3, <2>4
<1> QED  BY <1>6, <1>7

LEMMA AckLater ==
  ASSUME Shaped(sess), NEW reply, NEW cok, NEW ok, NEW bok, Ack(reply, cok, ok, bok)
  PROVE  Later(sess', sess) /\ Told(sess', sess, ups')
<1>0. PICK yes : yes = TRUE  OBVIOUS
<1> DEFINE d == DropReply(sess, reply)
           a == AnswerReceived(d, reply.awaiting_answer)
           m == IF a.modify_pending /\ a.replyl = {} THEN Reinvite(a, ok, yes) ELSE a
           e == [m EXCEPT !.established = TRUE]
           x == [d EXCEPT !.established = TRUE]
           bad == reply.awaiting_answer /\ ~cok
<1>1. /\ reply \in sess.replyl
      /\ sess.terminated # 0 =>
           /\ sess' = IF d.replyl = {} THEN Deref(x, bok) ELSE d
           /\ ups' = {}
      /\ sess.terminated = 0 =>
           /\ sess' = IF ~m.established /\ bad THEN SessTerminate(e, bok) ELSE e
           /\ ups' = AckCalls(m.established, reply.awaiting_answer, bad)
  BY <1>0 DEF Ack
<1>2. Passes(d, sess) /\ d.terminated = sess.terminated  BY DEF DropReply, Shaped, Passes
<1> HIDE DEF d
<1>3. Passes(a, d) /\ a.terminated = d.terminated
  BY <1>2 DEF AnswerReceived, Shaped, Passes
<1> HIDE DEF a
<1>4. Passes(m, a) /\ m.terminated = a.terminated
  <2>1. Passes(Reinvite(a, ok, yes), a) /\ Reinvite(a, ok, yes).terminated = a.terminated
    BY <1>3, ReinvitePasses, ReinviteLives DEF Passes
  <2> QED  BY <1>3, <2>1 DEF Passes
<1> HIDE DEF m
<1>5. /\ Shaped(e) /\ e.held = m.held /\ e.established /\ e.req = m.req
      /\ e.terminated = m.terminated
  BY <1>4 DEF Shaped, Passes
<1> HIDE DEF e
<1>6. /\ Shaped(x) /\ x.held = d.held /\ x.established /\ x.req = d.req
      /\ x.terminated = d.terminated
  BY <1>2 DEF Shaped, Passes
<1> HIDE DEF x
<1>7. Passes(Deref(x, bok), x)  BY <1>6, DerefPasses
<1>8. Ended(SessTerminate(e, bok), e)  BY <1>5, SessTerminatePasses
<1>9. CASE sess.terminated # 0
  BY <1>1, <1>2, <1>6, <1>7, <1>9 DEF Passes, Later, Told
<1>10. CASE sess.terminated = 0
  <2>1. m.established = sess.established  BY <1>2, <1>3, <1>4 DEF Passes
  <2>2. CASE ~m.established /\ bad
    <3>1. sess' = SessTerminate(e, bok) /\ "estab" \notin ups'
      BY <1>1, <1>10, <2>2 DEF AckCalls
    <3> QED  BY <1>1, <1>2, <1>3, <1>4, <1>5, <1>8, <1>10, <3>1 DEF Passes, Ended, Later, Told
  <2>3. CASE ~(~m.established /\ bad)
    <3>1. sess' = e /\ "close" \notin ups' /\ ("estab" \in ups' => ~m.established)
      BY <1>1, <1>10, <2>3 DEF AckCalls
    <3> QED  BY <1>1, <1>2, <1>3, <1>4, <1>5, <1>10, <2>1, <3>1 DEF Passes, Later, Told
  <2> QED  BY <2>2, <2>3
<1> QED  BY <1>9, <1>10

LEMMA PeerEndsLater ==
  ASSUME Shaped(sess), NEW bok, PeerBye(bok) \/ PeerCancel(bok)
  PROVE  Later(sess', sess) /\ Told(sess', sess, ups')
<1> DEFINE s == [sess EXCEPT !.peerterm = TRUE]
           n == [s EXCEPT !.st = FALSE]
           c == [sess EXCEPT !.st = FALSE, !.peerterm = TRUE]
<1>1. /\ Passes(s, sess) /\ s.terminated = sess.terminated
      /\ Passes(n, sess) /\ n.terminated = sess.terminated
      /\ Passes(c, sess) /\ c.terminated = sess.terminated
  BY DEF Shaped, Passes
<1>2. \E b, o \in {s, n, c} :
        /\ sess' = IF b.terminated # 0 THEN b ELSE SessTerminate(o, bok)
        /\ ups' = OutCalls(b)
  BY DEF PeerBye, PeerCancel
<1> HIDE DEF s, n, c
<1>3. PICK b, o \in {s, n, c} :
        /\ sess' = IF b.terminated # 0 THEN b ELSE SessTerminate(o, bok)
        /\ ups' = OutCalls(b)
  BY <1>2
<1>4. Ended(SessTerminate(o, bok), o)  BY <1>1, SessTerminatePasses DEF Passes
<1> QED  BY <1>1, <1>3, <1>4 DEF Passes, Ended, OutCalls, Later, Told

LEMMA PeerReinviteLater ==
  ASSUME Shaped(sess), NEW offerless, NEW cok, NEW ok, PeerReinvite(offerless, cok, ok)
  PROVE  Later(sess', sess) /\ Told(sess', sess, ups')
<1> DEFINE r == Reply2xx(sess, rseq + 1, offerless, ok)
           t == [r EXCEPT !.desc = FALSE, !.modify_pending = FALSE, !.tmr = FALSE]
<1>1. (sess' = t \/ sess' = sess) /\ ups' \subseteq {"offer"}  BY DEF PeerReinvite
<1>2. Passes(r, sess)  BY DEF Reply2xx, Shaped, Passes
<1> HIDE DEF r
<1>3. Passes(t, sess)  BY <1>2 DEF Shaped, Passes
<1> HIDE DEF t
<1> QED  BY <1>1, <1>3 DEF Passes, Later, Told

LEMMA TimersLater ==
  ASSUME Shaped(sess), ReplyTimer \/ RetryTimer
  PROVE  Later(sess', sess) /\ Told(sess', sess, ups')
<1>1. ASSUME NEW reply, NEW bok, ReplyTimeout(reply, bok)
      PROVE  Later(sess', sess) /\ Told(sess', sess, ups')
  <2> DEFINE d == DropReply(sess, reply)
             e == [d EXCEPT !.established = TRUE]
  <2>1. /\ reply \in sess.replyl
        /\ sess' = IF d.replyl # {} THEN d ELSE Out(e, bok)
        /\ ups' = IF d.replyl # {} THEN {} ELSE OutCalls(d)
    BY <1>1 DEF ReplyTimeout
  <2>2. Passes(d, sess) /\ d.terminated = sess.terminated
    BY DEF DropReply, Shaped, Passes
  <2> HIDE DEF d
  <2>3. /\ Shaped(e) /\ e.held = d.held /\ e.established /\ e.req = d.req
        /\ e.terminated = d.terminated
    BY <2>2 DEF Shaped, Passes
  <2> HIDE DEF e
  <2>4. CASE d.replyl # {}
    BY <2>1, <2>2, <2>4 DEF Passes, Later, Told
  <2>5. CASE d.replyl = {}
    <3>1. sess' = Out(e, bok) /\ ups' = OutCalls(d)  BY <2>1, <2>5
    <3>2. sess.replyl # {}  BY <2>1
    <3> QED
      BY <2>2, <2>3, <3>1, <3>2, OutPasses DEF Passes, Ended, OutCalls, Later, Told
  <2> QED  BY <2>4, <2>5
<1>2. ASSUME NEW ok, RetryFires(ok)
      PROVE  Later(sess', sess) /\ Told(sess', sess, ups')
  <2>0. PICK yes : yes = TRUE  OBVIOUS
  <2> DEFINE s == [sess EXCEPT !.tmr = FALSE]
  <2>1. sess' = Reinvite(s, ok, yes) /\ ups' = {}  BY <1>2, <2>0 DEF RetryFires
  <2>2. Passes(s, sess)  BY DEF Shaped, Passes
  <2> HIDE DEF s
  <2> QED  BY <2>1, <2>2, ReinvitePasses, PassesLater DEF Passes, Told
<1> QED  BY <1>1, <1>2 DEF ReplyTimer, RetryTimer

LEMMA UserLater ==
  ASSUME Shaped(sess), sess.mem # "none", User
  PROVE  Later(sess', sess) /\ Told(sess', sess, ups')
<1>1. ASSUME NEW ok, Progress(ok) PROVE Later(sess', sess) /\ ups' = {}
  BY <1>1 DEF Progress, Shaped, Later
<1>2. ASSUME NEW x, NEW ok, Answer(x, ok) PROVE Later(sess', sess) /\ ups' = {}
  BY <1>2 DEF Answer, Reply2xx, Shaped, Later
<1>3. ASSUME NEW i, SendInfo(i) PROVE Later(sess', sess) /\ ups' = {}
  <2>1. PICK l : sess' = [sess EXCEPT !.requestl = l]  BY <1>3 DEF SendInfo
  <2> QED  BY <1>3, <2>1 DEF SendInfo, Shaped, Later
<1>4. ASSUME NEW ok, Modify(ok) PROVE Later(sess', sess) /\ ups' = {}
  <2>0. PICK yes : yes = TRUE  OBVIOUS
  <2> DEFINE s == [sess EXCEPT !.desc = TRUE]
             p == [s EXCEPT !.modify_pending = TRUE]
  <2>1. (sess' = p \/ sess' = Reinvite(s, ok, yes)) /\ ups' = {}
    BY <1>4, <2>0 DEF Modify
  <2>2. Passes(s, sess)  BY DEF Shaped, Passes
  <2> HIDE DEF s
  <2>3. Passes(p, s)  BY <2>2 DEF Shaped, Passes
  <2> HIDE DEF p
  <2> QED  BY <2>1, <2>2, <2>3, ReinvitePasses, PassesLater DEF Passes
<1>5. ASSUME NEW bok, Release(bok) PROVE Later(sess', sess) /\ ups' = {}
  <2> DEFINE s == [sess EXCEPT !.held = FALSE, !.st = FALSE]
  <2>1. sess' = Deref(s, bok) /\ ups' = {}  BY <1>5 DEF Release
  <2>2. /\ Shaped(s) /\ ~s.held /\ s.established = sess.established /\ s.req = sess.req
    BY DEF Shaped
  <2> HIDE DEF s
  <2>3. Passes(Deref(s, bok), s)  BY <2>2, DerefPasses
  <2> QED  BY <2>1, <2>2, <2>3 DEF Passes, Later
<1>6. \A ok, x \in BOOLEAN : ~Accept(ok) /\ ~Connect(x, ok)
  BY DEF Accept, Connect
<1>7. Later(sess', sess) /\ ups' = {}
  BY <1>1, <1>2, <1>3, <1>4, <1>5, <1>6 DEF User
<1> QED  BY <1>7 DEF Told

LEMMA NextLater ==
  ASSUME IInv, Next, sess.mem # "none"
  PROVE  Later(sess', sess) /\ Told(sess', sess, ups')
<1>0. Shaped(sess)  BY SessionShaped DEF IInv, TypeOK
<1>1. CASE User  BY <1>0, <1>1, UserLater
<1>2. CASE Peer
  BY <1>0, <1>2, AckLater, PeerEndsLater, PeerReinviteLater DEF Peer
<1>3. CASE Notice
  BY <1>0, <1>3 DEF Notice, RecvProvisional, PeerInfo, Call, Later, Told
<1>4. CASE InviteFinal  BY <1>0, <1>4, InviteOkLater, InviteFailLater DEF InviteFinal
<1>5. CASE ReinviteFinal  BY <1>0, <1>5, ReinviteDoneLater
<1>6. CASE ByeDone  BY <1>0, <1>6, ByeDoneLater
<1>7. CASE \E i \in Info : InfoDone(i)  BY <1>0, <1>7, InfoDoneLater
<1>8. CASE ReplyTimer \/ RetryTimer  BY <1>0, <1>8, TimersLater
<1> QED  BY <1>1, <1>2, <1>3, <1>4, <1>5, <1>6, <1>7, <1>8 DEF Next

\* With nothing pending and no block, the session can only be opened.
LEMMA OnlyOpens ==
  ASSUME Next, ~sess.held, ~sess.st, ~sess.tmr, sess.req = "none",
         sess.replyl = {}, sess.requestl = {}, ~Live(sess)
  PROVE  sess.mem = "none" /\ \E x, ok \in BOOLEAN : Accept(ok) \/ Connect(x, ok)
<1>1. ~Peer /\ ~Notice
  BY DEF Peer, Notice, Ack, PeerBye, PeerCancel, PeerReinvite, InDialog,
         RecvProvisional, PeerInfo
<1>2. ~InviteFinal /\ ~ReinviteFinal /\ ~ByeDone
  BY DEF InviteFinal, InviteOk, InviteFail, ReinviteFinal, ReinviteOk, ReinviteFail,
         ByeDone, ByeFinal
<1>3. ~ReplyTimer /\ ~RetryTimer /\ ~\E i \in Info : InfoDone(i)
  BY DEF ReplyTimer, ReplyTimeout, RetryTimer, RetryFires, InfoDone, InfoFinal
<1>4. User  BY <1>1, <1>2, <1>3 DEF Next
<1>5. \E x, ok \in BOOLEAN : Accept(ok) \/ Connect(x, ok)
  BY <1>4 DEF User, Progress, Modify, Release, Answer, SendInfo
<1> QED  BY <1>5 DEF Accept, Connect

\* A session of which nothing is left stays as it is.
LEMMA GoneStops == ASSUME Gone(sess), ~sess.held, Next PROVE FALSE
<1>1. sess.mem = "freed"  BY DEF Gone
<1> QED  BY <1>1, OnlyOpens DEF Gone, Live

\* sipsess_connect and sipsess_accept leave nothing behind when they fail.
LEMMA FailedOpenFrees ==
  ASSUME NEW s, Shaped(s), s.refs = 1, s.terminated = 0, s.req = "none",
         s.replyl = {}, s.requestl = {}, ~s.established, NEW bok
  PROVE  Deref(s, bok).mem # "live"
<1> DEFINE d == [s EXCEPT !.refs = @ - 1]
           w == TermWait(d)
           t == Terminate(w, bok)
<1>1. Deref(s, bok) = IF d.refs = 0 THEN Destructor(d, bok) ELSE d  BY DEF Deref
<1>2. /\ Shaped(d) /\ d.refs = 0 /\ d.terminated = 0 /\ d.req = "none"
      /\ d.replyl = {} /\ d.requestl = {} /\ ~d.established
  BY DEF Shaped
<1> HIDE DEF d
<1>3. Waits(d) = 0  BY <1>2 DEF Waits, Bit
<1>4. Shaped(w) /\ w.refs = 0 /\ w.terminated = 1 /\ ~w.established
  BY <1>2, <1>3 DEF TermWait, Silence, Shaped
<1>5. Destructor(d, bok) = IF t.refs = 0 THEN Free(t) ELSE t
  BY <1>2, <1>4 DEF Destructor
<1> HIDE DEF w
<1>6. Shaped(t) /\ t.refs = 0  BY <1>4 DEF Terminate, Shaped
<1> HIDE DEF t
<1>7. Free(t).mem \in {"dangling", "freed"}  BY <1>6 DEF Free, Shaped
<1> QED  BY <1>1, <1>2, <1>5, <1>6, <1>7

LEMMA Opens ==
  ASSUME NEW x, NEW ok, sess = Fresh, Accept(ok) \/ Connect(x, ok)
  PROVE  /\ ~sess'.established /\ ups' = {}
         /\ sess'.held \/ sess'.mem # "live"
<1>0. PICK yes : yes = TRUE  OBVIOUS
<1> DEFINE s == [Fresh EXCEPT !.mem = "live", !.refs = 1]
           c == [Fresh EXCEPT !.mem = "live", !.refs = 1, !.desc = x]
           i == Invite(c, ok)
           h == [i EXCEPT !.held = TRUE]
           k == [s EXCEPT !.held = TRUE, !.st = TRUE]
<1>1. CASE Accept(ok)
  <2>1. sess' = (IF ok THEN k ELSE Deref(s, yes)) /\ ups' = {}  BY <1>0, <1>1 DEF Accept
  <2>2. /\ Shaped(s) /\ s.refs = 1 /\ s.terminated = 0 /\ s.req = "none"
        /\ s.replyl = {} /\ s.requestl = {} /\ ~s.established
    BY DEF Fresh, Shaped
  <2> HIDE DEF s
  <2>3. k.held /\ ~k.established  BY <2>2 DEF Shaped
  <2> HIDE DEF k
  <2>4. ~Deref(s, yes).established /\ Deref(s, yes).mem # "live"
    BY <2>2, DerefPasses, FailedOpenFrees DEF Passes
  <2> QED  BY <2>1, <2>3, <2>4
<1>2. CASE Connect(x, ok)
  <2>1. sess' = (IF ok THEN h ELSE Deref(i, yes)) /\ ups' = {}  BY <1>0, <1>2 DEF Connect
  <2>2. /\ Shaped(c) /\ c.refs = 1 /\ c.terminated = 0
        /\ c.replyl = {} /\ c.requestl = {} /\ ~c.established
    BY DEF Fresh, Shaped
  <2> HIDE DEF c
  <2> DEFINE o == Offer(c)
  <2>3. i = SendRequest(o, "invite", ok)  BY DEF Invite
  <2>4. /\ Shaped(o) /\ o.refs = 1 /\ o.terminated = 0
        /\ o.replyl = {} /\ o.requestl = {} /\ ~o.established
    BY <2>2 DEF Offer, Shaped
  <2> HIDE DEF o, i
  <2>5. /\ Shaped(i) /\ i.refs = 1 /\ i.terminated = 0 /\ (~ok => i.req = "none")
        /\ i.replyl = {} /\ i.requestl = {} /\ ~i.established
    BY <2>3, <2>4 DEF SendRequest, Shaped
  <2>6. h.held /\ ~h.established  BY <2>5 DEF Shaped
  <2> HIDE DEF h
  <2>7. ~ok => ~Deref(i, yes).established /\ Deref(i, yes).mem # "live"
    BY <2>5, DerefPasses, FailedOpenFrees DEF Passes
  <2> QED  BY <2>1, <2>6, <2>7
<1> QED  BY <1>1, <1>2

\* The first step.
LEMMA FirstStep ==
  ASSUME IInv, Next, sess.mem = "none"
  PROVE  /\ ~sess'.established /\ ups' = {}
         /\ sess'.held \/ sess'.mem # "live"
<1>1. sess = Fresh  BY DEF IInv
<1>2. /\ ~sess.held /\ ~sess.st /\ ~sess.tmr /\ sess.req = "none"
      /\ sess.replyl = {} /\ sess.requestl = {} /\ ~Live(sess)
  BY <1>1 DEF Fresh, Live
<1>3. \E x, ok \in BOOLEAN : Accept(ok) \/ Connect(x, ok)  BY <1>2, OnlyOpens
<1> QED  BY <1>1, <1>3, Opens

\* A session that is not over belongs to the user, whose first INVITE is still to
\* be answered as long as it is the pending request.
Unanswered == sess.held /\ sess.req = "invite" => ~sess.established

LEMMA HeldOpens ==
  ASSUME IInv, sess.held \/ (sess.mem # "none" /\ sess.terminated = 0)
  PROVE  Open(sess, rseq)
<1>1. sess.mem # "none"
  <2> SUFFICES ASSUME sess = Fresh PROVE sess.mem = "none" => ~sess.held
    BY DEF IInv
  <2> QED  BY DEF Fresh
<1>2. Open(sess, rseq) \/ Over(sess)  BY <1>1 DEF IInv
<1> QED  BY <1>2 DEF Over, Waiting, Closing, Gone

LEMMA StepUnanswered == IInv /\ Unanswered /\ [Next]_vars => Unanswered'
<1> SUFFICES ASSUME IInv, Unanswered, [Next]_vars, sess'.held, sess'.req = "invite",
                    sess'.established
             PROVE  FALSE
  BY DEF Unanswered
<1>1. CASE UNCHANGED vars  BY <1>1 DEF vars, Unanswered
<1>2. CASE Next /\ sess.mem = "none"  BY <1>2, FirstStep
<1>3. CASE Next /\ sess.mem # "none"
  <2>1. Later(sess', sess)  BY <1>3, NextLater
  <2>2. sess.held /\ sess.req = "invite"  BY <2>1 DEF Later
  <2>3. sess.replyl = {}  BY <2>2, HeldOpens DEF Open, Exchange
  <2> QED  BY <2>1, <2>2, <2>3 DEF Later, Unanswered
<1> QED  BY <1>1, <1>2, <1>3

LEMMA StepOrder ==
  ASSUME IInv, Unanswered, Next
  PROVE  /\ "estab" \in ups' =>
              ~sess.established /\ sess'.established /\ sess'.terminated = 0
         /\ "close" \in ups' =>
              sess.terminated = 0 /\ sess'.terminated # 0 /\ ~sess'.held
<1>1. CASE sess.mem = "none"  BY <1>1, FirstStep
<1>2. CASE sess.mem # "none"
  <2>1. Told(sess', sess, ups')  BY <1>2, NextLater
  <2>2. sess.terminated = 0 => sess.held  BY <1>2, HeldOpens DEF Open
  <2> QED  BY <2>1, <2>2 DEF Told, Unanswered
<1> QED  BY <1>1, <1>2

\* A step of the session as its user sees it.
LEMMA StepContract ==
  ASSUME IInv, IInv', [Next]_vars
  PROVE  [Contract!CNext]_(Contract!cvars)
<1> DEFINE P == IF sess.mem = "none" THEN "idle"
                ELSE IF ~sess.held THEN "over"
                ELSE IF sess.established THEN "talking" ELSE "setup"
<1>1. CASE UNCHANGED vars  BY <1>1 DEF vars, Contract!cvars
<1>2. CASE Next
  <2>1. Good(sess', rseq')
    <3>1. CASE Notice
      <4>1. sess' = sess /\ rseq' = rseq /\ sess.mem # "none"
        <5>1. sess' = sess /\ rseq' = rseq /\ (sess.req # "none" \/ Live(sess))
          BY <3>1 DEF Notice, RecvProvisional, PeerInfo, InDialog
        <5>2. sess # Fresh  BY <5>1 DEF Fresh, Live
        <5> QED  BY <5>1, <5>2 DEF IInv
      <4>2. sess'.mem # "none"  BY <4>1
      <4> QED  BY <4>2 DEF IInv, Good
    <3> QED  BY <1>2, <3>1, NextGood
  <2>2. \/ sess'.held /\ sess'.mem = "live"
        \/ ~sess'.held /\ sess'.mem \in {"live", "freed"}
    BY <2>1 DEF Good, Open, Owned, Over, Waiting, Closing, Gone
  <2>3. CASE sess.mem = "none"
    <3>1. /\ ~sess'.established
          /\ sess'.held \/ sess'.mem # "live"
      BY <1>2, <2>3, FirstStep
    <3> QED
      BY <2>2, <2>3, <3>1 DEF Contract!CNext, Contract!Open, Contract!OpenFails
  <2>4. CASE Open(sess, rseq)
    <3>1. sess.held /\ sess.mem = "live"  BY <2>4 DEF Open, Owned
    <3>2. sess.established => sess'.established  BY <1>2, <3>1, NextLater DEF Later
    <3>3. sess.established \in BOOLEAN /\ sess'.established \in BOOLEAN
      BY DEF IInv, TypeOK, Session
    <3>4. CASE sess'.held
      BY <2>2, <3>1, <3>2, <3>4
         DEF Contract!cvars, Contract!CNext, Contract!Establish
    <3>5. CASE ~sess'.held
      BY <2>2, <3>1, <3>5 DEF Contract!CNext, Contract!Finish
    <3> QED  BY <3>4, <3>5
  <2>5. CASE sess.mem # "none" /\ Over(sess)
    <3>1. ~Gone(sess)  BY <1>2, <2>5, GoneStops DEF Over
    <3>2. sess.mem = "live" /\ ~sess.held  BY <2>5, <3>1 DEF Over, Waiting, Closing
    <3>3. ~sess'.held  BY <1>2, <2>5, <3>2, NextLater DEF Later
    <3> QED
      BY <2>2, <3>2, <3>3 DEF Contract!cvars, Contract!CNext, Contract!Reclaim
  <2> QED  BY <2>3, <2>4, <2>5 DEF IInv
<1> QED  BY <1>1, <1>2

\* estabh is called only as the session becomes established and goes on, closeh only
\* in the step that ends the user's ownership: call.c relies on that order.
THEOREM UpcallsOrdered == Spec => UpcallOrder
<1>1. Init => Unanswered  BY DEF Init, Fresh, Unanswered
<1>2. Spec => []Unanswered  BY <1>1, StepUnanswered, Invariance, PTL DEF Spec
<1>3. IInv /\ Unanswered /\ [Next]_vars =>
        [/\ "estab" \in ups' =>
              ~sess.established /\ sess'.established /\ sess'.terminated = 0
         /\ "close" \in ups' =>
              sess.terminated = 0 /\ sess'.terminated # 0 /\ ~sess'.held]_vars
  <2> SUFFICES ASSUME IInv, Unanswered, [Next]_vars, vars' # vars
               PROVE  /\ "estab" \in ups' =>
                           ~sess.established /\ sess'.established /\ sess'.terminated = 0
                      /\ "close" \in ups' =>
                           sess.terminated = 0 /\ sess'.terminated # 0 /\ ~sess'.held
    BY DEF vars
  <2>1. Next  OBVIOUS
  <2> QED  BY <2>1, StepOrder
<1> QED  BY <1>2, <1>3, Invariance, PTL DEF Spec, UpcallOrder

\* The session implements its contract as far as safety goes: one owner until one
\* end, after which the library never comes back, and no memory taken from an owner.
THEOREM ContractSafe == Spec => Contract!CSafe
<1>1. Init => Contract!CInit  BY DEF Init, Fresh, Contract!CInit
<1>2. IInv /\ IInv' /\ [Next]_vars => [Contract!CNext]_(Contract!cvars)
  BY StepContract
<1> QED  BY <1>1, <1>2, Invariance, PTL DEF Spec, Contract!CSafe
=============================================================================
