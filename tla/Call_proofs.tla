----------------------------- MODULE Call_proofs -----------------------------
(***************************************************************************)
(* Proofs about Call, for any number of calls and subscriptions, any limit *)
(* on calls and every answer mode.                                         *)
(*                                                                         *)
(* NothingLeftBehind carries the argument: because a free block has no     *)
(* session, no timer and no stream, every action that is guarded by one of *)
(* them acts on a call that is live.  With the types and RingbackOwned it  *)
(* is inductive.                                                           *)
(***************************************************************************)
EXTENDS Call, TLAPS

\* Nothing of a free block calls back.
FreeIsQuiet ==
  \A c \in Calls :
    ~Live(c) => /\ call[c].sess = "none"
                /\ ~call[c].tmr /\ ~call[c].media /\ ~call[c].rtp

\* Every open subscription is held by a live call.
OpenIsHeld ==
  \A n \in Notifiers :
    notifier[n] # NoCall => \E c \in LiveCalls : call[c].not = n

IInv == TypeOK /\ FreeIsQuiet /\ OpenIsHeld /\ RingbackOwned

LEMMA LeftBehindParts == NothingLeftBehind <=> FreeIsQuiet /\ OpenIsHeld
BY DEF NothingLeftBehind, FreeIsQuiet, OpenIsHeld

-----------------------------------------------------------------------------
(***************************************************************************)
(* The helpers.                                                            *)
(***************************************************************************)
LEMMA Numbers == NoCall \notin Calls /\ NoNotifier \notin Notifiers
BY CallsAssumption, NotifiersAssumption DEF NoCall, NoNotifier

LEMMA StartStopTypes ==
  ASSUME NEW r \in CallRecord, NEW active \in BOOLEAN
  PROVE  /\ StreamStop(r) \in CallRecord
         /\ StreamStart(r, active) \in CallRecord
         /\ Destroyed(r) \in CallRecord
BY DEF CallRecord, StreamStop, StreamStart, Destroyed, NoNotifier

LEMMA StartKeeps ==
  ASSUME NEW r \in CallRecord, NEW active \in BOOLEAN
  PROVE  /\ StreamStart(r, active).mem = r.mem
         /\ StreamStart(r, active).sess = r.sess
         /\ StreamStart(r, active).not = r.not
BY DEF CallRecord, StreamStart

\* What is left of a call that is destroyed.
LEMMA DestroyedQuiet ==
  ASSUME NEW r \in CallRecord
  PROVE  /\ Destroyed(r).mem = "free" /\ Destroyed(r).sess = "none"
         /\ Destroyed(r).tmr = FALSE /\ Destroyed(r).media = FALSE
         /\ Destroyed(r).rtp = FALSE /\ Destroyed(r).not = NoNotifier
BY DEF CallRecord, StreamStop, Destroyed, NoNotifier

LEMMA AllocatedType ==
  ASSUME NEW n \in Notifiers \cup {NoNotifier},
         NEW state \in {"INCOMING", "OUTGOING"}, NEW sess \in {"early", "calling"}
  PROVE  /\ Allocated(state, sess, n) \in CallRecord
         /\ Allocated(state, sess, n).mem = "live"
         /\ Allocated(state, sess, n).not = n
BY DEF CallRecord, Allocated, Unused, NoNotifier

LEMMA NotifierTypes ==
  ASSUME TypeOK, NEW c
  PROVE  /\ LetGo(c) \in [Notifiers -> Calls \cup {NoCall}]
         /\ NotifiedFinal(c) \in [Notifiers -> Calls \cup {NoCall}]
BY DEF TypeOK, LetGo, NotifiedFinal, NoCall

\* A call that is closed, hung up or timed out: what its end does to the calls, in
\* each of the ways the subscriptions may end with it.
LEMMA EndsClean ==
  ASSUME IInv, NEW c \in Calls,
         call' = [call EXCEPT ![c] = Destroyed(@)],
         notifier' \in {LetGo(c), NotifiedFinal(c)}
  PROVE  /\ call' \in [Calls -> CallRecord]
         /\ notifier' \in [Notifiers -> Calls \cup {NoCall}]
         /\ FreeIsQuiet' /\ OpenIsHeld'
<1>1. call[c] \in CallRecord /\ call \in [Calls -> CallRecord]
  BY DEF IInv, TypeOK
<1>2. call' \in [Calls -> CallRecord]
  BY <1>1, StartStopTypes
<1>3. notifier' \in [Notifiers -> Calls \cup {NoCall}]
  BY NotifierTypes DEF IInv
<1>4. FreeIsQuiet'
  BY <1>1, DestroyedQuiet DEF IInv, FreeIsQuiet, Live
<1>5. OpenIsHeld'
  <2> SUFFICES ASSUME NEW n \in Notifiers, notifier'[n] # NoCall
               PROVE  \E d \in LiveCalls' : call'[d].not = n
    BY DEF OpenIsHeld
  <2>1. notifier[n] # NoCall
        /\ (call[c].not = n => \E d \in LiveCalls \ {c} : call[d].not = n)
    BY DEF LetGo, NotifiedFinal
  <2>2. PICK d \in LiveCalls \ {c} : call[d].not = n
    BY <2>1 DEF IInv, OpenIsHeld
  <2> QED
    BY <1>1, <2>2 DEF LiveCalls, Live
<1> QED
  BY <1>2, <1>3, <1>4, <1>5

\* A record that stays live, keeps its subscription and is not rung for disturbs nothing.
LEMMA ChangesClean ==
  ASSUME IInv, NEW c \in Calls, NEW r \in CallRecord,
         call' = [call EXCEPT ![c] = r], notifier' = notifier,
         r.mem = "live", Live(c) => r.not = call[c].not
  PROVE  /\ call' \in [Calls -> CallRecord]
         /\ notifier' \in [Notifiers -> Calls \cup {NoCall}]
         /\ FreeIsQuiet' /\ OpenIsHeld'
BY DEF IInv, TypeOK, FreeIsQuiet, OpenIsHeld, LiveCalls, Live

-----------------------------------------------------------------------------
(***************************************************************************)
(* The inductive invariant.                                                *)
(***************************************************************************)
LEMMA InitIInv == Init => IInv
BY DEF Init, IInv, TypeOK, FreeIsQuiet, OpenIsHeld, RingbackOwned, CallRecord, Unused,
       Live, LiveCalls, NoTone, NoCall, NoNotifier

LEMMA IncomingIInv ==
  ASSUME IInv, NEW c \in Calls, NEW mode \in AnswerModes, NEW done \in BOOLEAN,
         Incoming(c, mode, done)
  PROVE  IInv'
<1> DEFINE r == [Allocated("INCOMING", "early", NoNotifier) EXCEPT !.tmr = TRUE]
           q == IF ~done THEN r
                ELSE IF mode = "early" THEN StreamStart(r, FALSE)
                ELSE [r EXCEPT !.sess = "answered"]
<1>1. r \in CallRecord /\ r.mem = "live"
  BY DEF CallRecord, Allocated, Unused, NoNotifier
<1> HIDE DEF r
<1>2. q \in CallRecord /\ q.mem = "live"
  <2>1. StreamStart(r, FALSE) \in CallRecord /\ StreamStart(r, FALSE).mem = "live"
    BY <1>1, StartStopTypes, StartKeeps
  <2>2. [r EXCEPT !.sess = "answered"] \in CallRecord
        /\ [r EXCEPT !.sess = "answered"].mem = "live"
    BY <1>1 DEF CallRecord
  <2> QED
    BY <1>1, <2>1, <2>2
<1>3. call' = [call EXCEPT ![c] = q] /\ ~Live(c) /\ notifier' = notifier
  BY DEF Incoming, Fresh, r
<1> HIDE DEF q
<1>4. /\ call' \in [Calls -> CallRecord]
      /\ notifier' \in [Notifiers -> Calls \cup {NoCall}]
      /\ FreeIsQuiet' /\ OpenIsHeld'
  BY <1>2, <1>3, ChangesClean
<1>5. RingbackOwned'
  BY DEF Incoming, RingbackOwned, NoTone
<1> QED
  BY <1>4, <1>5 DEF IInv, TypeOK, Incoming

LEMMA InviteTimeoutIInv ==
  ASSUME IInv, NEW c \in Calls, InviteTimeout(c)
  PROVE  IInv'
<1>1. call' = [call EXCEPT ![c] = Destroyed(@)] /\ notifier' = LetGo(c)
  BY DEF InviteTimeout, Closed
<1>2. /\ call' \in [Calls -> CallRecord]
      /\ notifier' \in [Notifiers -> Calls \cup {NoCall}]
      /\ FreeIsQuiet' /\ OpenIsHeld'
  BY <1>1, EndsClean
<1>3. RingbackOwned'
  BY DEF InviteTimeout, Closed, RingbackOwned, NoTone
<1> QED
  BY <1>2, <1>3 DEF IInv, TypeOK, InviteTimeout, Closed

LEMMA DialOutIInv ==
  ASSUME IInv, NEW c \in Calls, NEW sent \in BOOLEAN, DialOut(c, sent)
  PROVE  IInv'
<1>1. RingbackOwned'
  BY DEF DialOut, RingbackOwned, NoTone
<1>2. CASE sent
  <2>1. call' = [call EXCEPT ![c] = Allocated("OUTGOING", "calling", NoNotifier)]
        /\ notifier' = notifier /\ ~Live(c)
    BY <1>2 DEF DialOut, Fresh
  <2>2. /\ call' \in [Calls -> CallRecord]
        /\ notifier' \in [Notifiers -> Calls \cup {NoCall}]
        /\ FreeIsQuiet' /\ OpenIsHeld'
    BY <2>1, AllocatedType, ChangesClean
  <2> QED
    BY <1>1, <1>2, <2>2 DEF IInv, TypeOK, DialOut
<1>3. CASE ~sent
  BY <1>1, <1>3
     DEF IInv, TypeOK, DialOut, FreeIsQuiet, OpenIsHeld, LiveCalls, Live
<1> QED
  BY <1>2, <1>3

LEMMA QuietStep ==
  ASSUME IInv, UNCHANGED <<call, notifier, callp, misused>>, play' = NoTone
  PROVE  IInv'
BY DEF IInv, TypeOK, FreeIsQuiet, OpenIsHeld, LiveCalls, Live, RingbackOwned, NoTone

LEMMA ProgressIInv ==
  ASSUME IInv, NEW c \in Calls, NEW code \in {180, 181, 183}, NEW media \in BOOLEAN,
         Progress(c, code, media)
  PROVE  IInv'
<1>1. call[c] \in CallRecord /\ call \in [Calls -> CallRecord] /\ Live(c)
      /\ call[c].sess = "calling"
  BY DEF IInv, TypeOK, FreeIsQuiet, Progress
<1> DEFINE s == [StreamStop(call[c]) EXCEPT !.state = StateAfter(code, call[c].state)]
           q == IF media THEN StreamStart(s, FALSE) ELSE s
<1>2. q \in CallRecord /\ q.mem = "live" /\ q.not = call[c].not /\ q.sess = "calling"
      /\ (~media => q.media = FALSE)
  <2>1. StateAfter(code, call[c].state)
          \in {"IDLE", "INCOMING", "OUTGOING", "RINGING", "EARLY", "ESTABLISHED"}
    BY <1>1 DEF StateAfter, CallRecord
  <2>2. /\ s \in CallRecord /\ s.media = FALSE
        /\ s.mem = "live" /\ s.sess = "calling" /\ s.not = call[c].not
    BY <1>1, <2>1 DEF StreamStop, CallRecord, Live
  <2> HIDE DEF s
  <2>3. /\ StreamStart(s, FALSE) \in CallRecord
        /\ StreamStart(s, FALSE).mem = s.mem
        /\ StreamStart(s, FALSE).sess = s.sess
        /\ StreamStart(s, FALSE).not = s.not
    BY <2>2, StartStopTypes, StartKeeps
  <2> QED
    BY <2>2, <2>3
<1>3. call' = [call EXCEPT ![c] = q] /\ notifier' = notifier
  BY DEF Progress, Progressed
<1>4. /\ call' \in [Calls -> CallRecord]
      /\ notifier' \in [Notifiers -> Calls \cup {NoCall}]
      /\ FreeIsQuiet' /\ OpenIsHeld'
  BY <1>2, <1>3, ChangesClean
<1>5. RingbackOwned'
  <2>1. play' = IF media THEN NoTone ELSE RingbackOf(c)
    BY DEF Progress, Ring
  <2>2. play'.tone = "ringback" => play'.of = c /\ ~media
    BY <2>1 DEF RingbackOf, NoTone
  <2>3. call'[c] = q
    BY <1>1, <1>3
  <2>4. q.mem = "live" /\ q.sess = "calling" /\ (~media => ~q.media)
    BY <1>2
  <2> HIDE DEF q
  <2> QED
    BY <2>2, <2>3, <2>4 DEF RingbackOwned
<1> QED
  <2>1. play' \in {NoTone, ErrorTone} \cup {RingbackOf(d) : d \in Calls}
    BY DEF Progress, Ring
  <2> QED
    BY <1>4, <1>5, <2>1 DEF IInv, TypeOK, Progress


LEMMA EstablishedIInv ==
  ASSUME IInv, NEW c \in Calls, Established(c)
  PROVE  IInv'
<1> DEFINE r == StreamStart(call[c], TRUE)
           q == [r EXCEPT !.state = "ESTABLISHED", !.sess = "talking",
                          !.rtp = TRUE, !.not = NoNotifier]
<1>1. call[c] \in CallRecord /\ call \in [Calls -> CallRecord] /\ Live(c)
  BY DEF IInv, TypeOK, FreeIsQuiet, Established
<1>2. r \in CallRecord /\ r.mem = call[c].mem
  BY <1>1, StartStopTypes, StartKeeps
<1> HIDE DEF r
<1>3. q \in CallRecord /\ q.mem = "live"
  BY <1>1, <1>2 DEF CallRecord, Live
<1>4. call' = [call EXCEPT ![c] = q] /\ notifier' = NotifiedFinal(c)
  BY DEF Established, r
<1> HIDE DEF q
<1>5. call' \in [Calls -> CallRecord]
  BY <1>1, <1>3, <1>4
<1>6. notifier' \in [Notifiers -> Calls \cup {NoCall}]
  BY <1>4, NotifierTypes DEF IInv
<1>7. FreeIsQuiet'
  BY <1>1, <1>3, <1>4 DEF IInv, FreeIsQuiet, Live
<1>8. OpenIsHeld'
  <2> SUFFICES ASSUME NEW n \in Notifiers, notifier'[n] # NoCall
               PROVE  \E d \in LiveCalls' : call'[d].not = n
    BY DEF OpenIsHeld
  <2>1. notifier[n] # NoCall /\ call[c].not # n
    BY <1>4 DEF NotifiedFinal
  <2>2. PICK d \in LiveCalls : call[d].not = n
    BY <2>1 DEF IInv, OpenIsHeld
  <2> QED
    BY <1>1, <1>4, <2>1, <2>2 DEF LiveCalls, Live
<1>9. RingbackOwned'
  BY DEF Established, RingbackOwned, NoTone
<1> QED
  BY <1>5, <1>6, <1>7, <1>8, <1>9 DEF IInv, TypeOK, Established

LEMMA SessClosesIInv ==
  ASSUME IInv, NEW c \in Calls, NEW tone \in {NoTone, ErrorTone}, SessCloses(c, tone)
  PROVE  IInv'
<1>1. call' = [call EXCEPT ![c] = Destroyed(@)] /\ notifier' = NotifiedFinal(c)
  BY DEF SessCloses, Closed
<1>2. /\ call' \in [Calls -> CallRecord]
      /\ notifier' \in [Notifiers -> Calls \cup {NoCall}]
      /\ FreeIsQuiet' /\ OpenIsHeld'
  BY <1>1, EndsClean
<1>3. RingbackOwned'
  BY DEF SessCloses, Closed, RingbackOwned, NoTone, ErrorTone
<1> QED
  BY <1>2, <1>3 DEF IInv, TypeOK, SessCloses, Closed

LEMMA RtpTimeoutIInv ==
  ASSUME IInv, NEW c \in Calls, RtpTimeout(c)
  PROVE  IInv'
<1>1. PICK tone \in {NoTone, ErrorTone} : Closed(c, tone)
  BY DEF RtpTimeout
<1>2. call' = [call EXCEPT ![c] = Destroyed(@)] /\ notifier' = LetGo(c)
  BY <1>1 DEF RtpTimeout, Closed
<1>3. /\ call' \in [Calls -> CallRecord]
      /\ notifier' \in [Notifiers -> Calls \cup {NoCall}]
      /\ FreeIsQuiet' /\ OpenIsHeld'
  BY <1>2, EndsClean
<1>4. RingbackOwned'
  BY <1>1 DEF Closed, RingbackOwned, NoTone, ErrorTone
<1> QED
  BY <1>1, <1>3, <1>4 DEF IInv, TypeOK, Closed

LEMMA HangupIInv ==
  ASSUME IInv, Hangup
  PROVE  IInv'
<1>1. callp \in Calls
  BY DEF IInv, TypeOK, Hangup
<1>2. call' = [call EXCEPT ![callp] = Destroyed(@)] /\ notifier' = LetGo(callp)
  BY DEF Hangup
<1>3. /\ call' \in [Calls -> CallRecord]
      /\ notifier' \in [Notifiers -> Calls \cup {NoCall}]
      /\ FreeIsQuiet' /\ OpenIsHeld'
  BY <1>1, <1>2, EndsClean
<1>4. RingbackOwned'
  BY DEF Hangup, RingbackOwned, NoTone
<1> QED
  BY <1>3, <1>4 DEF IInv, TypeOK, Hangup

LEMMA HangupStaleIInv ==
  ASSUME IInv, HangupStale
  PROVE  IInv'
BY DEF IInv, TypeOK, HangupStale, FreeIsQuiet, OpenIsHeld, LiveCalls, Live, RingbackOwned

\* The REFER that is refused, and the one whose call could not be made.
LEMMA ReferGivenUpIInv ==
  ASSUME IInv, NEW c \in Calls, Live(c),
         call' = [call EXCEPT ![c].not = NoNotifier], notifier' = LetGo(c),
         play' \in {play, NoTone}, UNCHANGED <<callp, misused>>
  PROVE  IInv'
<1>1. call[c] \in CallRecord /\ call \in [Calls -> CallRecord]
  BY DEF IInv, TypeOK
<1>2. call' \in [Calls -> CallRecord]
  BY <1>1 DEF CallRecord
<1>3. notifier' \in [Notifiers -> Calls \cup {NoCall}]
  BY NotifierTypes DEF IInv
<1>4. \A d \in Calls : /\ call'[d].mem = call[d].mem /\ call'[d].sess = call[d].sess
                       /\ call'[d].tmr = call[d].tmr /\ call'[d].media = call[d].media
                       /\ call'[d].rtp = call[d].rtp
                       /\ d # c => call'[d].not = call[d].not
  BY <1>1 DEF CallRecord
<1>5. FreeIsQuiet'
  BY <1>4 DEF IInv, FreeIsQuiet, Live
<1>6. OpenIsHeld'
  <2> SUFFICES ASSUME NEW n \in Notifiers, notifier'[n] # NoCall
               PROVE  \E d \in LiveCalls' : call'[d].not = n
    BY DEF OpenIsHeld
  <2>1. notifier[n] # NoCall
        /\ (call[c].not = n => \E d \in LiveCalls \ {c} : call[d].not = n)
    BY DEF LetGo
  <2>2. PICK d \in LiveCalls \ {c} : call[d].not = n
    BY <2>1 DEF IInv, OpenIsHeld
  <2> QED
    BY <1>4, <2>2 DEF LiveCalls, Live
<1>7. RingbackOwned'
  <2>1. play.tone = "ringback" => play.of \in Calls
    BY DEF IInv, TypeOK, NoTone, ErrorTone, RingbackOf
  <2> QED
    BY <1>4, <2>1 DEF IInv, RingbackOwned, NoTone
<1> QED
  BY <1>2, <1>3, <1>5, <1>6, <1>7 DEF IInv, TypeOK

LEMMA ReferIInv ==
  ASSUME IInv, NEW c \in Calls, NEW d \in Calls, NEW n \in Notifiers, NEW sent \in BOOLEAN,
         Refer(c, n, d, sent)
  PROVE  IInv'
<1>1. call[c] \in CallRecord /\ call \in [Calls -> CallRecord] /\ Live(c)
  BY DEF IInv, TypeOK, FreeIsQuiet, Refer
<1>2. CASE ~sent
  BY <1>1, <1>2, ReferGivenUpIInv DEF Refer
<1>3. CASE sent
  <2> DEFINE a == Allocated("OUTGOING", "calling", n)
  <2>1. a \in CallRecord /\ a.mem = "live" /\ a.not = n
    BY AllocatedType
  <2>2. call' = [call EXCEPT ![c].not = n, ![d] = a] /\ d # c /\ ~Live(d)
        /\ notifier' = [LetGo(c) EXCEPT ![n] = c]
        /\ (\A e \in Calls : call[e].not # n)
    BY <1>3 DEF Refer, Fresh, FreshNotifier
  <2> HIDE DEF a
  <2>3. call' \in [Calls -> CallRecord]
    BY <1>1, <2>1, <2>2 DEF CallRecord
  <2>4. LetGo(c) \in [Notifiers -> Calls \cup {NoCall}]
    BY NotifierTypes DEF IInv
  <2>5. notifier' \in [Notifiers -> Calls \cup {NoCall}]
    BY <2>2, <2>4
  <2>6. /\ \A e \in Calls \ {c, d} : call'[e] = call[e]
        /\ call'[d] = a
        /\ call'[c].mem = "live" /\ call'[c].not = n
    BY <1>1, <2>2 DEF CallRecord, Live
  <2>7. FreeIsQuiet'
    BY <2>1, <2>6 DEF IInv, FreeIsQuiet, Live
  <2>8. OpenIsHeld'
    <3> SUFFICES ASSUME NEW m \in Notifiers, notifier'[m] # NoCall
                 PROVE  \E e \in LiveCalls' : call'[e].not = m
      BY DEF OpenIsHeld
    <3>1. CASE m = n
      BY <2>6, <3>1 DEF LiveCalls, Live
    <3>2. CASE m # n
      <4>1. notifier[m] # NoCall
            /\ (call[c].not = m => \E e \in LiveCalls \ {c} : call[e].not = m)
        BY <2>2, <2>4, <3>2 DEF LetGo
      <4>2. PICK e \in LiveCalls \ {c} : call[e].not = m
        BY <4>1 DEF IInv, OpenIsHeld
      <4> QED
        BY <2>2, <2>6, <4>2 DEF LiveCalls, Live
    <3> QED
      BY <3>1, <3>2
  <2>9. RingbackOwned'
    BY DEF Refer, RingbackOwned, NoTone
  <2> QED
    BY <2>3, <2>5, <2>7, <2>8, <2>9 DEF IInv, TypeOK, Refer
<1> QED
  BY <1>2, <1>3

LEMMA NotifierClosesIInv ==
  ASSUME IInv, NEW n \in Notifiers, NotifierCloses(n)
  PROVE  IInv'
<1> DEFINE c == notifier[n]
<1>1. c \in Calls
  BY DEF IInv, TypeOK, NotifierCloses
<1>2. CASE ~Live(c)
  <2>1. call' = call /\ notifier' = [notifier EXCEPT ![n] = NoCall]
    BY <1>2 DEF NotifierCloses
  <2> QED
    BY <1>2, <2>1
       DEF IInv, TypeOK, NotifierCloses, FreeIsQuiet, OpenIsHeld, LiveCalls, Live,
           RingbackOwned, NoCall
<1>3. CASE Live(c)
  <2>1. call' = [call EXCEPT ![c].not = NoNotifier]
        /\ notifier' = [LetGo(c) EXCEPT ![n] = NoCall]
    BY <1>3 DEF NotifierCloses
  <2> HIDE DEF c
  <2>2. call[c] \in CallRecord /\ call \in [Calls -> CallRecord]
    BY <1>1 DEF IInv, TypeOK
  <2>3. call' \in [Calls -> CallRecord]
    BY <1>1, <2>1, <2>2 DEF CallRecord
  <2>4. LetGo(c) \in [Notifiers -> Calls \cup {NoCall}]
    BY NotifierTypes DEF IInv
  <2>5. notifier' \in [Notifiers -> Calls \cup {NoCall}]
    BY <2>1, <2>4
  <2>6. \A d \in Calls : /\ call'[d].mem = call[d].mem /\ call'[d].sess = call[d].sess
                         /\ call'[d].tmr = call[d].tmr
                         /\ call'[d].media = call[d].media
                         /\ call'[d].rtp = call[d].rtp
                         /\ d # c => call'[d].not = call[d].not
    BY <2>1, <2>2 DEF CallRecord
  <2>7. FreeIsQuiet'
    BY <2>6 DEF IInv, FreeIsQuiet, Live
  <2>8. OpenIsHeld'
    <3> SUFFICES ASSUME NEW m \in Notifiers, notifier'[m] # NoCall
                 PROVE  \E d \in LiveCalls' : call'[d].not = m
      BY DEF OpenIsHeld
    <3>1. notifier[m] # NoCall
          /\ (call[c].not = m => \E d \in LiveCalls \ {c} : call[d].not = m)
      BY <2>1, <2>4 DEF LetGo
    <3>2. PICK d \in LiveCalls \ {c} : call[d].not = m
      BY <3>1 DEF IInv, OpenIsHeld
    <3> QED
      BY <2>6, <3>2 DEF LiveCalls, Live
  <2>9. RingbackOwned'
    <3>1. play.tone = "ringback" => play.of \in Calls
      BY DEF IInv, TypeOK, NoTone, ErrorTone, RingbackOf
    <3>2. play' = play
      BY DEF NotifierCloses
    <3> QED
      BY <2>6, <3>1, <3>2 DEF IInv, RingbackOwned
  <2> QED
    BY <2>3, <2>5, <2>7, <2>8, <2>9 DEF IInv, TypeOK, NotifierCloses
<1> QED
  BY <1>2, <1>3

LEMMA NextIInv == IInv /\ [Next]_vars => IInv'
<1> SUFFICES ASSUME IInv, [Next]_vars PROVE IInv'
  OBVIOUS
<1>1. CASE UNCHANGED vars
  BY <1>1 DEF vars, IInv, TypeOK, FreeIsQuiet, OpenIsHeld, LiveCalls, Live, RingbackOwned
<1>2. ASSUME NEW c \in Calls, Trying(c) PROVE IInv'
  BY <1>2, QuietStep DEF Trying
<1>3. CASE ToneEnds
  BY <1>3, QuietStep DEF ToneEnds
<1>4. ASSUME NEW c \in Calls, ReferFails(c) PROVE IInv'
  <2>1. Live(c)
    BY <1>4 DEF IInv, FreeIsQuiet, ReferFails
  <2> QED
    BY <1>4, <2>1, ReferGivenUpIInv DEF ReferFails
<1> QED
  BY <1>1, <1>2, <1>3, <1>4, IncomingIInv, InviteTimeoutIInv, DialOutIInv, ProgressIInv,
     EstablishedIInv, SessClosesIInv, RtpTimeoutIInv, HangupIInv, HangupStaleIInv,
     ReferIInv, NotifierClosesIInv DEF Next

LEMMA IInvHolds == Spec => []IInv
BY InitIInv, NextIInv, PTL DEF Spec

-----------------------------------------------------------------------------
\* Every variable has its type, in every state of every run.
THEOREM TypeCorrect == Spec => []TypeOK
<1>1. IInv => TypeOK
  BY DEF IInv
<1> QED
  BY <1>1, IInvHolds, PTL

\* No session, timer, stream or subscription outlives the call it calls back into.
THEOREM NothingLeft == Spec => []NothingLeftBehind
<1>1. IInv => NothingLeftBehind
  BY LeftBehindParts DEF IInv
<1> QED
  BY <1>1, IInvHolds, PTL

\* The ringback tone never outlasts the set-up of its call.
THEOREM RingbackAlwaysOwned == Spec => []RingbackOwned
<1>1. IInv => RingbackOwned
  BY DEF IInv
<1> QED
  BY <1>1, IInvHolds, PTL

-----------------------------------------------------------------------------
(***************************************************************************)
(* A call and its session.                                                 *)
(***************************************************************************)
\* What runs fits the state of the call: the timer of an incoming call only while its
\* session is being set up, the RTP check only once it is established.
Fits(r) ==
  /\ r.mem = "live" <=> r.sess # "none"
  /\ r.state = "ESTABLISHED" <=> r.sess = "talking"
  /\ r.tmr => r.sess \in {"early", "answered"}
  /\ r.rtp => r.sess = "talking"

AllFit == \A c \in Calls : Fits(call[c])

\* What SessionContract lets the user of one session see, from its opening to its end.
Opened(r, q) == r.mem = "free" /\ q.mem = "live" /\ q.sess \in {"early", "answered", "calling"}
GotThrough(r, q) ==
  /\ r.mem = "live" /\ q.mem = "live"
  /\ r.sess \in {"answered", "calling"} /\ q.sess = "talking"
Ended(r, q) == r.mem = "live" /\ q.mem = "free" /\ q.sess = "none"
Unmoved(r, q) == q.mem = r.mem /\ q.sess = r.sess

Follows(r, q) == Opened(r, q) \/ GotThrough(r, q) \/ Ended(r, q) \/ Unmoved(r, q)

Goes(r, q) == Fits(q) /\ Follows(r, q)

LEMMA StaysItself ==
  ASSUME NEW r \in CallRecord, Fits(r), NEW n
  PROVE  Goes(r, r) /\ Goes(r, [r EXCEPT !.not = n])
<1>1. Goes(r, r)
  BY DEF Goes, Follows, Unmoved
<1>2. Goes(r, [r EXCEPT !.not = n])
  BY DEF CallRecord, Goes, Fits, Follows, Unmoved
<1> QED
  BY <1>1, <1>2

LEMMA EndGoes ==
  ASSUME NEW r \in CallRecord, Fits(r), r.mem = "live"
  PROVE  Goes(r, Destroyed(r))
<1>1. Destroyed(r).state = "IDLE"
  BY DEF CallRecord, StreamStop, Destroyed
<1> QED
  BY <1>1, DestroyedQuiet DEF Goes, Fits, Follows, Ended

LEMMA OpenGoes ==
  ASSUME NEW r \in CallRecord, r.mem = "free", NEW n
  PROVE  /\ Goes(r, Allocated("OUTGOING", "calling", n))
         /\ LET q == [Allocated("INCOMING", "early", n) EXCEPT !.tmr = TRUE]
            IN  /\ Goes(r, q) /\ Goes(r, StreamStart(q, FALSE))
                /\ Goes(r, [q EXCEPT !.sess = "answered"])
BY DEF Allocated, Unused, StreamStart, Goes, Fits, Follows, Opened

LEMMA ProgressGoes ==
  ASSUME NEW r \in CallRecord, Fits(r), r.sess = "calling",
         NEW code \in {180, 181, 183}, NEW media \in BOOLEAN
  PROVE  Goes(r, Progressed(r, code, media))
<1> DEFINE z == StateAfter(code, r.state)
           s == [StreamStop(r) EXCEPT !.state = z]
<1>1. z # "ESTABLISHED"
  BY DEF StateAfter, Fits
<1> HIDE DEF z
<1>2. /\ s.mem = r.mem /\ s.sess = "calling" /\ s.state = z
      /\ s.tmr = FALSE /\ s.rtp = r.rtp
      /\ s.media \in BOOLEAN
  BY DEF CallRecord, StreamStop
<1>3. Goes(r, s)
  BY <1>1, <1>2 DEF Goes, Fits, Follows, Unmoved
<1>4. Goes(r, StreamStart(s, FALSE))
  BY <1>1, <1>2 DEF CallRecord, StreamStop, StreamStart, Goes, Fits, Follows, Unmoved
<1>5. Progressed(r, code, media) = IF media THEN StreamStart(s, FALSE) ELSE s
  BY DEF Progressed, z
<1> QED
  BY <1>3, <1>4, <1>5

LEMMA EstablishGoes ==
  ASSUME NEW r \in CallRecord, Fits(r), r.sess \in {"answered", "calling"}
  PROVE  Goes(r, [StreamStart(r, TRUE) EXCEPT !.state = "ESTABLISHED", !.sess = "talking",
                                              !.rtp = TRUE, !.not = NoNotifier])
BY DEF CallRecord, StreamStart, Goes, Fits, Follows, GotThrough

\* One call changes as it may, or none does.
LEMMA OneGoes ==
  ASSUME TypeOK, AllFit, NEW c \in Calls, NEW q, Goes(call[c], q),
         call' = [call EXCEPT ![c] = q]
  PROVE  \A d \in Calls : Goes(call[d], call'[d])
<1> SUFFICES ASSUME NEW d \in Calls PROVE Goes(call[d], call'[d])
  OBVIOUS
<1>1. call \in [Calls -> CallRecord] /\ call[d] \in CallRecord /\ Fits(call[d])
  BY DEF TypeOK, AllFit
<1>2. CASE d = c
  BY <1>1, <1>2
<1>3. CASE d # c
  BY <1>1, <1>3, StaysItself
<1> QED
  BY <1>2, <1>3

LEMMA NoneGoes ==
  ASSUME TypeOK, AllFit, call' = call
  PROVE  \A d \in Calls : Goes(call[d], call'[d])
BY StaysItself DEF TypeOK, AllFit

LEMMA StepGoes ==
  ASSUME IInv, AllFit, [Next]_vars
  PROVE  \A d \in Calls : Goes(call[d], call'[d])
<1> DEFINE Goal == \A d \in Calls : Goes(call[d], call'[d])
<1>t. TypeOK /\ \A c \in Calls : call[c] \in CallRecord /\ Fits(call[c])
  BY DEF IInv, TypeOK, AllFit
<1>o. ASSUME NEW c \in Calls, NEW q, Goes(call[c], q), call' = [call EXCEPT ![c] = q]
      PROVE  Goal
  BY <1>t, <1>o, OneGoes
<1>p. ASSUME NEW c \in Calls, Goes(call[c], call'[c]),
             \A d \in Calls \ {c} : call'[d] = call[d]
      PROVE  Goal
  BY <1>t, <1>p, StaysItself
<1>e. ASSUME NEW c \in Calls, call[c].mem = "live", call' = [call EXCEPT ![c] = Destroyed(@)]
      PROVE  Goal
  BY <1>t, <1>e, EndGoes, OneGoes
<1>n. ASSUME NEW c \in Calls, NEW n, call' = [call EXCEPT ![c].not = n]
      PROVE  Goal
  BY <1>t, <1>n, StaysItself, OneGoes
<1> HIDE DEF Goal
<1>1. ASSUME NEW c \in Calls, NEW mode \in AnswerModes, NEW done \in BOOLEAN,
             Incoming(c, mode, done)
      PROVE  Goal
  <2> DEFINE r == [Allocated("INCOMING", "early", NoNotifier) EXCEPT !.tmr = TRUE]
             q == IF ~done THEN r
                  ELSE IF mode = "early" THEN StreamStart(r, FALSE)
                  ELSE [r EXCEPT !.sess = "answered"]
  <2>1. call[c].mem = "free" /\ call' = [call EXCEPT ![c] = q]
    BY <1>1, <1>t DEF Incoming, Fresh, Live, CallRecord
  <2>2. Goes(call[c], q)
    <3>1. Goes(call[c], r) /\ Goes(call[c], StreamStart(r, FALSE))
          /\ Goes(call[c], [r EXCEPT !.sess = "answered"])
      BY <1>t, <2>1, OpenGoes
    <3> HIDE DEF r
    <3> QED
      BY <3>1
  <2> HIDE DEF q
  <2> QED
    BY <1>o, <2>1, <2>2
<1>2. ASSUME NEW c \in Calls, InviteTimeout(c) PROVE Goal
  <2>1. call[c].mem = "live"
    BY <1>2, <1>t DEF InviteTimeout, Fits
  <2> QED
    BY <1>2, <1>e, <2>1 DEF InviteTimeout, Closed
<1>3. ASSUME NEW c \in Calls, NEW sent \in BOOLEAN, DialOut(c, sent) PROVE Goal
  <2>1. CASE sent
    <3>1. call[c].mem = "free"
          /\ call' = [call EXCEPT ![c] = Allocated("OUTGOING", "calling", NoNotifier)]
      BY <1>3, <1>t, <2>1 DEF DialOut, Fresh, Live, CallRecord
    <3> QED
      BY <1>t, <3>1, OpenGoes, OneGoes DEF Goal
  <2>2. CASE ~sent
    BY <1>3, <1>t, <2>2, NoneGoes DEF DialOut, Goal
  <2> QED
    BY <2>1, <2>2
<1>4. ASSUME NEW c \in Calls, Trying(c) PROVE Goal
  BY <1>4, <1>t, NoneGoes DEF Trying, Goal
<1>5. ASSUME NEW c \in Calls, NEW code \in {180, 181, 183}, NEW media \in BOOLEAN,
             Progress(c, code, media)
      PROVE  Goal
  <2>1. PICK q : q = Progressed(call[c], code, media)
    OBVIOUS
  <2>2. Goes(call[c], q)
    BY <1>5, <1>t, <2>1, ProgressGoes DEF Progress
  <2>3. call' = [call EXCEPT ![c] = q]
    BY <1>5, <2>1 DEF Progress
  <2>4. Goes(call[c], call'[c]) /\ \A d \in Calls \ {c} : call'[d] = call[d]
    BY <1>t, <2>2, <2>3 DEF TypeOK
  <2> QED
    BY <1>p, <2>4
<1>6. ASSUME NEW c \in Calls, Established(c) PROVE Goal
  <2> DEFINE q == [StreamStart(call[c], TRUE) EXCEPT !.state = "ESTABLISHED", !.sess = "talking",
                                                     !.rtp = TRUE, !.not = NoNotifier]
  <2>1. Goes(call[c], q) /\ call' = [call EXCEPT ![c] = q]
    BY <1>6, <1>t, EstablishGoes DEF Established
  <2> HIDE DEF q
  <2> QED
    BY <1>o, <2>1
<1>7. ASSUME NEW c \in Calls, NEW tone \in {NoTone, ErrorTone}, SessCloses(c, tone) PROVE Goal
  <2>1. call[c].mem = "live"
    BY <1>7, <1>t DEF SessCloses, Fits
  <2> QED
    BY <1>7, <1>e, <2>1 DEF SessCloses, Closed
<1>8. ASSUME NEW c \in Calls, RtpTimeout(c) PROVE Goal
  <2>1. call[c].mem = "live"
    BY <1>8, <1>t DEF RtpTimeout, Fits
  <2> QED
    BY <1>8, <1>e, <2>1 DEF RtpTimeout, Closed
<1>9. CASE Hangup
  <2>1. PICK c : c = callp
    OBVIOUS
  <2>2. c \in Calls /\ call[c].mem = "live"
    BY <1>9, <1>t, <2>1 DEF Hangup, Live, TypeOK
  <2>3. call' = [call EXCEPT ![c] = Destroyed(@)]
    BY <1>9, <2>1 DEF Hangup
  <2> QED
    BY <1>e, <2>2, <2>3 DEF Goal
<1>10. CASE ToneEnds \/ HangupStale \/ UNCHANGED vars
  BY <1>10, <1>t, NoneGoes DEF ToneEnds, HangupStale, vars, Goal
<1>11. ASSUME NEW c \in Calls, ReferFails(c) PROVE Goal
  BY <1>11, <1>n DEF ReferFails
<1>12. ASSUME NEW c \in Calls, NEW d \in Calls, NEW n \in Notifiers, NEW sent \in BOOLEAN,
              Refer(c, n, d, sent)
       PROVE  Goal
  <2>1. CASE ~sent
    BY <1>12, <1>n, <2>1 DEF Refer
  <2>2. CASE sent
    <3>1. call[d].mem = "free" /\ d # c
      BY <1>12, <1>t DEF Refer, Fresh, Live, CallRecord
    <3>2. call' = [call EXCEPT ![c].not = n, ![d] = Allocated("OUTGOING", "calling", n)]
      BY <1>12, <2>2 DEF Refer
    <3>3. ASSUME NEW e \in Calls PROVE Goes(call[e], call'[e])
      <4>1. call \in [Calls -> CallRecord]
        BY <1>t DEF TypeOK
      <4>2. CASE e = c
        <5>1. call'[e] = [call[e] EXCEPT !.not = n]
          BY <3>1, <3>2, <4>1, <4>2
        <5> QED
          BY <1>t, <5>1, StaysItself
      <4>3. CASE e = d
        <5>1. call'[e] = Allocated("OUTGOING", "calling", n)
          BY <3>1, <3>2, <4>1, <4>3
        <5> QED
          BY <1>t, <3>1, <4>3, <5>1, OpenGoes
      <4>4. CASE e # c /\ e # d
        <5>1. call'[e] = call[e]
          BY <3>2, <4>1, <4>4
        <5> QED
          BY <1>t, <5>1, StaysItself
      <4> QED
        BY <4>2, <4>3, <4>4
    <3> QED
      BY <3>3 DEF Goal
  <2> QED
    BY <2>1, <2>2
<1>13. ASSUME NEW n \in Notifiers, NotifierCloses(n) PROVE Goal
  <2>1. CASE call' = call
    BY <1>t, <2>1, NoneGoes DEF Goal
  <2>2. CASE call' # call
    <3>1. PICK c \in Calls : c = notifier[n]
      BY <1>13, <1>t DEF NotifierCloses, TypeOK
    <3>2. call' = [call EXCEPT ![c].not = NoNotifier]
      BY <1>13, <2>2, <3>1 DEF NotifierCloses
    <3> QED
      BY <1>n, <3>2
  <2> QED
    BY <2>1, <2>2
<1> QED
  BY <1>1, <1>2, <1>3, <1>4, <1>5, <1>6, <1>7, <1>8, <1>9, <1>10, <1>11, <1>12, <1>13
  DEF Next, Goal

LEMMA FitsHolds == Spec => [](IInv /\ AllFit)
<1>1. Init => AllFit
  BY DEF Init, AllFit, Fits, Unused
<1>2. IInv /\ AllFit /\ [Next]_vars => AllFit'
  BY StepGoes DEF Goes, AllFit
<1> QED
  BY <1>1, <1>2, InitIInv, NextIInv, PTL DEF Spec

\* A call is there as long as it has a session, no longer and no shorter; the timer of an
\* incoming call never runs on into the established call, which it would end, and RTP is
\* missed only in a call that is established (invite_timeout, stream_error_handler).
THEOREM SourcesFit == Spec => []AllFit
BY FitsHolds, PTL

\* What a call sees of its session is what SessionContract promises: the session is opened
\* with the call, established at most once, and given up only with the call itself; another
\* session never takes its place (call_alloc, call_stream_start, call_destructor).
THEOREM FollowsSession == Spec => [][\A c \in Calls : Follows(call[c], call'[c])]_vars
<1>1. IInv /\ AllFit /\ [Next]_vars => [\A c \in Calls : Follows(call[c], call'[c])]_vars
  BY StepGoes DEF Goes
<1> QED
  BY <1>1, FitsHolds, PTL DEF Spec
=============================================================================
