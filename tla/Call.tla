-------------------------------- MODULE Call --------------------------------
(***************************************************************************)
(* The calls of a user agent: struct call (baresip/src/call.c), the events *)
(* it sends to the user agent that owns it (ua.c), the tone the user agent *)
(* plays, and the one call the phone application remembers (sip_ua.c).     *)
(*                                                                         *)
(* A call lives as long as its one reference; the session, the timer of an *)
(* incoming call, the RTP check and the subscription of a REFER each hold  *)
(* a bare pointer to it and call back through it.  Each of them keeps its  *)
(* own state here, and its action is guarded by that state and not by the  *)
(* life of the call, so a source that outlives its call does fire.         *)
(***************************************************************************)
EXTENDS Naturals, FiniteSets

CONSTANTS
  Calls,        \* blocks for calls; a bound on the calls that exist at a time
  Notifiers,    \* blocks for struct sipnot; a bound on those that exist at a time
  MaxCalls,     \* MAX_CALLS (1)
  AnswerModes   \* the answer modes of the account

ASSUME CallsAssumption == Calls \subseteq Nat \ {0} /\ IsFiniteSet(Calls)
ASSUME NotifiersAssumption == Notifiers \subseteq Nat \ {0}
ASSUME MaxCallsAssumption == MaxCalls \in Nat
ASSUME AnswerModesAssumption == AnswerModes \subseteq {"manual", "auto", "early"}

VARIABLES
  call,      \* struct call of every block
  notifier,  \* struct sipnot: the call its close handler is given, 0 once it is closed
  play,      \* ua->play: the tone, and (ghost) the call whose event started it
  callp,     \* app.callp: the call a command acts on, 0 for none
  misused    \* ghost: the pointers that were followed to a call that is freed

vars == <<call, notifier, play, callp, misused>>

NoCall == 0
NoNotifier == 0
NoTone == [tone |-> "none", of |-> NoCall]
ErrorTone == [tone |-> "error", of |-> NoCall]
RingbackOf(c) == [tone |-> "ringback", of |-> c]

CallRecord ==
  [mem : {"free", "live"},              \* ghost: the block's life in mem.c
   state : {"IDLE", "INCOMING", "OUTGOING", "RINGING", "EARLY", "ESTABLISHED"},
   sess : {"none", "early", "answered", "calling", "talking"},
   tmr : BOOLEAN,                       \* call->tmr_inv runs
   media : BOOLEAN,                     \* the audio stream runs
   rtp : BOOLEAN,                       \* strm->tmr_rtp runs
   not : Notifiers \cup {NoNotifier}]

Unused ==
  [mem |-> "free", state |-> "IDLE", sess |-> "none", tmr |-> FALSE,
   media |-> FALSE, rtp |-> FALSE, not |-> NoNotifier]

Live(c) == call[c].mem = "live"
LiveCalls == {c \in Calls : Live(c)}

\* A block the allocator may hand out.  One that a pointer still names is not
\* used again here, so a stale pointer is always seen to be stale.
Fresh(c) ==
  /\ ~Live(c)
  /\ callp # c
  /\ \A n \in Notifiers : notifier[n] # c
FreshNotifier(n) ==
  /\ notifier[n] = NoCall
  /\ \A c \in Calls : call[c].not # n

(***************************************************************************)
(* The media of a call, its allocation and its end.                        *)
(***************************************************************************)
\* Mutant: early media, too, stops the timer of an incoming call.
StreamStartAlways(r, active) == [r EXCEPT !.media = TRUE, !.tmr = FALSE]

StreamStart(r, active) ==
  [r EXCEPT !.media = TRUE, !.tmr = @ /\ ~active]

StreamStop(r) == [r EXCEPT !.media = FALSE, !.tmr = FALSE]

\* call_alloc: n is the subscription that is inherited from a call being transferred.
Allocated(state, sess, n) ==
  [Unused EXCEPT !.mem = "live", !.state = state, !.sess = sess, !.not = n]

\* Mutant: the destructor relies on the handlers to have stopped the streams.
DestroyedOnly(r) ==
  [r EXCEPT !.mem = "free", !.state = "IDLE", !.sess = "none", !.rtp = FALSE,
            !.not = NoNotifier]

\* call_destructor, run by the deref of the one reference.  The state is reset only
\* because nobody can tell what is left in a block that is freed.
Destroyed(r) ==
  [StreamStop(r) EXCEPT !.mem = "free", !.state = "IDLE", !.sess = "none",
                        !.rtp = FALSE, !.not = NoNotifier]

\* The subscriptions after c has let go of its own: the last holder closes it.
LetGo(c) ==
  [n \in Notifiers |->
     IF call[c].not = n /\ \A d \in LiveCalls \ {c} : call[d].not # n
     THEN NoCall ELSE notifier[n]]

\* call_notify_sipfrag with a final code: the NOTIFY closes the subscription for all
\* its holders.
NotifiedFinal(c) ==
  [n \in Notifiers |-> IF call[c].not = n THEN NoCall ELSE notifier[n]]

\* The CLOSED event: any tone stops, the call's failure may start one, and the
\* user agent lets go of the call.
Closed(c, tone) ==
  /\ call' = [call EXCEPT ![c] = Destroyed(@)]
  /\ play' = tone
  /\ UNCHANGED <<callp, misused>>

(***************************************************************************)
(* Calls in.                                                               *)
(***************************************************************************)
\* sipsess_conn_handler: done says whether the answer, or in early mode the 183, went
\* out.  A call over the limit, and one that call_accept cannot take, leave no trace.
Incoming(c, mode, done) ==
  /\ Fresh(c)
  /\ Cardinality(LiveCalls) + 1 <= MaxCalls
  /\ call' = [call EXCEPT ![c] =
       LET r == [Allocated("INCOMING", "early", NoNotifier) EXCEPT !.tmr = TRUE]
       IN  IF ~done THEN r
           ELSE IF mode = "early" THEN StreamStart(r, FALSE)
           ELSE [r EXCEPT !.sess = "answered"]]
  /\ play' = NoTone
  /\ callp' = IF mode = "manual" THEN c ELSE callp
  /\ UNCHANGED <<notifier, misused>>

InviteTimeout(c) ==
  /\ call[c].tmr
  /\ Closed(c, NoTone)
  /\ notifier' = LetGo(c)

(***************************************************************************)
(* Calls out.                                                              *)
(***************************************************************************)
\* ua_connect for the command `sipua call`: it does not look at MAX_CALLS.
DialOut(c, sent) ==
  /\ Fresh(c)
  /\ play' = NoTone
  /\ IF sent
     THEN /\ call' = [call EXCEPT ![c] = Allocated("OUTGOING", "calling", NoNotifier)]
          /\ callp' = c
     ELSE UNCHANGED <<call, callp>>
  /\ UNCHANGED <<notifier, misused>>

\* Mutant: the tone is started for every 18x, with media or without.
RingAlways(c, media) == RingbackOf(c)

\* The PROGRESS and the RINGING event.
Ring(c, media) == IF media THEN NoTone ELSE RingbackOf(c)

Trying(c) ==
  /\ call[c].sess = "calling"
  /\ play' = NoTone
  /\ UNCHANGED <<call, notifier, callp, misused>>

\* 180 and 183 have a state, the codes between them none.
StateAfter(code, state) ==
  CASE code = 180 -> "RINGING" [] code = 183 -> "EARLY" [] OTHER -> state

\* The media of a call starts anew with each 18x; media: it brought a session description.
Progressed(r, code, media) ==
  LET s == [StreamStop(r) EXCEPT !.state = StateAfter(code, r.state)]
  IN  IF media THEN StreamStart(s, FALSE) ELSE s

\* sipsess_progr_handler
Progress(c, code, media) ==
  /\ call[c].sess = "calling"
  /\ call' = [call EXCEPT ![c] = Progressed(@, code, media)]
  /\ play' = Ring(c, media)
  /\ UNCHANGED <<notifier, callp, misused>>

(***************************************************************************)
(* What both kinds of call have in common.                                 *)
(***************************************************************************)
\* The 2xx of our INVITE, or the ACK of our 2xx.  A call that holds a subscription
\* reports success to it.
Established(c) ==
  /\ call[c].sess \in {"answered", "calling"}
  /\ call' = [call EXCEPT ![c] =
       [StreamStart(@, TRUE) EXCEPT !.state = "ESTABLISHED", !.sess = "talking",
                                    !.rtp = TRUE, !.not = NoNotifier]]
  /\ notifier' = NotifiedFinal(c)
  /\ play' = NoTone
  /\ UNCHANGED <<callp, misused>>

\* sipsess_close_handler: an error, or the final answer that ended the session, which
\* may have a tone.
SessCloses(c, tone) ==
  /\ call[c].sess # "none"
  /\ Closed(c, tone)
  /\ notifier' = NotifiedFinal(c)

\* stream_error_handler: no RTP for too long.
RtpTimeout(c) ==
  /\ call[c].rtp
  /\ \E tone \in {NoTone, ErrorTone} : Closed(c, tone)
  /\ notifier' = LetGo(c)

\* The end of a tone that is played once.
ToneEnds ==
  /\ play = ErrorTone
  /\ play' = NoTone
  /\ UNCHANGED <<call, notifier, callp, misused>>

(***************************************************************************)
(* The command `sipua hangup`.                                             *)
(***************************************************************************)
Hangup ==
  /\ callp # NoCall
  /\ Live(callp)
  /\ call' = [call EXCEPT ![callp] = Destroyed(@)]
  /\ notifier' = LetGo(callp)
  /\ play' = NoTone
  /\ callp' = NoCall
  /\ UNCHANGED misused

\* app.callp was not cleared when its call closed.  What follows is not defined; the
\* model only remembers that it happened.
HangupStale ==
  /\ callp # NoCall
  /\ ~Live(callp)
  /\ misused' = misused \cup {"callp"}
  /\ callp' = NoCall
  /\ UNCHANGED <<call, notifier, play>>

(***************************************************************************)
(* A REFER in a dialog, and the subscription it creates.                   *)
(***************************************************************************)
\* sipsess_refer_handler when sipevent_accept fails: the old subscription is gone.
ReferFails(c) ==
  /\ call[c].sess \in {"early", "answered", "talking"}
  /\ notifier' = LetGo(c)
  /\ call' = [call EXCEPT ![c].not = NoNotifier]
  /\ UNCHANGED <<play, callp, misused>>

\* The TRANSFER event: a call d to the target shares the subscription of c.  When d
\* cannot be made the failure is reported at once, and nothing of the two is left.
Refer(c, n, d, sent) ==
  /\ call[c].sess \in {"early", "answered", "talking"}
  /\ FreshNotifier(n)
  /\ Fresh(d) /\ d # c
  /\ IF sent
     THEN /\ call' = [call EXCEPT ![c].not = n,
                                  ![d] = Allocated("OUTGOING", "calling", n)]
          /\ notifier' = [LetGo(c) EXCEPT ![n] = c]
     ELSE /\ call' = [call EXCEPT ![c].not = NoNotifier]
          /\ notifier' = LetGo(c)
  /\ play' = NoTone
  /\ UNCHANGED <<callp, misused>>

\* The subscription ends by its 60 s timer, or by a NOTIFY that fails: its close
\* handler derefs whatever subscription its call holds by now.
NotifierCloses(n) ==
  LET c == notifier[n]
  IN  /\ c # NoCall
      /\ IF Live(c)
         THEN /\ call' = [call EXCEPT ![c].not = NoNotifier]
              /\ notifier' = [LetGo(c) EXCEPT ![n] = NoCall]
              /\ UNCHANGED misused
         ELSE /\ notifier' = [notifier EXCEPT ![n] = NoCall]
              /\ misused' = misused \cup {"notifier"}
              /\ UNCHANGED call
      /\ UNCHANGED <<play, callp>>

-----------------------------------------------------------------------------
Init ==
  /\ call = [c \in Calls |-> Unused]
  /\ notifier = [n \in Notifiers |-> NoCall]
  /\ play = NoTone
  /\ callp = NoCall
  /\ misused = {}

Next ==
  \/ \E c \in Calls, mode \in AnswerModes, done \in BOOLEAN : Incoming(c, mode, done)
  \/ \E c \in Calls : InviteTimeout(c)
  \/ \E c \in Calls, sent \in BOOLEAN : DialOut(c, sent)
  \/ \E c \in Calls : Trying(c)
  \/ \E c \in Calls, code \in {180, 181, 183}, media \in BOOLEAN : Progress(c, code, media)
  \/ \E c \in Calls : Established(c)
  \/ \E c \in Calls, tone \in {NoTone, ErrorTone} : SessCloses(c, tone)
  \/ \E c \in Calls : RtpTimeout(c)
  \/ ToneEnds
  \/ Hangup
  \/ HangupStale
  \/ \E c \in Calls : ReferFails(c)
  \/ \E c, d \in Calls, n \in Notifiers, sent \in BOOLEAN : Refer(c, n, d, sent)
  \/ \E n \in Notifiers : NotifierCloses(n)

Spec == Init /\ [][Next]_vars

\* The main loop runs the timer of a call in the end (EventLoop's WakesInTime).
FairSpec == Spec /\ \A c \in Calls : WF_vars(InviteTimeout(c))

-----------------------------------------------------------------------------
(***************************************************************************)
(* Properties.                                                             *)
(***************************************************************************)
\* Every variable has its type.
TypeOK ==
  /\ call \in [Calls -> CallRecord]
  /\ notifier \in [Notifiers -> Calls \cup {NoCall}]
  /\ play \in {NoTone, ErrorTone} \cup {RingbackOf(c) : c \in Calls}
  /\ callp \in Calls \cup {NoCall}
  /\ misused \subseteq {"callp", "notifier"}

\* Nothing that would call back into a call runs on after the call is freed, by
\* whichever of its ends (hangup, timer, session, RTP, transfer) it went, and a
\* subscription that can still notify is held by some call.
NothingLeftBehind ==
  /\ \A c \in Calls :
       ~Live(c) => /\ call[c].sess = "none"
                   /\ ~call[c].tmr /\ ~call[c].media /\ ~call[c].rtp
  /\ \A n \in Notifiers :
       notifier[n] # NoCall => \E c \in LiveCalls : call[c].not = n

\* The ringback tone, which repeats until it is stopped, is only heard for a call that
\* is still being set up and whose own audio is off: no way out of the set-up, and no
\* change between 180 and 183, leaves it on.
RingbackOwned ==
  play.tone = "ringback" =>
    LET r == call[play.of]
    IN  r.mem = "live" /\ r.sess = "calling" /\ ~r.media

\* Every incoming call stops to be pending: answered, closed or timed out, whatever the
\* caller and the answer mode do, early media included.
IncomingEnds ==
  \A c \in Calls :
    (Live(c) /\ call[c].state = "INCOMING")
      ~> ~(Live(c) /\ call[c].state = "INCOMING")

\* The call that is hung up is a call: ua_hangup's own description of its argument.
HangupValid == "callp" \notin misused

=============================================================================
