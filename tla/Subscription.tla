---------------------------- MODULE Subscription ----------------------------
(***************************************************************************)
(* The subscription to the state of a contact: struct sipsub               *)
(* (re/src/sipevent/subscribe.c, sipevent_listen.c), which keeps SUBSCRIBE *)
(* requests going, and struct presence (baresip/modules/presence/          *)
(* subscriber.c; dialog_info_subscriber.c is the same), which holds one    *)
(* subscription at a time and starts another some time after one has ended.*)
(*                                                                         *)
(* A subscription that is given up lives on until its pending request is   *)
(* answered, it has unsubscribed, and the NOTIFY that confirms it arrived  *)
(* or did not arrive for 10 s.  The peer may answer anything, and may send *)
(* any NOTIFY at any time, also before its answer.                         *)
(***************************************************************************)
EXTENDS Naturals

CONSTANTS
  Subs,     \* blocks for struct sipsub; a bound on those that exist at a time
  LoopMax   \* failures in a row after which sip_request_loops gives up (16)

ASSUME SubsAssumption == Subs \subseteq Nat \ {0}
ASSUME LoopMaxAssumption == LoopMax \in Nat \ {0}

VARIABLES
  sub,    \* struct sipsub of every block
  pres,   \* struct presence
  shown   \* the contact's state

vars == <<sub, pres, shown>>

\* 401/407 that sip_auth_authenticate takes or does not take, 423, 481, 3xx, others.
Refusals == {"auth", "badauth", "brief", "gone", "redirect", "other"}

Sub ==
  [refs : 0..2,                   \* the block's references; 0: free
   terminated : BOOLEAN, subscribed : BOOLEAN,
   termconf : BOOLEAN, termwait : BOOLEAN,
   expires : BOOLEAN,             \* sub->expires is not 0
   dlg : BOOLEAN,                 \* the dialog is established
   req : BOOLEAN,                 \* sub->req is pending
   half : BOOLEAN,                \* ghost: it was sent before there was a dialog
   loops : 0..LoopMax,            \* sub->ls.failc
   last : Refusals \cup {"none"}, \* sub->ls.last_scode
   tmr : {"none", "refresh", "notify"},
   stranded : BOOLEAN]            \* ghost: its 2xx was ignored

Unused ==
  [refs |-> 0, terminated |-> FALSE, subscribed |-> FALSE, termconf |-> FALSE,
   termwait |-> FALSE, expires |-> FALSE, dlg |-> FALSE, req |-> FALSE, half |-> FALSE,
   loops |-> 0, last |-> "none", tmr |-> "none", stranded |-> FALSE]

NoSub == 0
Live(i) == sub[i].refs > 0

(***************************************************************************)
(* Requests and the end of a subscription.  ok says whether sip_drequestf  *)
(* could send.                                                             *)
(***************************************************************************)
Request(r, ok, reset) ==
  [r EXCEPT !.expires = @ /\ ~r.terminated,
            !.loops = IF reset THEN 0 ELSE @,
            !.last = IF reset THEN "none" ELSE @,
            !.req = ok,
            !.half = ok /\ ~r.dlg,
            !.stranded = @ /\ ~ok]

\* terminate: a reference is kept for what is still to come.
Terminate(r, ok) ==
  LET t == [r EXCEPT !.terminated = TRUE]
      u == [t EXCEPT !.tmr = "none"]
  IN  CASE r.termwait -> [t EXCEPT !.refs = @ + 1]
        [] ~r.termwait /\ r.req -> [u EXCEPT !.refs = @ + 1]
        [] ~r.termwait /\ ~r.req /\ r.expires /\ r.subscribed /\ ok ->
             [Request(u, TRUE, TRUE) EXCEPT !.refs = @ + 1]
        [] OTHER -> u

\* mem_deref: the destructor may take a reference on what it should destroy.
Deref(r, ok) ==
  LET d == [r EXCEPT !.refs = @ - 1]
      t == IF r.terminated THEN d ELSE Terminate(d, ok)
  IN  CASE d.refs > 0 -> d
        [] d.refs = 0 /\ t.refs > 0 -> t
        [] OTHER -> Unused

Becomes(i, r) == sub' = [sub EXCEPT ![i] = r]

\* sipsub_terminate, and the close handler of the user it calls: that one gives its
\* reference back, sets its own timer, and the contact is unknown.
Closes(i, r, ok) ==
  /\ Becomes(i, Deref(Terminate(r, ok), ok))
  /\ pres' = [pres EXCEPT !.sub = NoSub, !.tmr = TRUE]
  /\ shown' = "unknown"

\* The end of response_handler.
Out(i, r, ok) ==
  IF r.terminated
  THEN /\ Becomes(i, IF r.expires /\ r.subscribed /\ ok
                     THEN Request(r, TRUE, TRUE) ELSE Deref(r, ok))
       /\ UNCHANGED <<pres, shown>>
  ELSE IF r.subscribed
  THEN Becomes(i, [r EXCEPT !.tmr = "refresh"]) /\ UNCHANGED <<pres, shown>>
  ELSE Closes(i, r, ok)

(***************************************************************************)
(* The user of the subscription.                                           *)
(***************************************************************************)
\* tmr_handler of the presence module: subscribe, or try again later.
Subscribe(i, ok) ==
  /\ pres.tmr
  /\ ~Live(i)
  /\ IF ok
     THEN /\ Becomes(i, Request([Unused EXCEPT !.refs = 1, !.expires = pres.expires],
                                TRUE, TRUE))
          /\ pres' = [pres EXCEPT !.sub = i, !.tmr = FALSE]
     ELSE UNCHANGED <<sub, pres>>
  /\ UNCHANGED shown

\* The module is unloaded.
Release(ok) ==
  /\ pres.alive
  /\ IF pres.sub = NoSub THEN UNCHANGED sub ELSE Becomes(pres.sub, Deref(sub[pres.sub], ok))
  /\ pres' = [pres EXCEPT !.alive = FALSE, !.sub = NoSub, !.tmr = FALSE]
  /\ UNCHANGED shown

(***************************************************************************)
(* Timers.                                                                 *)
(***************************************************************************)
\* tmr_handler.
\* Mutant: a request that cannot be sent is not tried again.
RefreshOnce(i, ok) ==
  /\ Live(i) /\ sub[i].tmr = "refresh"
  /\ LET r == [sub[i] EXCEPT !.tmr = "none"]
     IN  Becomes(i, IF r.req \/ r.terminated THEN r ELSE Request(r, ok, TRUE))
  /\ UNCHANGED <<pres, shown>>

Refresh(i, ok) ==
  /\ Live(i) /\ sub[i].tmr = "refresh"
  /\ LET r == [sub[i] EXCEPT !.tmr = "none"]
         s == Request(r, ok, TRUE)
     IN  Becomes(i, IF r.req \/ r.terminated THEN r
                    ELSE IF ok THEN s ELSE [s EXCEPT !.tmr = "refresh"])
  /\ UNCHANGED <<pres, shown>>

\* notify_timeout_handler
NotifyTimeout(i, ok) ==
  /\ Live(i) /\ sub[i].tmr = "notify"
  /\ LET r == [sub[i] EXCEPT !.tmr = "none", !.termwait = FALSE]
     IN  IF r.terminated
         THEN Becomes(i, Deref(r, ok)) /\ UNCHANGED <<pres, shown>>
         ELSE Closes(i, r, ok)

(***************************************************************************)
(* Answers to the pending request: response_handler.                       *)
(***************************************************************************)
Answered(r) == [r EXCEPT !.req = FALSE, !.half = FALSE]

Fails(i, ok) ==
  /\ Live(i) /\ sub[i].req
  /\ Out(i, Answered(sub[i]), ok)

\* A 2xx.  Unless the peer already said that it is over, an answer to Expires: 0 is
\* followed by a NOTIFY that says so.
Accepted(i, ok) ==
  /\ Live(i) /\ sub[i].req
  /\ LET r == [Answered(sub[i]) EXCEPT !.loops = 0, !.last = "none", !.dlg = TRUE,
                                       !.subscribed = @ \/ ~sub[i].termconf]
     IN  IF ~r.expires /\ ~r.termconf
         THEN /\ Becomes(i, [r EXCEPT !.tmr = "notify", !.termwait = TRUE])
              /\ UNCHANGED <<pres, shown>>
         ELSE IF r.terminated THEN Out(i, r, ok)
         ELSE Becomes(i, [r EXCEPT !.tmr = "refresh"]) /\ UNCHANGED <<pres, shown>>

\* A 2xx that no dialog can be made from.
AcceptFails(i, ok) ==
  /\ Live(i) /\ sub[i].req /\ ~sub[i].dlg
  /\ Out(i, [Answered(sub[i]) EXCEPT !.loops = 0, !.last = "none", !.subscribed = FALSE], ok)

\* A 2xx of another branch of a forked SUBSCRIBE, after the NOTIFY of one has made the
\* dialog, is ignored.
AcceptedElsewhere(i) ==
  /\ Live(i) /\ sub[i].req /\ sub[i].half /\ sub[i].dlg
  /\ Becomes(i, [Answered(sub[i]) EXCEPT !.loops = 0, !.last = "none",
                                         !.stranded = sub[i].tmr = "none"])
  /\ UNCHANGED <<pres, shown>>

\* sip_request_loops
Looping(r, code) ==
  \/ r.loops + 1 >= LoopMax
  \/ code \notin {"auth", "badauth", "redirect"} /\ code = r.last
Counted(r, code) ==
  [Answered(r) EXCEPT !.last = code, !.loops = IF @ < LoopMax THEN @ + 1 ELSE @]

\* The refusals that are answered by another request.
Retried(r, code) ==
  /\ ~Looping(r, code)
  /\ r.terminated => r.subscribed
  /\ code = "auth" \/ (code = "brief" /\ r.expires)

Retries(i, code, sent, ok) ==
  /\ Live(i) /\ sub[i].req
  /\ Retried(sub[i], code)
  /\ LET again == Request(Counted(sub[i], code), sent, FALSE)
     IN  IF sent THEN Becomes(i, again) /\ UNCHANGED <<pres, shown>> ELSE Out(i, again, ok)

Refused(i, code, ok) ==
  /\ Live(i) /\ sub[i].req
  /\ ~Retried(sub[i], code)
  /\ LET r == sub[i]
         seen == code = "gone" /\ ~Looping(r, code) /\ (r.terminated => r.subscribed)
     IN  Out(i, [Counted(r, code) EXCEPT !.subscribed = @ /\ ~seen], ok)

(***************************************************************************)
(* NOTIFY: notify_handler.  The first one, of whichever branch, makes the  *)
(* dialog.  The user's handler is only there until the subscription is     *)
(* given up; shows: it understands the body.                               *)
(***************************************************************************)
\* Mutant: the handler of the user stays installed.
ShowsAlways(r, shows) == IF shows THEN "known" ELSE shown
Shows(r, shows) == IF shows /\ ~r.terminated THEN "known" ELSE shown

Active(i, expires, shows) ==
  /\ Live(i)
  /\ LET r == sub[i]
     IN  Becomes(i, [r EXCEPT
           !.dlg = TRUE,
           !.subscribed = @ \/ ~r.termconf,
           !.tmr = IF ~r.terminated /\ ~r.termwait /\ expires THEN "refresh" ELSE @,
           !.stranded = @ /\ (r.terminated \/ ~expires)])
  /\ shown' = Shows(sub[i], shows)
  /\ UNCHANGED pres

Over(i, ok) ==
  /\ Live(i)
  /\ LET r == [sub[i] EXCEPT !.dlg = TRUE, !.subscribed = FALSE, !.termconf = TRUE]
     IN  IF ~r.terminated
         THEN Closes(i, [r EXCEPT !.termwait = FALSE], ok)
         ELSE /\ Becomes(i, IF r.termwait
                            THEN Deref([r EXCEPT !.termwait = FALSE, !.tmr = "none"], ok)
                            ELSE r)
              /\ UNCHANGED <<pres, shown>>

-----------------------------------------------------------------------------
Init ==
  /\ sub = [i \in Subs |-> Unused]
  /\ pres \in [alive : {TRUE}, tmr : {TRUE}, sub : {NoSub}, expires : BOOLEAN]
  /\ shown = "unknown"

Answers(i) ==
  \/ \E ok \in BOOLEAN : Fails(i, ok) \/ Accepted(i, ok) \/ AcceptFails(i, ok)
  \/ AcceptedElsewhere(i)
  \/ \E code \in Refusals, ok \in BOOLEAN :
       Refused(i, code, ok) \/ \E sent \in BOOLEAN : Retries(i, code, sent, ok)

Next ==
  \/ \E i \in Subs :
       \/ Answers(i)
       \/ \E ok \in BOOLEAN :
            Subscribe(i, ok) \/ Refresh(i, ok) \/ NotifyTimeout(i, ok) \/ Over(i, ok)
       \/ \E expires, shows \in BOOLEAN : Active(i, expires, shows)
  \/ \E ok \in BOOLEAN : Release(ok)

Spec == Init /\ [][Next]_vars

\* A request is answered or times out, and the main loop runs the timers.
FairSpec ==
  /\ Spec
  /\ \A i \in Subs :
       WF_vars(Answers(i)) /\ WF_vars(\E ok \in BOOLEAN : NotifyTimeout(i, ok))

-----------------------------------------------------------------------------
(***************************************************************************)
(* Properties.                                                             *)
(***************************************************************************)
\* Every variable has its type.
TypeOK ==
  /\ sub \in [Subs -> Sub]
  /\ pres \in [alive : BOOLEAN, tmr : BOOLEAN, sub : Subs \cup {NoSub}, expires : BOOLEAN]
  /\ shown \in {"unknown", "known"}

\* A subscription has one owner, its user or what it still waits for, and it does wait
\* for something: an answer, the last NOTIFY, or the time of its refresh.  So it is
\* neither freed under its user nor kept for nobody, and it does not stop to be
\* refreshed unnoticed (subscribe.c:52-74, 239-251), except by a 2xx of another branch.
Attended ==
  \A i \in Subs : Live(i) =>
    LET r == sub[i]
    IN  /\ r.refs = 1
        /\ r.terminated <=> pres.sub # i
        /\ r.termwait <=> r.tmr = "notify"
        /\ r.terminated => r.tmr # "refresh"
        /\ r.req \/ r.tmr # "none" \/ r.stranded

\* What the contact shows comes from the subscription in use, its end leads to a new one,
\* and what was given up is reclaimed.
Contract ==
  INSTANCE SubscriptionContract WITH
    user <- IF ~pres.alive THEN "gone"
            ELSE IF pres.sub # NoSub /\ ~pres.tmr THEN "open"
            ELSE IF pres.sub = NoSub /\ pres.tmr THEN "waiting" ELSE "lost",
    left <- {i \in Subs : Live(i) /\ sub[i].terminated /\ ~sub[i].stranded}
ImplementsContract == Contract!Spec
=============================================================================
