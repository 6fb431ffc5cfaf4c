------------------------ MODULE Subscription_proofs ------------------------
(***************************************************************************)
(* Proofs about Subscription.  A block is free, owned by the user, or left *)
(* over; the first part says what the operators on records make of each,   *)
(* the second that every action keeps the blocks so, and the third that    *)
(* every step is one SubscriptionContract allows.                          *)
(***************************************************************************)
EXTENDS Subscription, TLAPS

\* What a subscription that exists waits for.
Waits(r) ==
  /\ r.termwait <=> r.tmr = "notify"
  /\ r.req => ~r.termwait
  /\ r.req \/ r.tmr # "none" \/ r.stranded
  /\ r.stranded => ~r.req /\ r.tmr = "none"

Owned(r) == r \in Sub /\ r.refs = 1 /\ ~r.terminated /\ Waits(r)
Left(r) == r \in Sub /\ r.refs = 1 /\ r.terminated /\ r.tmr # "refresh" /\ Waits(r)

Leftover(r) == r = Unused \/ Left(r)

\* What the contract counts, and what the end of the user's ownership leaves.
InLeft(r) == r.refs > 0 /\ r.terminated /\ ~r.stranded
Remains(r) == r = Unused \/ (Left(r) /\ ~r.stranded)

\* One whose request was just answered.
Idle(r) ==
  /\ r \in Sub /\ r.refs = 1 /\ ~r.req /\ ~r.stranded
  /\ ~r.termwait /\ r.tmr # "notify"
  /\ r.terminated => r.tmr = "none"

\* A step the contract allows.
Allowed == [Contract!Next]_(Contract!vars)

Block(r, owned) == IF owned THEN Owned(r) ELSE Leftover(r)

PresOK ==
  /\ pres.tmr => pres.sub = NoSub
  /\ ~pres.alive => pres.sub = NoSub /\ ~pres.tmr
  /\ pres.alive /\ ~pres.tmr => pres.sub # NoSub

IInv ==
  /\ TypeOK
  /\ PresOK
  /\ \A i \in Subs : Block(sub[i], pres.sub = i)

LEMMA UnusedFree == Unused \in Sub /\ Unused.refs = 0
BY LoopMaxAssumption DEF Unused, Sub, Refusals

LEMMA RequestFacts ==
  ASSUME NEW r \in Sub, NEW ok \in BOOLEAN, NEW reset \in BOOLEAN
  PROVE  LET s == Request(r, ok, reset)
         IN  /\ s \in Sub /\ s.req = ok /\ s.refs = r.refs
             /\ s.terminated = r.terminated /\ s.termwait = r.termwait /\ s.tmr = r.tmr
             /\ s.subscribed = r.subscribed /\ (~r.stranded => ~s.stranded)
             /\ (ok => ~s.stranded)
<1> DEFINE e == r.expires /\ ~r.terminated
           l == IF reset THEN 0 ELSE r.loops
           k == IF reset THEN "none" ELSE r.last
           h == ok /\ ~r.dlg
           g == r.stranded /\ ~ok
<1>1. Request(r, ok, reset) =
        [r EXCEPT !.expires = e, !.loops = l, !.last = k, !.req = ok, !.half = h,
                  !.stranded = g]
  BY DEF Request
<1>2. /\ e \in BOOLEAN /\ h \in BOOLEAN /\ g \in BOOLEAN
      /\ l \in 0..LoopMax /\ k \in Refusals \cup {"none"}
  BY LoopMaxAssumption DEF Sub
<1>3. g => r.stranded /\ ~ok  OBVIOUS
<1> HIDE DEF e, l, k, h, g
<1> DEFINE s == [r EXCEPT !.expires = e, !.loops = l, !.last = k, !.req = ok, !.half = h,
                          !.stranded = g]
<1>4. s \in Sub  BY <1>2 DEF Sub
<1>5. /\ s.req = ok /\ s.refs = r.refs
      /\ s.terminated = r.terminated /\ s.termwait = r.termwait /\ s.tmr = r.tmr
      /\ s.subscribed = r.subscribed /\ s.stranded = g
  BY DEF Sub
<1> HIDE DEF s
<1>6. Request(r, ok, reset) = s  BY <1>1 DEF s
<1> QED  BY <1>3, <1>4, <1>5, <1>6

PutRefs(r, n) == [r EXCEPT !.refs = n]

\* Everything but the count.
Same(t, r) ==
  /\ t.terminated = r.terminated /\ t.subscribed = r.subscribed
  /\ t.termconf = r.termconf /\ t.termwait = r.termwait /\ t.expires = r.expires
  /\ t.req = r.req /\ t.tmr = r.tmr /\ t.stranded = r.stranded

LEMMA RefsFacts ==
  ASSUME NEW r \in Sub, NEW n \in 0..2
  PROVE  PutRefs(r, n) \in Sub /\ PutRefs(r, n).refs = n /\ Same(PutRefs(r, n), r)
BY DEF PutRefs, Sub, Same

LEMMA TerminateFacts ==
  ASSUME NEW r \in Sub, NEW ok \in BOOLEAN, r.refs < 2,
         ~r.terminated, r.termwait => r.tmr = "notify", r.req => ~r.termwait,
         r.stranded => ~r.req /\ ~r.termwait
  PROVE  LET t == Terminate(r, ok)
         IN  /\ t \in Sub /\ t.terminated
             /\ \/ t.refs = r.refs
                \/ t.refs = r.refs + 1 /\ t.tmr # "refresh" /\ Waits(t) /\ ~t.stranded
<1> DEFINE t == [r EXCEPT !.terminated = TRUE]
           u == [r EXCEPT !.terminated = TRUE, !.tmr = "none"]
<1>1. t \in Sub /\ t.refs = r.refs /\ t.terminated /\ t.tmr = r.tmr
      /\ t.termwait = r.termwait /\ t.req = r.req /\ t.stranded = r.stranded
  BY DEF Sub
<1>2. u \in Sub /\ u.refs = r.refs /\ u.tmr = "none" /\ u.terminated
      /\ u.termwait = r.termwait /\ u.req = r.req /\ u.stranded = r.stranded
  BY DEF Sub
<1>3. r.refs \in 0..1  BY DEF Sub
<1>4. CASE r.termwait
  <2> DEFINE z == PutRefs(t, t.refs + 1)
  <2>1. Terminate(r, ok) = z  BY <1>4 DEF Terminate, PutRefs
  <2> HIDE DEF t
  <2>2. z \in Sub /\ z.refs = r.refs + 1 /\ Same(z, t)  BY <1>1, <1>3, RefsFacts
  <2> HIDE DEF z
  <2> QED  BY <1>1, <1>4, <2>1, <2>2 DEF Same, Waits
<1>5. CASE ~r.termwait /\ r.req
  <2> DEFINE z == PutRefs(u, u.refs + 1)
  <2>1. Terminate(r, ok) = z  BY <1>5 DEF Terminate, PutRefs
  <2> HIDE DEF u
  <2>2. z \in Sub /\ z.refs = r.refs + 1 /\ Same(z, u)  BY <1>2, <1>3, RefsFacts
  <2> HIDE DEF z
  <2> QED  BY <1>2, <1>5, <2>1, <2>2 DEF Same, Waits
<1>6. CASE ~r.termwait /\ ~r.req /\ r.expires /\ r.subscribed /\ ok
  <2> DEFINE q == Request(u, TRUE, TRUE)
             z == PutRefs(q, q.refs + 1)
  <2>1. Terminate(r, ok) = z  BY <1>6 DEF Terminate, PutRefs
  <2> HIDE DEF u
  <2>2. /\ q \in Sub /\ q.req /\ q.refs = u.refs
        /\ q.terminated = u.terminated /\ q.termwait = u.termwait /\ q.tmr = u.tmr
        /\ ~q.stranded
    BY <1>2, RequestFacts
  <2> HIDE DEF q
  <2>3. z \in Sub /\ z.refs = r.refs + 1 /\ Same(z, q)  BY <1>2, <1>3, <2>2, RefsFacts
  <2> HIDE DEF z
  <2> QED  BY <1>2, <1>6, <2>1, <2>2, <2>3 DEF Same, Waits
<1>7. CASE ~r.termwait /\ ~r.req /\ ~(r.expires /\ r.subscribed /\ ok)
  <2>1. Terminate(r, ok) = u  BY <1>7 DEF Terminate
  <2> HIDE DEF u
  <2> QED  BY <1>2, <2>1
<1> QED  BY <1>4, <1>5, <1>6, <1>7

\* The user's reference goes, by its own will or in the close handler: the block is
\* left over, or free.
LEMMA DerefFacts ==
  ASSUME NEW r \in Sub, NEW ok \in BOOLEAN, r.refs = 1,
         \/ r.terminated
         \/ /\ (r.termwait => r.tmr = "notify") /\ (r.req => ~r.termwait)
            /\ (r.stranded => ~r.req /\ ~r.termwait)
  PROVE  LET t == Deref(r, ok)
         IN  t = Unused \/ (~r.terminated /\ Left(t) /\ ~t.stranded)
<1> DEFINE d == PutRefs(r, r.refs - 1)
           t == Terminate(d, ok)
<1>1. d \in Sub /\ d.refs = 0 /\ Same(d, r)  BY RefsFacts
<1>2. CASE r.terminated
  <2> HIDE DEF d
  <2>1. d.terminated  BY <1>1, <1>2 DEF Same
  <2> USE DEF d
  <2>2. Deref(r, ok) = Unused
    BY <1>1, <1>2 DEF Deref, PutRefs
  <2> QED  BY <2>2
<1>3. CASE ~r.terminated
  <2>1. Deref(r, ok) = IF t.refs > 0 THEN t ELSE Unused
    BY <1>1, <1>3 DEF Deref, PutRefs
  <2> HIDE DEF d
  <2>2. /\ t \in Sub /\ t.terminated
        /\ \/ t.refs = d.refs
           \/ t.refs = d.refs + 1 /\ t.tmr # "refresh" /\ Waits(t) /\ ~t.stranded
    BY <1>1, <1>3, TerminateFacts DEF Same
  <2> HIDE DEF t
  <2> QED  BY <1>1, <1>3, <2>1, <2>2 DEF Left
<1> QED  BY <1>2, <1>3

\* sipsub_terminate and the close handler.
LEMMA CloseFacts ==
  ASSUME NEW r \in Sub, NEW ok \in BOOLEAN, r.refs = 1, ~r.terminated,
         r.termwait => r.tmr = "notify", r.req => ~r.termwait,
         r.stranded => ~r.req /\ ~r.termwait
  PROVE  Remains(Deref(Terminate(r, ok), ok))
<1> DEFINE t == Terminate(r, ok)
           d == PutRefs(t, t.refs - 1)
<1>1. /\ t \in Sub /\ t.terminated
      /\ \/ t.refs = 1
         \/ t.refs = 2 /\ t.tmr # "refresh" /\ Waits(t) /\ ~t.stranded
  BY TerminateFacts
<1> HIDE DEF t
<1>2. CASE t.refs = 1
  <2>1. Deref(t, ok) = Unused  BY <1>1, <1>2, DerefFacts
  <2> QED  BY <2>1 DEF t, Remains
<1>3. CASE t.refs = 2
  <2>1. d \in Sub /\ d.refs = 1 /\ Same(d, t)  BY <1>1, <1>3, RefsFacts
  <2>2. Deref(t, ok) = d  BY <2>1 DEF Deref, PutRefs
  <2> HIDE DEF d
  <2>3. Left(d) /\ ~d.stranded  BY <1>1, <1>3, <2>1 DEF Left, Same, Waits
  <2> QED  BY <2>2, <2>3 DEF t, Remains
<1> QED  BY <1>1, <1>2, <1>3

LEMMA BlockIn == ASSUME NEW r, NEW owned \in BOOLEAN, Block(r, owned) PROVE r \in Sub
BY UnusedFree DEF Block, Owned, Leftover, Left

\* What the contract sees: where the user is, and what is left.
Where ==
  IF ~pres.alive THEN "gone"
  ELSE IF pres.sub # NoSub /\ ~pres.tmr THEN "open"
  ELSE IF pres.sub = NoSub /\ pres.tmr THEN "waiting" ELSE "lost"
Pending == {i \in Subs : Live(i) /\ sub[i].terminated /\ ~sub[i].stranded}

LEMMA Allows ==
  ASSUME \/ Where' = Where /\ shown' = shown /\ Pending' = Pending
         \/ Where = "waiting" /\ Where' = "open" /\ shown' = shown /\ Pending' = Pending
         \/ Where = "open" /\ Where' = Where /\ shown' = "known" /\ Pending' = Pending
         \/ /\ Where' = Where /\ shown' = shown
            /\ \E i \in Pending : Pending' = Pending \ {i}
         \/ /\ Where = "open" /\ Where' = "waiting" /\ shown' = "unknown"
            /\ Pending' = Pending \/ \E i \in Subs \ Pending : Pending' = Pending \cup {i}
         \/ /\ Where # "gone" /\ Where' = "gone" /\ shown' = shown
            /\ Pending' = Pending \/ \E i \in Subs \ Pending : Pending' = Pending \cup {i}
  PROVE  Allowed
BY DEF Allowed, Where, Pending, Contract!vars, Contract!Next, Contract!Open, Contract!Show,
       Contract!GivesUp, Contract!Close, Contract!Release, Contract!Reclaim

LEMMA View ==
  ASSUME IInv, NEW i \in Subs
  PROVE  /\ i \in Pending <=> InLeft(sub[i])
         /\ pres.sub = i => ~InLeft(sub[i]) /\ Where = "open"
BY SubsAssumption DEF IInv, PresOK, Block, Owned, InLeft, Pending, Live, Where, NoSub

\* What is left changes with the block that changes.
LEMMA PendingChange ==
  ASSUME NEW i \in Subs, \A j \in Subs : j # i => sub'[j] = sub[j]
  PROVE  /\ (InLeft(sub[i]) <=> InLeft(sub'[i])) => Pending' = Pending
         /\ InLeft(sub[i]) /\ ~InLeft(sub'[i]) =>
              i \in Pending /\ Pending' = Pending \ {i}
         /\ ~InLeft(sub[i]) /\ InLeft(sub'[i]) =>
              i \in Subs \ Pending /\ Pending' = Pending \cup {i}
BY DEF Pending, Live, InLeft

\* One block changes, its owner does not.
LEMMA Change ==
  ASSUME IInv, NEW i \in Subs, NEW r, Block(r, pres.sub = i), Becomes(i, r), pres' = pres,
         pres.sub = i \/ InLeft(sub[i]) \/ ~InLeft(r),
         shown' = shown \/ (pres.sub = i /\ shown' = "known")
  PROVE  IInv' /\ Allowed
<1>1. r \in Sub  BY BlockIn
<1>2. sub' \in [Subs -> Sub]  BY <1>1 DEF IInv, TypeOK, Becomes
<1>3. ASSUME NEW j \in Subs PROVE Block(sub'[j], pres'.sub = j)
  BY DEF IInv, TypeOK, Becomes
<1>4. shown' \in {"unknown", "known"}  BY DEF IInv, TypeOK
<1>5. IInv'  BY <1>2, <1>3, <1>4 DEF IInv, TypeOK, PresOK
<1>6. sub'[i] = r /\ \A j \in Subs : j # i => sub'[j] = sub[j]
  BY DEF IInv, TypeOK, Becomes
<1>7. Where' = Where  BY DEF Where
<1>8. pres.sub = i => ~InLeft(sub[i]) /\ ~InLeft(r) /\ Where = "open"
  BY <1>6, View DEF Block, Owned, InLeft
<1>9. CASE pres.sub = i
  <2>1. Pending' = Pending  BY <1>6, <1>8, <1>9, PendingChange
  <2> QED  BY <1>5, <1>7, <1>8, <1>9, <2>1, Allows
<1>10. CASE pres.sub # i
  <2>1. Pending' = Pending \/ \E j \in Pending : Pending' = Pending \ {j}
    BY <1>6, <1>10, PendingChange
  <2> QED  BY <1>5, <1>7, <1>10, <2>1, Allows
<1> QED  BY <1>9, <1>10

\* Nothing changes that the contract or the invariant speaks of.
LEMMA Rests == ASSUME IInv, UNCHANGED vars PROVE IInv' /\ Allowed
<1>1. IInv'  BY DEF vars, IInv, TypeOK, PresOK
<1>2. Where' = Where /\ shown' = shown /\ Pending' = Pending
  BY DEF vars, Where, Pending, Live
<1> QED  BY <1>1, <1>2, Allows

\* The user's own block ends, by its close handler or its own will.
LEMMA Parting ==
  ASSUME IInv, NEW r, pres.sub # NoSub, Remains(r), Becomes(pres.sub, r),
         \/ /\ pres' = [pres EXCEPT !.sub = NoSub, !.tmr = TRUE]
            /\ shown' = "unknown"
         \/ /\ pres' = [pres EXCEPT !.alive = FALSE, !.sub = NoSub, !.tmr = FALSE]
            /\ shown' = shown
  PROVE  IInv' /\ Allowed
<1>1. r \in Sub /\ Leftover(r)  BY UnusedFree DEF Remains, Leftover, Left
<1>2. pres.sub \in Subs /\ pres.alive /\ ~pres.tmr  BY DEF IInv, TypeOK, PresOK
<1>3. sub' \in [Subs -> Sub]  BY <1>1 DEF IInv, TypeOK, Becomes
<1>4. /\ pres' \in [alive : BOOLEAN, tmr : BOOLEAN, sub : Subs \cup {NoSub}, expires : BOOLEAN]
      /\ pres'.sub = NoSub /\ pres'.tmr = pres'.alive
  BY <1>2 DEF IInv, TypeOK
<1>5. ASSUME NEW j \in Subs PROVE Leftover(sub'[j])
  BY <1>1, <1>2 DEF IInv, TypeOK, Becomes, Block
<1>6. NoSub \notin Subs  BY SubsAssumption DEF NoSub
<1>7. shown' \in {"unknown", "known"}  BY DEF IInv, TypeOK
<1>8. IInv'  BY <1>3, <1>4, <1>5, <1>6, <1>7 DEF IInv, TypeOK, PresOK, Block
<1> DEFINE i == pres.sub
<1>9. ~InLeft(sub[i]) /\ Where = "open"  BY <1>2, View
<1>10. \A j \in Subs : j # i => sub'[j] = sub[j]  BY DEF IInv, TypeOK, Becomes
<1>11. Pending' = Pending \/ \E j \in Subs \ Pending : Pending' = Pending \cup {j}
  BY <1>2, <1>9, <1>10, PendingChange
<1>12. CASE pres' = [pres EXCEPT !.sub = NoSub, !.tmr = TRUE] /\ shown' = "unknown"
  <2>1. pres'.alive /\ pres'.sub = NoSub /\ pres'.tmr  BY <1>2, <1>12 DEF IInv, TypeOK
  <2>2. Where' = "waiting"  BY <2>1 DEF Where
  <2> QED  BY <1>8, <1>9, <1>11, <1>12, <2>2, Allows
<1>13. CASE /\ pres' = [pres EXCEPT !.alive = FALSE, !.sub = NoSub, !.tmr = FALSE]
            /\ shown' = shown
  <2>1. ~pres'.alive  BY <1>2, <1>13 DEF IInv, TypeOK
  <2>2. Where' = "gone"  BY <2>1 DEF Where
  <2> QED  BY <1>8, <1>9, <1>11, <1>13, <2>2, Allows
<1> QED  BY <1>12, <1>13

LEMMA ClosesIInv ==
  ASSUME IInv, NEW i \in Subs, pres.sub = i, NEW r \in Sub, NEW ok \in BOOLEAN,
         r.refs = 1, ~r.terminated, r.termwait => r.tmr = "notify", r.req => ~r.termwait,
         r.stranded => ~r.req /\ ~r.termwait, Closes(i, r, ok)
  PROVE  IInv' /\ Allowed
<1> DEFINE t == Deref(Terminate(r, ok), ok)
<1>1. Remains(t)  BY CloseFacts
<1>2. Becomes(i, t)  BY DEF Closes
<1>3. pres.sub # NoSub  BY SubsAssumption DEF NoSub
<1> HIDE DEF t
<1> QED  BY <1>1, <1>2, <1>3, Parting DEF Closes

LEMMA OutIInv ==
  ASSUME IInv, NEW i \in Subs, NEW r, Idle(r), r.terminated <=> pres.sub # i,
         pres.sub = i \/ InLeft(sub[i]), NEW ok \in BOOLEAN, Out(i, r, ok)
  PROVE  IInv' /\ Allowed
<1>1. CASE r.terminated /\ r.expires /\ r.subscribed /\ ok
  <2> DEFINE t == Request(r, TRUE, TRUE)
  <2>1. t \in Sub /\ t.req /\ t.refs = r.refs /\ t.terminated = r.terminated
        /\ t.termwait = r.termwait /\ t.tmr = r.tmr /\ ~t.stranded
    BY RequestFacts DEF Idle
  <2>2. Becomes(i, t) /\ UNCHANGED <<pres, shown>>  BY <1>1 DEF Out
  <2> HIDE DEF t
  <2>3. Block(t, pres.sub = i)
    BY <1>1, <2>1 DEF Idle, Block, Leftover, Left, Waits
  <2> QED  BY <2>2, <2>3, Change DEF IInv, TypeOK
<1>2. CASE r.terminated /\ ~(r.expires /\ r.subscribed /\ ok)
  <2>1. Deref(r, ok) = Unused  BY <1>2, DerefFacts DEF Idle
  <2>2. Becomes(i, Unused) /\ UNCHANGED <<pres, shown>>  BY <1>2, <2>1 DEF Out
  <2>3. Block(Unused, pres.sub = i)  BY <1>2 DEF Block, Leftover
  <2> QED  BY <2>2, <2>3, Change DEF IInv, TypeOK
<1>3. CASE ~r.terminated /\ r.subscribed
  <2> DEFINE t == [r EXCEPT !.tmr = "refresh"]
  <2>1. Becomes(i, t) /\ UNCHANGED <<pres, shown>>  BY <1>3 DEF Out
  <2>2. Owned(t)  BY <1>3 DEF Idle, Owned, Waits, Sub
  <2> HIDE DEF t
  <2>3. Block(t, pres.sub = i)  BY <1>3, <2>2 DEF Block
  <2> QED  BY <2>1, <2>3, Change DEF IInv, TypeOK
<1>4. CASE ~r.terminated /\ ~r.subscribed
  <2>1. Closes(i, r, ok)  BY <1>4 DEF Out
  <2> QED  BY <1>4, <2>1, ClosesIInv DEF Idle
<1> QED  BY <1>1, <1>2, <1>3, <1>4

(***************************************************************************)
(* The actions.                                                            *)
(***************************************************************************)
LEMMA LiveFacts ==
  ASSUME IInv, NEW i \in Subs, Live(i)
  PROVE  /\ sub[i] \in Sub /\ sub[i].refs = 1 /\ Waits(sub[i])
         /\ sub[i].terminated <=> pres.sub # i
         /\ sub[i].terminated => sub[i].tmr # "refresh"
         /\ pres.sub = i \/ InLeft(sub[i]) \/ sub[i].stranded
         /\ sub[i].req \/ sub[i].tmr # "none" => ~sub[i].stranded
BY UnusedFree DEF IInv, Live, Block, Owned, Leftover, Left, InLeft, Waits

LEMMA AnsweredFacts ==
  ASSUME IInv, NEW i \in Subs, Live(i), sub[i].req
  PROVE  /\ Idle(Answered(sub[i]))
         /\ Answered(sub[i]).terminated = sub[i].terminated
         /\ Answered(sub[i]).expires = sub[i].expires
         /\ Answered(sub[i]).tmr = sub[i].tmr
<1> DEFINE r == sub[i]
           a == [r EXCEPT !.req = FALSE, !.half = FALSE]
<1>1. Answered(sub[i]) = a  BY DEF Answered
<1>2. /\ r \in Sub /\ r.refs = 1 /\ ~r.termwait /\ r.tmr # "notify" /\ ~r.stranded
      /\ r.terminated => r.tmr # "refresh"
  BY LiveFacts DEF Waits
<1> HIDE DEF r
<1>3. Idle(a) /\ a.terminated = r.terminated /\ a.expires = r.expires /\ a.tmr = r.tmr
  BY <1>2 DEF Idle, Sub
<1> QED  BY <1>1, <1>3 DEF r

\* What an answer changes beside, before it is acted on.
Noted(r, d, s, l, k) ==
  [r EXCEPT !.dlg = d, !.subscribed = s, !.loops = l, !.last = k]

LEMMA NotedFacts ==
  ASSUME NEW r, Idle(r), NEW d \in BOOLEAN, NEW s \in BOOLEAN, NEW l \in 0..LoopMax,
         NEW k \in Refusals \cup {"none"}
  PROVE  /\ Idle(Noted(r, d, s, l, k))
         /\ Noted(r, d, s, l, k).terminated = r.terminated
         /\ Noted(r, d, s, l, k).expires = r.expires
         /\ Noted(r, d, s, l, k).tmr = r.tmr
BY DEF Noted, Idle, Sub

LEMMA ZeroLoops == 0 \in 0..LoopMax
BY LoopMaxAssumption

LEMMA FailsIInv ==
  ASSUME IInv, NEW i \in Subs, NEW ok \in BOOLEAN, Fails(i, ok)  PROVE IInv' /\ Allowed
BY LiveFacts, AnsweredFacts, OutIInv DEF Fails

LEMMA AcceptedIInv ==
  ASSUME IInv, NEW i \in Subs, NEW ok \in BOOLEAN, Accepted(i, ok)  PROVE IInv' /\ Allowed
<1> DEFINE a == Answered(sub[i])
           b == a.subscribed \/ ~sub[i].termconf
           r == [a EXCEPT !.loops = 0, !.last = "none", !.dlg = TRUE, !.subscribed = b]
           w == [r EXCEPT !.tmr = "notify", !.termwait = TRUE]
           f == [r EXCEPT !.tmr = "refresh"]
<1>1. Live(i) /\ sub[i].req  BY DEF Accepted
<1>2. Idle(a) /\ a.terminated = sub[i].terminated  BY <1>1, AnsweredFacts
<1>3. IF ~r.expires /\ ~r.termconf
      THEN Becomes(i, w) /\ UNCHANGED <<pres, shown>>
      ELSE IF r.terminated THEN Out(i, r, ok)
      ELSE Becomes(i, f) /\ UNCHANGED <<pres, shown>>
  BY DEF Accepted
<1>4. Idle(r) /\ r.terminated = a.terminated
  <2>1. b \in BOOLEAN  OBVIOUS
  <2> HIDE DEF a, b
  <2>2. r = Noted(a, TRUE, b, 0, "none")  BY <1>2 DEF Noted, Idle, Sub
  <2> HIDE DEF r
  <2>3. PICK yes : yes = TRUE  OBVIOUS
  <2>4. PICK none : none = "none"  OBVIOUS
  <2>5. none \in Refusals \cup {"none"} /\ yes \in BOOLEAN  BY <2>3, <2>4
  <2>6. Idle(Noted(a, yes, b, 0, none)) /\ Noted(a, yes, b, 0, none).terminated = a.terminated
    BY <1>2, <2>1, <2>5, ZeroLoops, NotedFacts
  <2>7. r = Noted(a, yes, b, 0, none)  BY <2>2, <2>3, <2>4
  <2> QED  BY <2>6, <2>7
<1> HIDE DEF a, b, r
<1>5. /\ r.terminated <=> pres.sub # i
      /\ pres.sub = i \/ InLeft(sub[i])
  BY <1>1, <1>2, <1>4, LiveFacts
<1>6. CASE Becomes(i, w) /\ UNCHANGED <<pres, shown>>
  <2>1. /\ w \in Sub /\ w.refs = 1 /\ ~w.req /\ w.termwait /\ w.tmr = "notify"
        /\ w.terminated = r.terminated /\ ~w.stranded
    BY <1>4 DEF Idle, Sub
  <2> HIDE DEF w
  <2>2. Block(w, pres.sub = i)
    BY <1>5, <2>1 DEF Block, Owned, Leftover, Left, Waits
  <2> QED  BY <1>5, <1>6, <2>2, Change
<1>7. CASE r.terminated /\ Out(i, r, ok)
  BY <1>4, <1>5, <1>7, OutIInv
<1>8. CASE ~r.terminated /\ Becomes(i, f) /\ UNCHANGED <<pres, shown>>
  <2>1. Owned(f)  BY <1>4, <1>8 DEF Idle, Owned, Waits, Sub
  <2> HIDE DEF f
  <2>2. Block(f, pres.sub = i)  BY <1>5, <1>8, <2>1 DEF Block
  <2> QED  BY <1>5, <1>8, <2>2, Change
<1> QED  BY <1>3, <1>6, <1>7, <1>8

LEMMA AcceptFailsIInv ==
  ASSUME IInv, NEW i \in Subs, NEW ok \in BOOLEAN, AcceptFails(i, ok)  PROVE IInv' /\ Allowed
<1> DEFINE a == Answered(sub[i])
           r == [a EXCEPT !.loops = 0, !.last = "none", !.subscribed = FALSE]
<1>1. Live(i) /\ sub[i].req /\ Out(i, r, ok)  BY DEF AcceptFails
<1>2. Idle(a) /\ a.terminated = sub[i].terminated  BY <1>1, AnsweredFacts
<1>3. Idle(r) /\ r.terminated = a.terminated
  <2> HIDE DEF a
  <2> QED  BY <1>2, ZeroLoops DEF Idle, Sub
<1> HIDE DEF r
<1> QED  BY <1>1, <1>2, <1>3, LiveFacts, OutIInv

LEMMA AcceptedElsewhereIInv ==
  ASSUME IInv, NEW i \in Subs, AcceptedElsewhere(i)  PROVE IInv' /\ Allowed
<1> DEFINE a == Answered(sub[i])
           g == sub[i].tmr = "none"
           r == [a EXCEPT !.loops = 0, !.last = "none", !.stranded = g]
<1>1. Live(i) /\ sub[i].req /\ Becomes(i, r) /\ UNCHANGED <<pres, shown>>
  BY DEF AcceptedElsewhere
<1>2. Idle(a) /\ a.terminated = sub[i].terminated /\ a.tmr = sub[i].tmr
  BY <1>1, AnsweredFacts
<1>3. g \in BOOLEAN  OBVIOUS
<1>4. /\ r \in Sub /\ r.refs = 1 /\ ~r.req /\ ~r.termwait /\ r.tmr = a.tmr /\ r.tmr # "notify"
      /\ r.terminated = a.terminated /\ (r.terminated => r.tmr = "none") /\ r.stranded = g
  <2> HIDE DEF a, g
  <2> QED  BY <1>2, <1>3, ZeroLoops DEF Idle, Sub
<1> HIDE DEF r, a
<1>5. Block(r, pres.sub = i)
  BY <1>1, <1>2, <1>4, LiveFacts DEF Block, Owned, Leftover, Left, Waits
<1> QED  BY <1>1, <1>5, LiveFacts, Change

LEMMA CountedFacts ==
  ASSUME IInv, NEW i \in Subs, Live(i), sub[i].req, NEW code \in Refusals
  PROVE  /\ Idle(Counted(sub[i], code))
         /\ Counted(sub[i], code).terminated = sub[i].terminated
<1> DEFINE a == Answered(sub[i])
           l == IF a.loops < LoopMax THEN a.loops + 1 ELSE a.loops
           r == [a EXCEPT !.last = code, !.loops = l]
<1>1. Idle(a) /\ a.terminated = sub[i].terminated  BY AnsweredFacts
<1>2. Counted(sub[i], code) = r  BY DEF Counted
<1>3. l \in 0..LoopMax
  <2> HIDE DEF a
  <2> QED  BY <1>1, LoopMaxAssumption DEF Idle, Sub
<1> HIDE DEF a, l
<1>4. Idle(r) /\ r.terminated = a.terminated  BY <1>1, <1>3 DEF Idle, Sub
<1> QED  BY <1>1, <1>2, <1>4

LEMMA RetriesIInv ==
  ASSUME IInv, NEW i \in Subs, NEW code \in Refusals, NEW sent \in BOOLEAN,
         NEW ok \in BOOLEAN, Retries(i, code, sent, ok)
  PROVE  IInv' /\ Allowed
<1> DEFINE c == Counted(sub[i], code)
           t == Request(c, sent, FALSE)
<1>1. Live(i) /\ sub[i].req  BY DEF Retries
<1>2. IF sent THEN Becomes(i, t) /\ UNCHANGED <<pres, shown>> ELSE Out(i, t, ok)
  BY DEF Retries
<1>3. Idle(c) /\ c.terminated = sub[i].terminated  BY <1>1, CountedFacts
<1> HIDE DEF c
<1>4. /\ t \in Sub /\ t.req = sent /\ t.refs = c.refs /\ t.terminated = c.terminated
      /\ t.termwait = c.termwait /\ t.tmr = c.tmr /\ ~t.stranded
  BY <1>3, RequestFacts DEF Idle
<1> HIDE DEF t
<1>5. CASE sent
  <2>1. Block(t, pres.sub = i)
    BY <1>1, <1>3, <1>4, <1>5, LiveFacts DEF Idle, Block, Owned, Leftover, Left, Waits
  <2> QED  BY <1>1, <1>2, <1>5, <2>1, LiveFacts, Change
<1>6. CASE ~sent
  <2>1. Idle(t)  BY <1>3, <1>4, <1>6 DEF Idle
  <2> QED  BY <1>1, <1>2, <1>3, <1>4, <1>6, <2>1, LiveFacts, OutIInv
<1> QED  BY <1>5, <1>6

LEMMA RefusedIInv ==
  ASSUME IInv, NEW i \in Subs, NEW code \in Refusals, NEW ok \in BOOLEAN,
         Refused(i, code, ok)
  PROVE  IInv' /\ Allowed
<1> DEFINE c == Counted(sub[i], code)
           seen == code = "gone" /\ ~Looping(sub[i], code)
                   /\ (sub[i].terminated => sub[i].subscribed)
           b == c.subscribed /\ ~seen
           r == [c EXCEPT !.subscribed = b]
<1>1. Live(i) /\ sub[i].req /\ Out(i, r, ok)  BY DEF Refused
<1>2. Idle(c) /\ c.terminated = sub[i].terminated  BY <1>1, CountedFacts
<1>3. b \in BOOLEAN  OBVIOUS
<1>4. Idle(r) /\ r.terminated = c.terminated
  <2> HIDE DEF c, b
  <2> QED  BY <1>2, <1>3 DEF Idle, Sub
<1> HIDE DEF r
<1> QED  BY <1>1, <1>2, <1>4, LiveFacts, OutIInv

LEMMA SubscribeIInv ==
  ASSUME IInv, NEW i \in Subs, NEW ok \in BOOLEAN, Subscribe(i, ok)  PROVE IInv' /\ Allowed
<1>1. CASE ~ok
  BY <1>1, Rests DEF Subscribe, vars
<1>2. CASE ok
  <2> DEFINE n == [Unused EXCEPT !.refs = 1, !.expires = pres.expires]
             t == Request(n, TRUE, TRUE)
  <2>1. /\ pres.tmr /\ Becomes(i, t) /\ pres' = [pres EXCEPT !.sub = i, !.tmr = FALSE]
        /\ UNCHANGED shown
    BY <1>2 DEF Subscribe
  <2>2. /\ n \in Sub /\ n.refs = 1 /\ ~n.terminated /\ ~n.termwait /\ n.tmr = "none"
        /\ ~n.stranded
    <3> DEFINE e == pres.expires
    <3>1. e \in BOOLEAN  BY DEF IInv, TypeOK
    <3>2. /\ Unused \in Sub /\ ~Unused.terminated /\ ~Unused.termwait
          /\ Unused.tmr = "none" /\ ~Unused.stranded
      BY UnusedFree DEF Unused
    <3> DEFINE p == PutRefs(Unused, 1)
    <3>3. p \in Sub /\ p.refs = 1 /\ Same(p, Unused)  BY <3>2, RefsFacts
    <3>4. n = [p EXCEPT !.expires = e]  BY DEF PutRefs
    <3> HIDE DEF e, n, p
    <3> QED  BY <3>1, <3>2, <3>3, <3>4 DEF Sub, Same
  <2> HIDE DEF n
  <2>3. /\ t \in Sub /\ t.req = TRUE /\ t.refs = n.refs
        /\ t.terminated = n.terminated /\ t.termwait = n.termwait /\ t.tmr = n.tmr
        /\ ~t.stranded
    BY <2>2, RequestFacts
  <2> HIDE DEF t
  <2>4. Owned(t)  BY <2>2, <2>3 DEF Owned, Waits
  <2>5. pres.sub = NoSub /\ i # NoSub /\ pres.alive
    BY <2>1, SubsAssumption DEF IInv, PresOK, NoSub
  <2>6. /\ pres' \in [alive : BOOLEAN, tmr : BOOLEAN, sub : Subs \cup {NoSub},
                      expires : BOOLEAN]
        /\ pres'.sub = i /\ pres'.tmr = FALSE /\ pres'.alive
    BY <2>1, <2>5 DEF IInv, TypeOK
  <2>7. sub' \in [Subs -> Sub]  BY <2>1, <2>3 DEF IInv, TypeOK, Becomes
  <2>8. ASSUME NEW j \in Subs PROVE Block(sub'[j], pres'.sub = j)
    <3>1. CASE j = i  BY <2>1, <2>4, <2>6, <3>1 DEF IInv, TypeOK, Becomes, Block
    <3>2. CASE j # i
      <4>1. sub'[j] = sub[j] /\ pres.sub # j
        BY <2>1, <2>5, <3>2, SubsAssumption DEF IInv, TypeOK, Becomes, NoSub
      <4> QED  BY <2>6, <3>2, <4>1 DEF IInv, Block
    <3> QED  BY <3>1, <3>2
  <2>9. IInv'  BY <2>1, <2>5, <2>6, <2>7, <2>8 DEF IInv, TypeOK, PresOK
  <2>10. ~InLeft(sub[i]) /\ ~InLeft(sub'[i])
    BY <2>1, <2>4 DEF Subscribe, Live, InLeft, Owned, Becomes, IInv, TypeOK
  <2>11. Pending' = Pending
    <3>1. \A j \in Subs : j # i => sub'[j] = sub[j]  BY <2>1 DEF IInv, TypeOK, Becomes
    <3> QED  BY <2>10, <3>1, PendingChange
  <2>12. Where = "waiting"  BY <2>1, <2>5 DEF Where
  <2>13. Where' = "open"  BY <2>5, <2>6 DEF Where
  <2> QED  BY <2>1, <2>9, <2>11, <2>12, <2>13, Allows
<1> QED  BY <1>1, <1>2

LEMMA ReleaseIInv ==
  ASSUME IInv, NEW ok \in BOOLEAN, Release(ok)  PROVE IInv' /\ Allowed
<1>1. CASE pres.sub = NoSub
  <2>1. /\ sub' = sub /\ shown' = shown
        /\ pres' = [pres EXCEPT !.alive = FALSE, !.sub = NoSub, !.tmr = FALSE]
    BY <1>1 DEF Release
  <2>2. /\ pres' \in [alive : BOOLEAN, tmr : BOOLEAN, sub : Subs \cup {NoSub},
                      expires : BOOLEAN]
        /\ pres'.sub = NoSub /\ ~pres'.tmr /\ ~pres'.alive
    BY <2>1 DEF IInv, TypeOK
  <2>3. IInv'  BY <1>1, <2>1, <2>2 DEF IInv, TypeOK, PresOK
  <2>4. Pending' = Pending  BY <2>1 DEF Pending, Live
  <2>5. Where # "gone"  BY <1>1 DEF Release, Where
  <2>6. Where' = "gone"  BY <2>2 DEF Where
  <2> QED  BY <2>1, <2>3, <2>4, <2>5, <2>6, Allows
<1>2. CASE pres.sub # NoSub
  <2> DEFINE i == pres.sub
             t == Deref(sub[i], ok)
  <2>1. i \in Subs /\ Owned(sub[i])  BY <1>2 DEF IInv, TypeOK, Block
  <2>2. Remains(t)  BY <2>1, DerefFacts DEF Owned, Waits, Remains
  <2>3. /\ Becomes(i, t) /\ shown' = shown
        /\ pres' = [pres EXCEPT !.alive = FALSE, !.sub = NoSub, !.tmr = FALSE]
    BY <1>2 DEF Release
  <2> HIDE DEF t
  <2> QED  BY <1>2, <2>2, <2>3, Parting DEF IInv, TypeOK
<1> QED  BY <1>1, <1>2

LEMMA RefreshIInv ==
  ASSUME IInv, NEW i \in Subs, NEW ok \in BOOLEAN, Refresh(i, ok)  PROVE IInv' /\ Allowed
<1> DEFINE r == [sub[i] EXCEPT !.tmr = "none"]
           s == Request(r, ok, TRUE)
           t == [s EXCEPT !.tmr = "refresh"]
<1>1. /\ Live(i) /\ sub[i].tmr = "refresh" /\ UNCHANGED <<pres, shown>>
      /\ Becomes(i, IF r.req \/ r.terminated THEN r ELSE IF ok THEN s ELSE t)
  BY DEF Refresh
<1>2. /\ r \in Sub /\ r.refs = 1 /\ r.tmr = "none" /\ ~r.termwait
      /\ ~r.terminated /\ ~r.stranded /\ pres.sub = i
  BY <1>1, LiveFacts DEF Waits, Sub
<1> HIDE DEF r
<1>3. /\ s \in Sub /\ s.req = ok /\ s.refs = 1 /\ ~s.terminated /\ ~s.termwait /\ s.tmr = "none"
      /\ ~s.stranded
  <2>1. PICK yes : yes = TRUE  OBVIOUS
  <2>2. yes \in BOOLEAN  BY <2>1
  <2> DEFINE x == Request(r, ok, yes)
  <2>3. /\ x \in Sub /\ x.req = ok /\ x.refs = r.refs
        /\ x.terminated = r.terminated /\ x.termwait = r.termwait /\ x.tmr = r.tmr
        /\ (~r.stranded => ~x.stranded)
    BY <1>2, <2>2, RequestFacts
  <2>4. s = x  BY <2>1
  <2> HIDE DEF s, x
  <2> QED  BY <1>2, <2>3, <2>4
<1> HIDE DEF s
<1>4. CASE r.req
  <2>1. Block(r, pres.sub = i)  BY <1>2, <1>4 DEF Block, Owned, Waits
  <2> QED  BY <1>1, <1>2, <1>4, <2>1, Change
<1>5. CASE ~r.req /\ ok
  <2>1. Block(s, pres.sub = i)  BY <1>2, <1>3, <1>5 DEF Block, Owned, Waits
  <2> QED  BY <1>1, <1>2, <1>5, <2>1, Change
<1>6. CASE ~r.req /\ ~ok
  <2>1. Owned(t)  BY <1>3 DEF Owned, Waits, Sub
  <2> HIDE DEF t
  <2>2. Block(t, pres.sub = i)  BY <1>2, <2>1 DEF Block
  <2> QED  BY <1>1, <1>2, <1>6, <2>2, Change
<1> QED  BY <1>4, <1>5, <1>6

LEMMA NotifyTimeoutIInv ==
  ASSUME IInv, NEW i \in Subs, NEW ok \in BOOLEAN, NotifyTimeout(i, ok)  PROVE IInv' /\ Allowed
<1> DEFINE r == [sub[i] EXCEPT !.tmr = "none", !.termwait = FALSE]
           t == Deref(r, ok)
<1>1. /\ Live(i)
      /\ IF r.terminated THEN Becomes(i, t) /\ UNCHANGED <<pres, shown>> ELSE Closes(i, r, ok)
      /\ sub[i].tmr = "notify"
  BY DEF NotifyTimeout
<1>2. /\ r \in Sub /\ r.refs = 1 /\ ~r.termwait /\ (r.terminated <=> pres.sub # i)
      /\ ~r.stranded
  <2> DEFINE b == sub[i]
  <2>1. b \in Sub /\ b.refs = 1 /\ (b.terminated <=> pres.sub # i) /\ ~b.stranded
    BY <1>1, LiveFacts
  <2>2. r = [b EXCEPT !.tmr = "none", !.termwait = FALSE]  OBVIOUS
  <2> HIDE DEF b, r
  <2>3. r \in Sub /\ r.refs = 1 /\ ~r.termwait /\ r.terminated = b.terminated
        /\ r.stranded = b.stranded
    BY <2>1, <2>2 DEF Sub
  <2> QED  BY <2>1, <2>3
<1> HIDE DEF r
<1>3. CASE r.terminated
  <2>1. t = Unused  BY <1>2, <1>3, DerefFacts
  <2>2. Block(t, pres.sub = i)  BY <1>2, <1>3, <2>1 DEF Block, Leftover
  <2>3. ~InLeft(t)  BY <2>1, UnusedFree DEF InLeft
  <2> HIDE DEF t
  <2> QED  BY <1>1, <1>3, <2>2, <2>3, Change
<1>4. CASE ~r.terminated
  BY <1>1, <1>2, <1>4, ClosesIInv
<1> QED  BY <1>3, <1>4

LEMMA ActiveIInv ==
  ASSUME IInv, NEW i \in Subs, NEW expires \in BOOLEAN, NEW shows \in BOOLEAN,
         Active(i, expires, shows)
  PROVE  IInv' /\ Allowed
<1> DEFINE r == sub[i]
           b == r.subscribed \/ ~r.termconf
           m == IF ~r.terminated /\ ~r.termwait /\ expires THEN "refresh" ELSE r.tmr
           g == r.stranded /\ (r.terminated \/ ~expires)
           t == [r EXCEPT !.dlg = TRUE, !.subscribed = b, !.tmr = m, !.stranded = g]
<1>1. Live(i) /\ Becomes(i, t) /\ pres' = pres /\ shown' = Shows(r, shows)
  BY DEF Active
<1>2. /\ r \in Sub /\ r.refs = 1 /\ Waits(r) /\ (r.terminated <=> pres.sub # i)
      /\ r.terminated => r.tmr # "refresh"
      /\ pres.sub = i \/ InLeft(r) \/ r.stranded
  BY <1>1, LiveFacts
<1>3. shown' = shown \/ (pres.sub = i /\ shown' = "known")
  BY <1>1, <1>2 DEF Shows
<1> HIDE DEF r
<1>4. b \in BOOLEAN /\ g \in BOOLEAN /\ m \in {"none", "refresh", "notify"}
  BY <1>2 DEF Sub
<1>5. /\ t \in Sub /\ t.refs = 1 /\ t.terminated = r.terminated /\ t.termwait = r.termwait
      /\ t.req = r.req /\ t.tmr = m /\ t.stranded = g
  <2> HIDE DEF b, g, m
  <2> QED  BY <1>2, <1>4 DEF Sub
<1> HIDE DEF t
<1>6. Waits(t) /\ (t.terminated => t.tmr # "refresh")
  BY <1>2, <1>5 DEF Waits
<1>7. Block(t, pres.sub = i)
  BY <1>2, <1>5, <1>6 DEF Block, Owned, Leftover, Left
<1>8. pres.sub = i \/ InLeft(r) \/ ~InLeft(t)  BY <1>2, <1>5 DEF InLeft
<1> QED  BY <1>1, <1>3, <1>7, <1>8, Change DEF r

LEMMA OverIInv ==
  ASSUME IInv, NEW i \in Subs, NEW ok \in BOOLEAN, Over(i, ok)  PROVE IInv' /\ Allowed
<1> DEFINE r == [sub[i] EXCEPT !.dlg = TRUE, !.subscribed = FALSE, !.termconf = TRUE]
           w == [r EXCEPT !.termwait = FALSE]
           d == [r EXCEPT !.termwait = FALSE, !.tmr = "none"]
<1>1. /\ Live(i)
      /\ IF ~r.terminated THEN Closes(i, w, ok)
         ELSE /\ Becomes(i, IF r.termwait THEN Deref(d, ok) ELSE r)
              /\ UNCHANGED <<pres, shown>>
  BY DEF Over
<1>2. /\ r \in Sub /\ r.refs = 1 /\ (r.terminated <=> pres.sub # i)
      /\ r.termwait = sub[i].termwait /\ r.req = sub[i].req /\ r.tmr = sub[i].tmr
      /\ r.stranded = sub[i].stranded
  <2> DEFINE b == sub[i]
  <2>1. b \in Sub /\ b.refs = 1 /\ (b.terminated <=> pres.sub # i)  BY <1>1, LiveFacts
  <2>2. r = [b EXCEPT !.dlg = TRUE, !.subscribed = FALSE, !.termconf = TRUE]  OBVIOUS
  <2> HIDE DEF b, r
  <2>3. /\ r \in Sub /\ r.refs = 1 /\ r.terminated = b.terminated
        /\ r.termwait = b.termwait /\ r.req = b.req /\ r.tmr = b.tmr
        /\ r.stranded = b.stranded
    BY <2>1, <2>2 DEF Sub
  <2> QED  BY <2>1, <2>3 DEF b
<1>3. Waits(r) /\ (r.terminated => r.tmr # "refresh")
  <2> HIDE DEF r
  <2>1. Waits(sub[i]) /\ (sub[i].terminated => sub[i].tmr # "refresh")
        /\ (sub[i].terminated <=> pres.sub # i)
    BY <1>1, LiveFacts
  <2> QED  BY <1>2, <2>1 DEF Waits
<1> HIDE DEF r
<1>4. CASE ~r.terminated
  <2>1. w \in Sub /\ w.refs = 1 /\ ~w.terminated /\ ~w.termwait
    BY <1>2, <1>4 DEF Sub
  <2>2. w.req = r.req /\ w.stranded = r.stranded  BY <1>2 DEF Sub
  <2> HIDE DEF w
  <2> QED  BY <1>1, <1>2, <1>3, <1>4, <2>1, <2>2, ClosesIInv DEF Waits
<1>5. CASE r.terminated /\ r.termwait
  <2>1. d \in Sub /\ d.refs = 1 /\ d.terminated  BY <1>2, <1>5 DEF Sub
  <2> HIDE DEF d
  <2>2. Deref(d, ok) = Unused  BY <2>1, DerefFacts
  <2>3. Block(Unused, pres.sub = i)  BY <1>2, <1>5 DEF Block, Leftover
  <2>4. ~InLeft(Unused)  BY UnusedFree DEF InLeft
  <2> QED  BY <1>1, <1>5, <2>2, <2>3, <2>4, Change
<1>6. CASE r.terminated /\ ~r.termwait
  <2>1. Block(r, pres.sub = i)  BY <1>2, <1>3, <1>6 DEF Block, Leftover, Left
  <2>2. pres.sub = i \/ InLeft(sub[i]) \/ ~InLeft(r)
    BY <1>1, <1>2, LiveFacts DEF InLeft
  <2> QED  BY <1>1, <1>6, <2>1, <2>2, Change
<1> QED  BY <1>4, <1>5, <1>6

LEMMA InitIInv == Init => IInv
<1> SUFFICES ASSUME Init PROVE IInv  OBVIOUS
<1>1. /\ pres \in [alive : BOOLEAN, tmr : BOOLEAN, sub : Subs \cup {NoSub},
                   expires : BOOLEAN]
      /\ pres.alive /\ pres.tmr /\ pres.sub = NoSub
  BY DEF Init
<1>2. ASSUME NEW j \in Subs PROVE Block(sub[j], pres.sub = j)
  BY <1>1, SubsAssumption DEF Init, Block, Leftover, NoSub
<1> QED  BY <1>1, <1>2, UnusedFree DEF Init, IInv, TypeOK, PresOK

LEMMA StepIInv == IInv /\ [Next]_vars => IInv' /\ Allowed
<1> SUFFICES ASSUME IInv, [Next]_vars PROVE IInv' /\ Allowed  OBVIOUS
<1>1. CASE UNCHANGED vars  BY <1>1, Rests
<1>2. ASSUME NEW i \in Subs, Answers(i) PROVE IInv' /\ Allowed
  BY <1>2, FailsIInv, AcceptedIInv, AcceptFailsIInv, AcceptedElsewhereIInv, RefusedIInv,
     RetriesIInv DEF Answers
<1>3. ASSUME NEW i \in Subs, NEW ok \in BOOLEAN,
             Subscribe(i, ok) \/ Refresh(i, ok) \/ NotifyTimeout(i, ok) \/ Over(i, ok)
      PROVE  IInv' /\ Allowed
  BY <1>3, SubscribeIInv, RefreshIInv, NotifyTimeoutIInv, OverIInv
<1>4. ASSUME NEW i \in Subs, NEW expires \in BOOLEAN, NEW shows \in BOOLEAN,
             Active(i, expires, shows)
      PROVE  IInv' /\ Allowed
  BY <1>4, ActiveIInv
<1>5. ASSUME NEW ok \in BOOLEAN, Release(ok) PROVE IInv' /\ Allowed
  BY <1>5, ReleaseIInv
<1> QED  BY <1>1, <1>2, <1>3, <1>4, <1>5 DEF Next

\* The invariant holds of every behaviour.
THEOREM Invariance == Spec => []IInv
<1>1. IInv /\ [Next]_vars => IInv'  BY StepIInv
<1> QED  BY <1>1, InitIInv, PTL DEF Spec

\* Every variable has its type: in particular a block has one reference too many only
\* inside a handler, and never one too few.
THEOREM TypeCorrect == Spec => []TypeOK
<1>1. IInv => TypeOK  BY DEF IInv
<1> QED  BY <1>1, Invariance, PTL

\* Every subscription that exists has one owner and something to wait for.
THEOREM AlwaysAttended == Spec => []Attended
<1>1. IInv => Attended
  <2> SUFFICES ASSUME IInv, NEW i \in Subs, Live(i)
               PROVE  /\ sub[i].refs = 1
                      /\ sub[i].terminated <=> pres.sub # i
                      /\ sub[i].termwait <=> sub[i].tmr = "notify"
                      /\ sub[i].terminated => sub[i].tmr # "refresh"
                      /\ sub[i].req \/ sub[i].tmr # "none" \/ sub[i].stranded
    BY DEF Attended
  <2> QED  BY LiveFacts DEF Waits
<1> QED  BY <1>1, Invariance, PTL

\* What is promised to the contact list and to the memory, without the liveness: the
\* contact's state comes from the subscription in use, the end of one is followed by
\* another attempt, and only what was given up is left and reclaimed.
THEOREM ImplementsContractSafety == Spec => Contract!Safety
<1>1. Init => Contract!Init
  <2> SUFFICES ASSUME Init PROVE Contract!Init  OBVIOUS
  <2>1. Where = "waiting"  BY DEF Init, Where
  <2>2. Pending = {}  BY UnusedFree DEF Init, Pending, Live
  <2> QED  BY <2>1, <2>2 DEF Init, Contract!Init, Where, Pending
<1>2. IInv /\ [Next]_vars => [Contract!Next]_(Contract!vars)  BY StepIInv DEF Allowed
<1> QED  BY <1>1, <1>2, Invariance, PTL DEF Spec, Contract!Safety
=============================================================================
