------------------------- MODULE Registration_proofs -------------------------
(***************************************************************************)
(* Proofs about Registration.  Every handler makes of its client one that  *)
(* Follows it; as long as nothing failed, it also keeps the client's claim *)
(* to the binding, which is what the last two theorems rest on.            *)
(***************************************************************************)
EXTENDS Registration, TLAPS

\* What a client that is alive waits for.
Waiting(r) ==
  /\ Pending(r) <=> r.tmr = NoTimer
  /\ r.terminated => Pending(r)
  /\ ~r.terminated => r.expires > 0

\* One that no failure has touched: it is asked for credentials only before it has any.
Clean(r) ==
  r.mem = "live" =>
    /\ r.req \in {"none", "sent", "ok", "auth"}
    /\ r.registered \/ r.req = "ok" => r.cred
    /\ r.req = "auth" => ~r.cred

\* A client that has or is given the binding, and is not yet told that it is gone.
Keeps(r) ==
  /\ r.mem = "live"
  /\ r.registered \/ r.req = "ok"
  /\ ~(r.req = "ok" /\ r.expires = 0)

\* The client in use refreshes the binding before it runs out, if it is told of it.
InTime(r, b) ==
  \/ b = 0
  \/ /\ r.req = "ok" => r.grant \in Grants /\ b = r.grant * 1000 /\ Wait(r) <= r.grant
     /\ r.registered /\ r.req = "none" /\ r.tmr > 0 => b >= r.tmr + Tick

Faultless ==
  /\ \A i \in Clients : Clean(client[i])
  /\ bound > 0 => \E i \in Clients : Keeps(client[i])
  /\ ~misled =>
       /\ ~lapsed
       /\ sipreg # 0 =>
            InTime(client[sipreg], bound) \/ \E j \in Clients \ {sipreg} : Keeps(client[j])

IInv ==
  /\ TypeOK
  /\ \A i \in Clients : Live(i) => Waiting(client[i])
  /\ \A i \in Clients : sipreg = i <=> Live(i) /\ ~client[i].terminated
  /\ scode = "ok" => sipreg # 0 /\ client[sipreg].registered
  /\ faults = 0 => Faultless

LEMMA ZeroLoops == 0 \in 0..LoopMax
BY NumbersAssumption

LEMMA UnusedFacts ==
  /\ Unused \in Client /\ Unused.mem = "none" /\ ~Unused.terminated /\ ~Unused.registered
  /\ Unused.req = "none" /\ Unused.tmr = NoTimer
BY ZeroLoops DEF Unused, Client, Answers, Forms, NoTimer

LEMMA Waits ==
  ASSUME NEW failc \in Nat, NEW wait \in FailWaits(failc)
  PROVE  wait \in Nat
<1>1. CASE failc < 4
  <2>1. failc \in {0, 1, 2, 3}  BY <1>1
  <2>2. <<30, 60, 120, 240>>[failc + 1] \in {30, 60, 120, 240}  BY <2>1
  <2> DEFINE most == <<30, 60, 120, 240>>[failc + 1]
  <2>3. wait \in {most * 500, most * 1000}  BY <1>1 DEF FailWaits
  <2> HIDE DEF most
  <2>4. most \in Nat  BY <2>2 DEF most
  <2> QED  BY <2>3, <2>4
<1>2. CASE ~(failc < 4)  BY <1>2 DEF FailWaits
<1> QED  BY <1>1, <1>2

(***************************************************************************)
(* Requests and the end of a client.                                       *)
(***************************************************************************)
\* What neither a request nor the end of a handler changes.
Alike(t, r) == t.registered = r.registered /\ t.cred = r.cred /\ t.grant = r.grant /\ t.form = r.form

LEMMA RequestFacts ==
  ASSUME NEW r \in Client, NEW ok \in BOOLEAN, NEW reset \in BOOLEAN
  PROVE  LET s == Request(r, ok, reset)
         IN  /\ s \in Client /\ s.mem = r.mem /\ s.terminated = r.terminated /\ Alike(s, r)
             /\ s.expires = (IF r.terminated THEN 0 ELSE r.expires)
             /\ (ok => s.req = "sent") /\ (~ok => s.req = "none") /\ s.tmr = r.tmr
<1> DEFINE e == IF r.terminated THEN 0 ELSE r.expires
           l == IF reset THEN 0 ELSE r.loops
           k == IF reset THEN "none" ELSE r.last
           q == IF ok THEN "sent" ELSE "none"
<1>1. Request(r, ok, reset) = [r EXCEPT !.expires = e, !.loops = l, !.last = k, !.req = q]
  BY DEF Request
<1>2. /\ e \in Nat /\ l \in 0..LoopMax /\ k \in Answers \cup {"none"}
      /\ q \in {"none", "sent", "lost"} \cup Answers
  BY ZeroLoops DEF Client
<1> HIDE DEF l, k
<1> DEFINE s == [r EXCEPT !.expires = e, !.loops = l, !.last = k, !.req = q]
<1>3. /\ s \in Client /\ s.mem = r.mem /\ s.terminated = r.terminated /\ Alike(s, r)
      /\ s.expires = e /\ s.req = q /\ s.tmr = r.tmr
  <2> HIDE DEF e, q
  <2> QED  BY <1>2 DEF Client, Alike
<1> HIDE DEF s
<1> QED  BY <1>1, <1>3 DEF s

PutTmr(r, wait) == [r EXCEPT !.tmr = wait]

LEMMA FailureFacts ==
  ASSUME NEW r \in Client
  PROVE  LET f == Failure(r)
         IN  /\ f \in Client /\ f.mem = r.mem /\ f.terminated = r.terminated /\ Alike(f, r)
             /\ f.expires = r.expires /\ f.req = "none" /\ f.tmr = r.tmr
<1> DEFINE n == r.failc + 1
           f == [r EXCEPT !.req = "none", !.failc = n]
<1>1. n \in Nat  BY DEF Client
<1>2. Failure(r) = f  BY DEF Failure
<1> HIDE DEF n
<1>3. /\ f \in Client /\ f.mem = r.mem /\ f.terminated = r.terminated /\ Alike(f, r)
      /\ f.expires = r.expires /\ f.req = "none" /\ f.tmr = r.tmr
  BY <1>1 DEF Client, Alike
<1> QED  BY <1>2, <1>3

\* The time until the next attempt, and how many failed.
LEMMA PutTmrFacts ==
  ASSUME NEW r \in Client, NEW wait \in Nat
  PROVE  LET t == PutTmr(r, wait)
         IN  /\ t \in Client /\ t.mem = r.mem /\ t.terminated = r.terminated /\ Alike(t, r)
             /\ t.expires = r.expires /\ t.req = r.req /\ t.tmr = wait
BY DEF PutTmr, Client, Alike

LEMMA FreedFacts ==
  Freed \in Client /\ Freed.mem = "freed"
BY UnusedFacts DEF Freed, Client

\* A client that is let go.
Gone(t) == t \in Client /\ t.mem = "freed"
LetGo(t) ==
  /\ t \in Client /\ t.mem = "live" /\ t.terminated
  /\ Pending(t) /\ t.tmr = NoTimer

LEMMA DestroyFacts ==
  ASSUME NEW r \in Client, NEW ok \in BOOLEAN, r.mem = "live"
  PROVE  LET t == Destroy(r, ok)
         IN  /\ r.terminated => Gone(t)
             /\ Gone(t) \/ LetGo(t)
             /\ ~r.terminated /\ ok /\ Clean(r) => Clean(t) /\ (Keeps(r) => Keeps(t))
<1> DEFINE u == [r EXCEPT !.terminated = TRUE, !.tmr = NoTimer]
           s == Request(u, TRUE, TRUE)
<1>1. /\ u \in Client /\ u.mem = "live" /\ u.terminated /\ u.tmr = NoTimer /\ u.req = r.req
      /\ Alike(u, r) /\ u.expires = r.expires
  BY DEF Client, NoTimer, Alike
<1>2. Destroy(r, ok) = IF r.terminated THEN Freed
                       ELSE IF Pending(r) THEN u
                       ELSE IF r.registered /\ ok THEN s ELSE Freed
  BY DEF Destroy
<1> HIDE DEF u
<1>3. /\ s \in Client /\ s.mem = u.mem /\ s.terminated = u.terminated /\ Alike(s, u)
      /\ s.expires = 0 /\ s.req = "sent" /\ s.tmr = u.tmr
  BY <1>1, RequestFacts
<1> HIDE DEF s
<1>4. Gone(Freed)  BY FreedFacts DEF Gone
<1>5. CASE r.terminated  BY <1>2, <1>4, <1>5
<1>6. CASE ~r.terminated /\ Pending(r)
  <2>1. LetGo(u)  BY <1>1, <1>6 DEF LetGo, Pending
  <2>2. Clean(r) => Clean(u)  BY <1>1 DEF Clean, Alike
  <2>3. Keeps(r) => Keeps(u)  BY <1>1 DEF Keeps, Alike
  <2> QED  BY <1>2, <1>6, <2>1, <2>2, <2>3
<1>7. CASE ~r.terminated /\ ~Pending(r) /\ r.registered /\ ok
  <2>1. LetGo(s)  BY <1>1, <1>3 DEF LetGo, Pending
  <2>2. Clean(r) => Clean(s)  BY <1>1, <1>3 DEF Clean, Alike
  <2>3. Keeps(s)  BY <1>1, <1>3, <1>7 DEF Keeps, Alike
  <2> QED  BY <1>2, <1>7, <2>1, <2>2, <2>3
<1>8. CASE ~r.terminated /\ ~Pending(r) /\ ~(r.registered /\ ok)
  <2>1. Clean(Freed)  BY <1>4 DEF Clean, Gone
  <2>2. ok => ~Keeps(r)  BY <1>8 DEF Keeps, Pending
  <2> QED  BY <1>2, <1>4, <1>8, <2>1, <2>2
<1> QED  BY <1>5, <1>6, <1>7, <1>8

\* The client whose request was just answered, or could not be sent again.
Answered(r) ==
  /\ r \in Client /\ r.mem = "live" /\ r.req = "none" /\ r.tmr = NoTimer
  /\ ~r.terminated => r.expires > 0

\* What the end of response_handler makes of it.
Goes(r, t, wait, ok) ==
  IF r.terminated
  THEN /\ Gone(t) \/ (LetGo(t) /\ r.registered /\ t.req = "sent" /\ Alike(t, r))
       /\ r.registered /\ ok /\ r.expires # 0 => LetGo(t)
  ELSE /\ t \in Client /\ t.mem = "live" /\ ~t.terminated /\ Alike(t, r)
       /\ t.expires = r.expires /\ t.req = "none" /\ t.tmr = wait

LEMMA OutFacts ==
  ASSUME NEW r, Answered(r), NEW ok \in BOOLEAN, NEW wait \in Nat
  PROVE  Goes(r, Out(r, wait, ok), wait, ok)
<1>1. r \in Client /\ r.mem = "live" /\ r.req = "none" /\ r.tmr = NoTimer
  BY DEF Answered
<1>2. CASE ~r.terminated
  <2> DEFINE t == [r EXCEPT !.tmr = wait]
  <2>1. r.expires # 0  BY <1>1, <1>2 DEF Answered, Client
  <2>2. Out(r, wait, ok) = t  BY <1>2, <2>1 DEF Out
  <2>3. /\ t \in Client /\ t.mem = "live" /\ ~t.terminated /\ Alike(t, r)
        /\ t.expires = r.expires /\ t.req = "none" /\ t.tmr = wait
    BY <1>1, <1>2 DEF Client, Alike
  <2> HIDE DEF t
  <2> QED  BY <1>2, <2>2, <2>3 DEF Goes
<1>3. CASE r.terminated /\ r.expires = 0
  <2>1. Out(r, wait, ok) = Destroy(r, ok)  BY <1>3 DEF Out
  <2>2. Gone(Destroy(r, ok))  BY <1>1, <1>3, DestroyFacts
  <2> QED  BY <1>3, <2>1, <2>2 DEF Goes
<1>4. CASE r.terminated /\ r.expires # 0 /\ r.registered /\ ok
  <2> DEFINE s == Request(r, TRUE, TRUE)
  <2>1. Out(r, wait, ok) = s  BY <1>4 DEF Out
  <2>2. /\ s \in Client /\ s.mem = r.mem /\ s.terminated = r.terminated /\ Alike(s, r)
        /\ s.req = "sent" /\ s.tmr = r.tmr
    BY <1>1, RequestFacts
  <2> HIDE DEF s
  <2>3. LetGo(s)  BY <1>1, <1>4, <2>2 DEF LetGo, Pending
  <2> QED  BY <1>4, <2>1, <2>2, <2>3 DEF Goes
<1>5. CASE r.terminated /\ r.expires # 0 /\ ~(r.registered /\ ok)
  <2>1. Out(r, wait, ok) = Freed  BY <1>5 DEF Out
  <2>2. Gone(Freed)  BY FreedFacts DEF Gone
  <2> QED  BY <1>5, <2>1, <2>2 DEF Goes
<1> QED  BY <1>2, <1>3, <1>4, <1>5

(***************************************************************************)
(* The client's handlers.                                                  *)
(***************************************************************************)
\* What a handler may make of its client, and, without failures, of its claim.
Follows(c, r) ==
  /\ \/ c.terminated /\ Gone(r)
     \/ r \in Client /\ r.mem = "live" /\ (r.terminated <=> c.terminated) /\ Waiting(r)
  /\ ~c.terminated /\ c.registered => r.registered
Claims(c, r, b) ==
  /\ Clean(r)
  /\ Keeps(c) => Keeps(r)
  /\ ~c.terminated /\ InTime(c, b) => InTime(r, b)

LEMMA Handled ==
  ASSUME IInv, NEW i \in Clients, Live(i), NEW r, Follows(client[i], r), Becomes(i, r),
         UNCHANGED <<sipreg, bound, lapsed, misled>>, faults' \in 0..MaxFaults,
         faults' = 0 => faults = 0 /\ Claims(client[i], r, bound),
         \/ scode' = scode
         \/ ~client[i].terminated /\ scode' = "fail"
         \/ ~client[i].terminated /\ scode' = "ok" /\ r.registered
  PROVE  IInv'
<1> DEFINE c == client[i]
<1>1. c \in Client /\ c.mem = "live" /\ Waiting(c) /\ (sipreg = i <=> ~c.terminated)
  BY DEF IInv, TypeOK, Live
<1>2. r \in Client /\ (r.mem = "live" => (r.terminated <=> c.terminated) /\ Waiting(r))
      /\ (~c.terminated => r.mem = "live") /\ (~c.terminated /\ c.registered => r.registered)
  BY DEF Follows, Gone
<1>3. client' \in [Clients -> Client] /\ client'[i] = r
      /\ \A j \in Clients : j # i => client'[j] = client[j]
  BY <1>2 DEF IInv, TypeOK, Becomes
<1>4. sipreg' = sipreg /\ bound' = bound /\ lapsed' = lapsed /\ misled' = misled  OBVIOUS
<1> HIDE DEF c
<1>5. TypeOK'  BY <1>3, <1>4 DEF IInv, TypeOK
<1>6. ASSUME NEW j \in Clients PROVE Live(j)' => Waiting(client'[j])
  BY <1>2, <1>3 DEF IInv, Live
<1>7. ASSUME NEW j \in Clients PROVE sipreg' = j <=> Live(j)' /\ ~client'[j].terminated
  BY <1>1, <1>2, <1>3, <1>4 DEF IInv, Live
<1>8. scode' = "ok" => sipreg' # 0 /\ client'[sipreg'].registered
  <2>1. CASE scode' = scode
    BY <1>1, <1>2, <1>3, <1>4, <2>1 DEF IInv, TypeOK, c
  <2>2. CASE ~c.terminated /\ scode' = "ok" /\ r.registered
    BY <1>1, <1>3, <1>4, <2>2, ClientsAssumption
  <2> QED  BY <2>1, <2>2 DEF c
<1>9. ASSUME faults' = 0 PROVE Faultless'
  <2>1. Faultless /\ Claims(c, r, bound)  BY <1>9 DEF IInv, c
  <2>2. ASSUME NEW j \in Clients
        PROVE  Clean(client'[j]) /\ (Keeps(client[j]) => Keeps(client'[j]))
    BY <1>3, <2>1 DEF Faultless, Claims, c
  <2>3. ASSUME sipreg # 0, ~misled
        PROVE  \/ InTime(client'[sipreg], bound)
               \/ \E j \in Clients \ {sipreg} : Keeps(client'[j])
    <3>1. CASE InTime(client[sipreg], bound)
      <4>1. sipreg \in Clients  BY <2>3 DEF IInv, TypeOK
      <4>2. CASE sipreg = i  BY <1>1, <1>3, <2>1, <3>1, <4>2 DEF Claims, c
      <4>3. CASE sipreg # i  BY <1>3, <3>1, <4>1, <4>3
      <4> QED  BY <4>2, <4>3
    <3>2. CASE \E j \in Clients \ {sipreg} : Keeps(client[j])  BY <2>2, <3>2
    <3> QED  BY <2>1, <2>3, <3>1, <3>2 DEF Faultless
  <2> QED  BY <1>4, <2>1, <2>2, <2>3 DEF Faultless
<1> QED  BY <1>5, <1>6, <1>7, <1>8, <1>9 DEF IInv

LEMMA SendsFacts ==
  ASSUME IInv, NEW ok, Sends(ok)
  PROVE  /\ ok \in BOOLEAN /\ faults' \in 0..MaxFaults
         /\ faults' = 0 => faults = 0 /\ ok
BY NumbersAssumption DEF IInv, TypeOK, Sends

LEMMA LiveFacts ==
  ASSUME IInv, NEW i \in Clients, Live(i)
  PROVE  /\ client[i] \in Client /\ client[i].mem = "live" /\ Waiting(client[i])
         /\ faults = 0 => Clean(client[i])
BY DEF IInv, TypeOK, Live, Faultless

\* The end of a response handler lets the client follow what it was.
LEMMA GoesFollows ==
  ASSUME NEW c, NEW r, NEW t, NEW wait \in Nat, NEW ok, Answered(r), Goes(r, t, wait, ok),
         c.terminated <=> r.terminated, c.registered => r.registered
  PROVE  Follows(c, t)
BY DEF Answered, Goes, Follows, Waiting, Pending, LetGo, NoTimer, Alike, Client

LEMMA RefreshIInv ==
  ASSUME IInv, NEW i \in Clients, NEW ok, NEW wait \in FailWaits(client[i].failc + 1),
         Refresh(i, ok, wait)
  PROVE  IInv'
<1> DEFINE c == client[i]
           u == [c EXCEPT !.tmr = NoTimer]
           s == Request(u, ok, TRUE)
           f == Failure(s)
           t == PutTmr(f, wait)
<1>1. /\ Live(i) /\ c.tmr = 0 /\ Becomes(i, IF ok THEN s ELSE t)
      /\ UNCHANGED <<sipreg, bound, lapsed, misled>>
      /\ scode' = IF ok THEN scode ELSE Tells(c, "fail")
      /\ Sends(ok)
  BY DEF Refresh, PutTmr
<1>2. c \in Client /\ c.mem = "live" /\ Waiting(c) /\ (faults = 0 => Clean(c))
  BY <1>1, LiveFacts
<1>3. ok \in BOOLEAN /\ faults' \in 0..MaxFaults /\ (faults' = 0 => faults = 0 /\ ok)
  BY <1>1, SendsFacts
<1>4. wait \in Nat
  <2>1. c.failc + 1 \in Nat  BY <1>2 DEF Client
  <2> QED  BY <2>1, Waits
<1>5. ~c.terminated /\ c.req = "none" /\ c.expires > 0  BY <1>1, <1>2 DEF Waiting, Pending, NoTimer
<1> HIDE DEF c
<1>6. /\ u \in Client /\ u.mem = "live" /\ ~u.terminated /\ Alike(u, c)
      /\ u.expires = c.expires /\ u.tmr = NoTimer
  BY <1>2, <1>5 DEF Client, NoTimer, Alike
<1> HIDE DEF u
<1>7. /\ s \in Client /\ s.mem = "live" /\ ~s.terminated /\ Alike(s, u)
      /\ s.expires = u.expires /\ s.tmr = u.tmr
      /\ (ok => s.req = "sent") /\ (~ok => s.req = "none")
  <2>1. TRUE \in BOOLEAN  OBVIOUS
  <2>2. /\ s \in Client /\ s.mem = u.mem /\ s.terminated = u.terminated /\ Alike(s, u)
        /\ s.expires = (IF u.terminated THEN 0 ELSE u.expires)
        /\ (ok => s.req = "sent") /\ (~ok => s.req = "none") /\ s.tmr = u.tmr
    BY <1>3, <1>6, <2>1, RequestFacts, Zenon
  <2> HIDE DEF s
  <2> QED  BY <1>6, <2>2
<1> HIDE DEF s
<1>8. CASE ok
  <2>3. Waiting(s)  BY <1>5, <1>6, <1>7, <1>8 DEF Waiting, Pending
  <2>1. Follows(c, s)
    BY <1>5, <1>6, <1>7, <2>3 DEF Follows, Alike
  <2>2. Clean(c) => Claims(c, s, bound)
    BY <1>2, <1>5, <1>6, <1>7, <1>8 DEF Clean, Claims, Keeps, InTime, Alike
  <2> QED  BY <1>1, <1>2, <1>3, <1>8, <2>1, <2>2, Handled DEF c
<1>9. CASE ~ok
  <2>1. /\ f \in Client /\ f.mem = "live" /\ ~f.terminated /\ Alike(f, s)
        /\ f.expires = s.expires /\ f.req = "none"
    BY <1>7, FailureFacts
  <2> HIDE DEF f
  <2>2. /\ t \in Client /\ t.mem = "live" /\ ~t.terminated /\ Alike(t, f)
        /\ t.expires = f.expires /\ t.req = "none" /\ t.tmr = wait
    BY <1>4, <2>1, PutTmrFacts
  <2> HIDE DEF t
  <2>4. Waiting(t)
    BY <1>4, <1>5, <1>6, <1>7, <2>1, <2>2 DEF Waiting, Pending, NoTimer
  <2>3. Follows(c, t)
    BY <1>5, <1>6, <1>7, <2>1, <2>2, <2>4 DEF Follows, Alike
  <2> QED  BY <1>1, <1>2, <1>3, <1>5, <1>9, <2>3, Handled DEF c, Tells
<1> QED  BY <1>3, <1>8, <1>9

LEMMA FlowFailsIInv ==
  ASSUME IInv, NEW i \in Clients, NEW wait \in FailWaits(client[i].failc + 1),
         FlowFails(i, wait)
  PROVE  IInv'
<1> DEFINE c == client[i]
           r == [c EXCEPT !.ka = FALSE]
           n == r.failc + 1
           t == [r EXCEPT !.failc = n, !.tmr = wait]
<1>1. /\ Live(i) /\ UNCHANGED <<sipreg, bound, lapsed, misled>>
      /\ faults' = faults + 1 /\ faults < MaxFaults
      /\ IF Pending(r) \/ r.terminated
         THEN Becomes(i, r) /\ UNCHANGED scode
         ELSE Becomes(i, t) /\ scode' = Tells(r, "fail")
  BY DEF FlowFails
<1>2. c \in Client /\ c.mem = "live" /\ Waiting(c)  BY <1>1, LiveFacts
<1>3. faults' \in 0..MaxFaults /\ faults' # 0
  BY <1>1, NumbersAssumption DEF IInv, TypeOK
<1>4. wait \in Nat
  <2>1. c.failc + 1 \in Nat  BY <1>2 DEF Client
  <2> QED  BY <2>1, Waits
<1> HIDE DEF c
<1>5. /\ r \in Client /\ r.mem = "live" /\ r.terminated = c.terminated /\ Alike(r, c)
      /\ r.expires = c.expires /\ r.req = c.req /\ r.tmr = c.tmr
  BY <1>2 DEF Client, Alike
<1> HIDE DEF r
<1>6. CASE Pending(r) \/ r.terminated
  <2>1. Follows(c, r)  BY <1>2, <1>5 DEF Follows, Waiting, Pending, Alike
  <2> QED  BY <1>1, <1>3, <1>6, <2>1, Handled DEF c
<1>7. CASE ~(Pending(r) \/ r.terminated)
  <2>1. /\ t \in Client /\ t.mem = "live" /\ ~t.terminated /\ Alike(t, r)
        /\ t.expires = r.expires /\ t.req = r.req /\ t.tmr = wait
    <3>1. n \in Nat  BY <1>5 DEF Client
    <3> HIDE DEF n
    <3> QED  BY <1>4, <1>5, <1>7, <3>1 DEF Client, Alike
  <2> HIDE DEF t
  <2>3. Waiting(t)
    BY <1>2, <1>4, <1>5, <1>7, <2>1 DEF Waiting, Pending, NoTimer
  <2>2. Follows(c, t)
    BY <1>5, <1>7, <2>1, <2>3 DEF Follows, Alike
  <2> QED  BY <1>1, <1>3, <1>5, <1>7, <2>2, Handled DEF c, Tells
<1> QED  BY <1>6, <1>7

LEMMA FailsIInv ==
  ASSUME IInv, NEW i \in Clients, NEW ok, NEW wait \in FailWaits(client[i].failc + 1),
         Fails(i, ok, wait)
  PROVE  IInv'
<1> DEFINE c == client[i]
           r == Failure(c)
           t == Out(r, wait, ok)
<1>1. /\ Live(i) /\ c.req = "lost" /\ Sends(ok) /\ Becomes(i, t)
      /\ scode' = Tells(c, "fail") /\ UNCHANGED <<sipreg, bound, lapsed, misled>>
  BY DEF Fails
<1>2. c \in Client /\ c.mem = "live" /\ Waiting(c) /\ (faults = 0 => Clean(c))
  BY <1>1, LiveFacts
<1>3. ok \in BOOLEAN /\ faults' \in 0..MaxFaults /\ (faults' = 0 => faults = 0 /\ ok)
  BY <1>1, SendsFacts
<1>4. wait \in Nat
  <2>1. c.failc + 1 \in Nat  BY <1>2 DEF Client
  <2> QED  BY <2>1, Waits
<1>5. faults # 0  BY <1>1, <1>2 DEF Clean
<1> HIDE DEF c
<1>6. Answered(r) /\ r.terminated = c.terminated /\ r.registered = c.registered
  <2>1. c.tmr = NoTimer  BY <1>1, <1>2 DEF Waiting, Pending, c
  <2>2. /\ r \in Client /\ r.mem = c.mem /\ r.terminated = c.terminated /\ Alike(r, c)
        /\ r.expires = c.expires /\ r.req = "none" /\ r.tmr = c.tmr
    BY <1>2, FailureFacts
  <2> HIDE DEF r
  <2> QED  BY <1>2, <2>1, <2>2 DEF Answered, Waiting, Alike
<1> HIDE DEF r
<1>7. Goes(r, t, wait, ok)  BY <1>3, <1>4, <1>6, OutFacts
<1> HIDE DEF t
<1>8. Follows(c, t)  BY <1>4, <1>6, <1>7, GoesFollows
<1> QED  BY <1>1, <1>3, <1>5, <1>8, Handled DEF c, Tells

LEMMA WaitFacts ==
  ASSUME NEW c \in Client
  PROVE  Wait(c) \in Nat
<1>1. c.form \in Forms /\ c.grant \in Nat /\ c.expires \in Nat  BY DEF Client
<1> QED  BY <1>1, SecondsAssumption DEF Wait, Forms

LEMMA AcceptedIInv ==
  ASSUME IInv, NEW i \in Clients, NEW ok, NEW keep, Accepted(i, ok, keep)
  PROVE  IInv'
<1> DEFINE c == client[i]
           k == c.ka \/ keep
           r == [c EXCEPT !.req = "none", !.registered = TRUE, !.failc = 0,
                          !.loops = 0, !.last = "ok", !.ka = k,
                          !.grant = 0, !.form = "none"]
           wait == Wait(c) * 900
           t == Out(r, wait, ok)
<1>1. /\ Live(i) /\ c.req = "ok" /\ Sends(ok) /\ Becomes(i, t) /\ keep \in BOOLEAN
      /\ scode' = Tells(c, "ok") /\ UNCHANGED <<sipreg, bound, lapsed, misled>>
  BY DEF Accepted
<1>2. c \in Client /\ c.mem = "live" /\ Waiting(c) /\ (faults = 0 => Clean(c))
  BY <1>1, LiveFacts
<1>3. ok \in BOOLEAN /\ faults' \in 0..MaxFaults /\ (faults' = 0 => faults = 0 /\ ok)
  BY <1>1, SendsFacts
<1>4. c.req = "ok" /\ c.tmr = NoTimer  BY <1>1, <1>2 DEF Waiting, Pending
<1>5. k \in BOOLEAN  OBVIOUS
<1> HIDE DEF c, k
<1>6. /\ r \in Client /\ r.mem = "live" /\ r.req = "none" /\ r.tmr = NoTimer
      /\ (r.terminated <=> c.terminated) /\ r.registered /\ r.cred = c.cred
      /\ r.expires = c.expires
  BY <1>2, <1>4, <1>5, ZeroLoops DEF Client, Answers, Forms
<1> HIDE DEF r
<1>7. wait \in Nat /\ wait = Wait(c) * 900 /\ Wait(c) \in Nat
  <2>1. Wait(c) \in Nat  BY <1>2, WaitFacts
  <2> QED  BY <2>1
<1>8. Answered(r)  BY <1>2, <1>6 DEF Answered, Waiting
<1> HIDE DEF wait
<1>9. Goes(r, t, wait, ok)  BY <1>3, <1>7, <1>8, OutFacts
<1> HIDE DEF t
<1>10. Follows(c, t)  BY <1>6, <1>7, <1>8, <1>9, GoesFollows
<1>11. ASSUME Clean(c), ok PROVE Claims(c, t, bound)
  <2>1. c.cred  BY <1>2, <1>4, <1>11 DEF Clean
  <2>2. CASE c.terminated
    <3>1. Gone(t) \/ (LetGo(t) /\ t.req = "sent" /\ Alike(t, r))  BY <1>6, <1>9, <2>2 DEF Goes
    <3>2. Clean(t)  BY <1>6, <2>1, <3>1 DEF Clean, Alike, Gone
    <3>3. ASSUME Keeps(c) PROVE Keeps(t)
      <4>1. c.expires # 0  BY <1>4, <3>3 DEF Keeps
      <4>2. LetGo(t)  BY <1>6, <1>9, <1>11, <2>2, <4>1 DEF Goes
      <4>3. t.req = "sent" /\ Alike(t, r)  BY <3>1, <4>2 DEF Gone, LetGo
      <4> QED  BY <1>6, <4>2, <4>3 DEF Keeps, LetGo, Alike
    <3> QED  BY <2>2, <3>2, <3>3 DEF Claims
  <2>3. CASE ~c.terminated
    <3>1. /\ t \in Client /\ t.mem = "live" /\ ~t.terminated /\ Alike(t, r)
          /\ t.req = "none" /\ t.tmr = wait
      BY <1>6, <1>9, <2>3 DEF Goes
    <3>2. Clean(t)  BY <1>6, <2>1, <3>1 DEF Clean, Alike
    <3>3. Keeps(t)  BY <1>6, <3>1 DEF Keeps, Alike
    <3>4. ASSUME InTime(c, bound) PROVE InTime(t, bound)
      <4>1. CASE bound = 0  BY <4>1 DEF InTime
      <4>2. CASE bound # 0
        <5>1. c.grant \in Grants /\ bound = c.grant * 1000 /\ Wait(c) <= c.grant
          BY <1>4, <3>4, <4>2 DEF InTime
        <5>2. Tick <= 100 * c.grant /\ Tick \in Nat /\ c.grant \in Nat
          BY <5>1, TickAssumption, NumbersAssumption, SecondsAssumption
        <5>3. bound >= wait + Tick  BY <1>7, <5>1, <5>2
        <5> QED  BY <3>1, <5>3 DEF InTime
      <4> QED  BY <4>1, <4>2
    <3> QED  BY <3>2, <3>3, <3>4 DEF Claims
  <2> QED  BY <2>2, <2>3
<1>12. ~c.terminated => t.registered  BY <1>6, <1>9 DEF Goes, Alike
<1> QED  BY <1>1, <1>2, <1>3, <1>10, <1>11, <1>12, Handled DEF c, Tells

\* An answer that sip_request_loops counted.
LEMMA CountedFacts ==
  ASSUME NEW r \in Client, NEW answer \in Answers
  PROVE  LET d == Counted(r, answer)
         IN  /\ d \in Client /\ d.mem = r.mem /\ d.terminated = r.terminated /\ Alike(d, r)
             /\ d.expires = r.expires /\ d.req = "none" /\ d.tmr = r.tmr /\ d.failc = r.failc
<1> DEFINE l == IF r.loops < LoopMax THEN r.loops + 1 ELSE r.loops
           d == [r EXCEPT !.req = "none", !.last = answer, !.loops = l]
<1>1. l \in 0..LoopMax  BY NumbersAssumption DEF Client
<1>2. Counted(r, answer) = d  BY DEF Counted
<1> HIDE DEF l
<1>3. /\ d \in Client /\ d.mem = r.mem /\ d.terminated = r.terminated /\ Alike(d, r)
      /\ d.expires = r.expires /\ d.req = "none" /\ d.tmr = r.tmr /\ d.failc = r.failc
  BY <1>1 DEF Client, Alike
<1> QED  BY <1>2, <1>3

\* Without failures, a challenged client has no claim yet.
LEMMA Challenged ==
  ASSUME NEW c \in Client, c.mem = "live", Clean(c), c.req \in Answers \ {"ok"}
  PROVE  c.req = "auth" /\ ~c.registered /\ ~Keeps(c)
BY DEF Clean, Keeps, Answers

LEMMA RefusedIInv ==
  ASSUME IInv, NEW i \in Clients, NEW ok, NEW wait \in FailWaits(client[i].failc + 1),
         Refused(i, ok, wait)
  PROVE  IInv'
<1> DEFINE c == client[i]
           loops == Looping(c, c.req)
           given == c.terminated /\ ~c.registered
           seen == ~loops /\ ~given
           d == Counted(c, c.req)
           n == IF given /\ ~loops THEN d.failc ELSE d.failc + 1
           k == d.cred /\ ~(seen /\ c.req \in {"badauth", "forbidden"})
           r == [d EXCEPT !.failc = n, !.cred = k]
           t == Out(r, wait, ok)
<1>1. /\ Live(i) /\ c.req \in Answers \ {"ok"} /\ Sends(ok) /\ Becomes(i, t)
      /\ scode' = Tells(c, "fail") /\ UNCHANGED <<sipreg, bound, lapsed, misled>>
  BY DEF Refused
<1>2. c \in Client /\ c.mem = "live" /\ Waiting(c) /\ (faults = 0 => Clean(c))
  BY <1>1, LiveFacts
<1>3. ok \in BOOLEAN /\ faults' \in 0..MaxFaults /\ (faults' = 0 => faults = 0 /\ ok)
  BY <1>1, SendsFacts
<1>4. wait \in Nat
  <2>1. c.failc + 1 \in Nat  BY <1>2 DEF Client
  <2> QED  BY <2>1, Waits
<1>5. c.req \in Answers \ {"ok"} /\ c.tmr = NoTimer
  BY <1>1, <1>2 DEF Waiting, Pending, Answers
<1> HIDE DEF c, loops
<1>6. /\ d \in Client /\ d.mem = c.mem /\ d.terminated = c.terminated /\ Alike(d, c)
      /\ d.expires = c.expires /\ d.req = "none" /\ d.tmr = c.tmr
  BY <1>2, <1>5, CountedFacts
<1> HIDE DEF d
<1>7. n \in Nat  BY <1>6 DEF Client
<1>8. k \in BOOLEAN  OBVIOUS
<1> HIDE DEF n, k
<1>9. /\ r \in Client /\ r.mem = "live" /\ r.req = "none" /\ r.tmr = NoTimer
      /\ r.terminated = d.terminated /\ r.registered = d.registered /\ r.expires = d.expires
  BY <1>2, <1>5, <1>6, <1>7, <1>8 DEF Client
<1> HIDE DEF r
<1>10. r.terminated = c.terminated /\ r.registered = c.registered /\ r.expires = c.expires
  BY <1>6, <1>9 DEF Alike
<1>11. Answered(r)  BY <1>2, <1>9, <1>10 DEF Answered, Waiting
<1>12. Goes(r, t, wait, ok)  BY <1>3, <1>4, <1>11, OutFacts
<1> HIDE DEF t
<1>13. Follows(c, t)  BY <1>4, <1>10, <1>11, <1>12, GoesFollows
<1>14. ASSUME Clean(c) PROVE Claims(c, t, bound)
  <2>1. ~c.registered /\ ~Keeps(c)  BY <1>2, <1>5, <1>14, Challenged
  <2>2. CASE c.terminated
    <3>1. Gone(t)  BY <1>10, <1>12, <2>1, <2>2 DEF Goes
    <3> QED  BY <2>1, <2>2, <3>1 DEF Claims, Clean, Gone
  <2>3. CASE ~c.terminated
    <3>1. t.req = "none" /\ ~t.registered  BY <1>10, <1>12, <2>1, <2>3 DEF Goes, Alike
    <3> QED  BY <2>1, <3>1 DEF Claims, Clean, InTime
  <2> QED  BY <2>2, <2>3
<1> QED  BY <1>1, <1>2, <1>3, <1>13, <1>14, Handled DEF c, Tells

LEMMA RetriesIInv ==
  ASSUME IInv, NEW i \in Clients, NEW ok, NEW wait \in FailWaits(client[i].failc + 1),
         Retries(i, ok, wait)
  PROVE  IInv'
<1> DEFINE c == client[i]
           d == IF c.req = "auth" THEN [Counted(c, "auth") EXCEPT !.cred = TRUE]
                ELSE [Counted(c, "brief") EXCEPT !.expires = MinExpires]
           s == Request(d, ok, FALSE)
           f == Failure(s)
           t == Out(f, wait, ok)
<1>1. /\ Live(i) /\ c.req \in {"auth", "brief"} /\ Sends(ok)
      /\ Becomes(i, IF ok THEN s ELSE t)
      /\ scode' = IF ok THEN scode ELSE Tells(c, "fail")
      /\ UNCHANGED <<sipreg, bound, lapsed, misled>>
  BY DEF Retries
<1>2. c \in Client /\ c.mem = "live" /\ Waiting(c) /\ (faults = 0 => Clean(c))
  BY <1>1, LiveFacts
<1>3. ok \in BOOLEAN /\ faults' \in 0..MaxFaults /\ (faults' = 0 => faults = 0 /\ ok)
  BY <1>1, SendsFacts
<1>4. wait \in Nat
  <2>1. c.failc + 1 \in Nat  BY <1>2 DEF Client
  <2> QED  BY <2>1, Waits
<1>5. c.req \in {"auth", "brief"} /\ c.tmr = NoTimer
  BY <1>1, <1>2 DEF Waiting, Pending
<1> HIDE DEF c
<1>6. /\ d \in Client /\ d.mem = "live" /\ (d.terminated <=> c.terminated) /\ d.tmr = NoTimer
      /\ d.registered = c.registered /\ (c.req = "auth" => d.cred)
      /\ (~d.terminated => d.expires > 0)
  <2>1. CASE c.req = "auth"
    <3> DEFINE a == Counted(c, "auth")
               e == [a EXCEPT !.cred = TRUE]
    <3>1. /\ a \in Client /\ a.mem = c.mem /\ a.terminated = c.terminated /\ Alike(a, c)
          /\ a.expires = c.expires /\ a.tmr = c.tmr
      BY <1>2, CountedFacts DEF Answers
    <3> HIDE DEF a
    <3>2. /\ e \in Client /\ e.mem = "live" /\ (e.terminated <=> c.terminated)
          /\ e.tmr = NoTimer /\ e.registered = c.registered /\ e.cred
          /\ e.expires = c.expires
      BY <1>2, <1>5, <3>1 DEF Client, Alike
    <3> HIDE DEF e
    <3>3. d = e  BY <2>1 DEF e, a
    <3> QED  BY <1>2, <3>2, <3>3 DEF Waiting
  <2>2. CASE c.req = "brief"
    <3> DEFINE a == Counted(c, "brief")
               e == [a EXCEPT !.expires = MinExpires]
    <3>1. /\ a \in Client /\ a.mem = c.mem /\ a.terminated = c.terminated /\ Alike(a, c)
          /\ a.expires = c.expires /\ a.tmr = c.tmr
      BY <1>2, CountedFacts DEF Answers
    <3> HIDE DEF a
    <3>2. /\ e \in Client /\ e.mem = "live" /\ (e.terminated <=> c.terminated)
          /\ e.tmr = NoTimer /\ e.registered = c.registered
          /\ e.expires = MinExpires
      BY <1>2, <1>5, <3>1, SecondsAssumption DEF Client, Alike
    <3> HIDE DEF e
    <3>3. d = e  BY <2>2 DEF e, a
    <3> HIDE DEF d
    <3> QED  BY <2>2, <3>2, <3>3, SecondsAssumption
  <2> QED  BY <1>5, <2>1, <2>2
<1> HIDE DEF d
<1>7. /\ s \in Client /\ s.mem = "live" /\ (s.terminated <=> c.terminated)
      /\ s.registered = c.registered /\ s.cred = d.cred
      /\ (~s.terminated => s.expires > 0) /\ (ok => s.req = "sent") /\ s.tmr = NoTimer
  <2>1. \A reset \in BOOLEAN : LET q == Request(d, ok, reset) IN
          /\ q \in Client /\ q.mem = d.mem /\ q.terminated = d.terminated /\ Alike(q, d)
          /\ q.expires = (IF d.terminated THEN 0 ELSE d.expires)
          /\ (ok => q.req = "sent") /\ (~ok => q.req = "none") /\ q.tmr = d.tmr
    <3>1. d \in Client /\ ok \in BOOLEAN  BY <1>3, <1>6
    <3> QED  BY <3>1, RequestFacts, Zenon
  <2>2. /\ s \in Client /\ s.mem = d.mem /\ s.terminated = d.terminated /\ Alike(s, d)
        /\ s.expires = (IF d.terminated THEN 0 ELSE d.expires)
        /\ (ok => s.req = "sent") /\ (~ok => s.req = "none") /\ s.tmr = d.tmr
    BY <2>1
  <2> HIDE DEF s
  <2> QED  BY <1>6, <2>2 DEF Alike
<1> HIDE DEF s
<1>8. CASE ok
  <2>1. Waiting(s)  BY <1>7, <1>8 DEF Waiting, Pending
  <2>2. Follows(c, s)  BY <1>7, <2>1 DEF Follows
  <2>3. ASSUME Clean(c) PROVE Claims(c, s, bound)
    <3>1. c.req = "auth" /\ ~c.registered /\ ~Keeps(c)
      BY <1>2, <1>5, <2>3, Challenged DEF Answers
    <3>2. s.req = "sent" /\ s.cred  BY <1>6, <1>7, <1>8, <3>1
    <3>3. Clean(s)  BY <3>2 DEF Clean
    <3>4. InTime(s, bound)  BY <3>2 DEF InTime
    <3> QED  BY <3>1, <3>3, <3>4 DEF Claims
  <2> QED  BY <1>1, <1>2, <1>3, <1>8, <2>2, <2>3, Handled DEF c
<1>9. CASE ~ok
  <2>1. Answered(f) /\ (f.terminated <=> c.terminated) /\ f.registered = c.registered
    <3>1. /\ f \in Client /\ f.mem = s.mem /\ f.terminated = s.terminated /\ Alike(f, s)
          /\ f.expires = s.expires /\ f.req = "none" /\ f.tmr = s.tmr
      BY <1>7, FailureFacts
    <3> HIDE DEF f
    <3> QED  BY <1>7, <3>1 DEF Answered, Alike
  <2> HIDE DEF f
  <2>2. Goes(f, t, wait, ok)  BY <1>3, <1>4, <2>1, OutFacts
  <2> HIDE DEF t
  <2>3. Follows(c, t)  BY <1>4, <2>1, <2>2, GoesFollows
  <2> QED  BY <1>1, <1>3, <1>9, <2>3, Handled DEF c, Tells
<1> QED  BY <1>3, <1>8, <1>9

(***************************************************************************)
(* The registrar and the transactions.                                     *)
(***************************************************************************)
PutReq(r, q) == [r EXCEPT !.req = q]

LEMMA PutReqFacts ==
  ASSUME NEW c \in Client, c.mem = "live", Waiting(c), Pending(c),
         NEW q \in Answers \cup {"sent", "lost"}
  PROVE  LET r == PutReq(c, q)
         IN  /\ r \in Client /\ r.mem = "live" /\ r.terminated = c.terminated /\ Alike(r, c)
             /\ r.req = q /\ Waiting(r) /\ Follows(c, r)
<1> DEFINE r == PutReq(c, q)
<1>1. /\ r \in Client /\ r.mem = "live" /\ r.terminated = c.terminated /\ Alike(r, c)
      /\ r.req = q /\ r.tmr = c.tmr /\ r.expires = c.expires
  BY DEF PutReq, Client, Alike
<1> HIDE DEF r
<1>2. Waiting(r)  BY <1>1 DEF Waiting, Pending, Answers
<1>3. Follows(c, r)  BY <1>1, <1>2 DEF Follows, Alike
<1> QED  BY <1>1, <1>2, <1>3 DEF r

LEMMA ChallengesIInv ==
  ASSUME IInv, NEW i \in Clients, Challenges(i)
  PROVE  IInv'
<1> DEFINE c == client[i]
           r == PutReq(c, "auth")
<1>1. /\ Live(i) /\ c.req = "sent" /\ ~c.cred /\ Becomes(i, r)
      /\ UNCHANGED <<sipreg, scode, bound, lapsed, misled, faults>>
  BY DEF Challenges, PutReq
<1>2. c \in Client /\ c.mem = "live" /\ Waiting(c) /\ (faults = 0 => Clean(c))
  BY <1>1, LiveFacts
<1>3. faults' \in 0..MaxFaults  BY <1>1 DEF IInv, TypeOK
<1>4. c.req = "sent" /\ Pending(c) /\ ~c.cred  BY <1>1 DEF Pending
<1> HIDE DEF c
<1>5. /\ r \in Client /\ r.mem = "live" /\ r.terminated = c.terminated /\ Alike(r, c)
      /\ r.req = "auth" /\ Waiting(r) /\ Follows(c, r)
  BY <1>2, <1>4, PutReqFacts DEF Answers
<1> HIDE DEF r
<1>6. ASSUME Clean(c) PROVE Claims(c, r, bound)
  <2>1. ~c.registered  BY <1>2, <1>4, <1>6 DEF Clean
  <2>2. ~Keeps(c)  BY <1>4, <2>1 DEF Keeps
  <2>3. Clean(r)  BY <1>4, <1>5, <2>1 DEF Clean, Alike
  <2>4. InTime(r, bound)  BY <1>5 DEF InTime
  <2> QED  BY <2>2, <2>3, <2>4 DEF Claims
<1> QED  BY <1>1, <1>2, <1>3, <1>5, <1>6, Handled DEF c

LEMMA DeniesIInv ==
  ASSUME IInv, NEW i \in Clients, NEW answer, Denies(i, answer)
  PROVE  IInv'
<1> DEFINE c == client[i]
           r == PutReq(c, answer)
<1>1. /\ Live(i) /\ Pending(c) /\ Becomes(i, r) /\ answer \in Answers \cup {"sent", "lost"}
      /\ faults < MaxFaults /\ faults' = faults + 1
      /\ UNCHANGED <<sipreg, scode, bound, lapsed, misled>>
  BY DEF Denies, Pending, PutReq
<1>2. c \in Client /\ c.mem = "live" /\ Waiting(c)  BY <1>1, LiveFacts
<1> HIDE DEF c
<1>3. Follows(c, r)  BY <1>1, <1>2, PutReqFacts
<1> HIDE DEF r
<1>4. faults' \in 0..MaxFaults /\ faults' # 0  BY <1>1, NumbersAssumption DEF IInv, TypeOK
<1> QED  BY <1>1, <1>3, <1>4, Handled DEF c

LEMMA LoseIInv ==
  ASSUME IInv, NEW i \in Clients, Lose(i)
  PROVE  IInv'
<1> DEFINE c == client[i]
           r == [c EXCEPT !.req = "lost", !.grant = 0, !.form = "none"]
<1>1. /\ Live(i) /\ Pending(c) /\ Becomes(i, r)
      /\ faults < MaxFaults /\ faults' = faults + 1
      /\ UNCHANGED <<sipreg, scode, bound, lapsed, misled>>
  BY DEF Lose, Pending, Answers
<1>2. c \in Client /\ c.mem = "live" /\ Waiting(c)  BY <1>1, LiveFacts
<1> HIDE DEF c
<1>3. /\ r \in Client /\ r.mem = "live" /\ r.terminated = c.terminated /\ r.req = "lost"
      /\ r.registered = c.registered /\ r.expires = c.expires /\ r.tmr = c.tmr
  BY <1>2 DEF Client, Forms
<1> HIDE DEF r
<1>4. Waiting(r)  BY <1>1, <1>2, <1>3 DEF Waiting, Pending
<1>5. Follows(c, r)  BY <1>2, <1>3, <1>4 DEF Follows
<1>6. faults' \in 0..MaxFaults /\ faults' # 0  BY <1>1, NumbersAssumption DEF IInv, TypeOK
<1> QED  BY <1>1, <1>5, <1>6, Handled DEF c

LEMMA Grants2xxIInv ==
  ASSUME IInv, NEW i \in Clients, NEW grant \in Grants \cup {0}, NEW form \in Forms,
         Grants2xx(i, grant, form)
  PROVE  IInv'
<1> DEFINE c == client[i]
           r == [c EXCEPT !.req = "ok", !.grant = grant, !.form = form]
<1>1. /\ Live(i) /\ c.req = "sent" /\ c.cred /\ Becomes(i, r) /\ bound' = grant * 1000
      /\ UNCHANGED <<sipreg, scode, lapsed, faults>>
      /\ misled' = (misled \/ Wait(r) > grant)
      /\ IF c.expires = 0 THEN grant = 0 ELSE grant \in Grants
  BY DEF Grants2xx
<1>2. c \in Client /\ c.mem = "live" /\ Waiting(c) /\ (sipreg = i <=> ~c.terminated)
  BY <1>1 DEF IInv, TypeOK, Live
<1>3. c.req = "sent" /\ c.cred /\ (IF c.expires = 0 THEN grant = 0 ELSE grant \in Grants)
      /\ grant \in Nat
  BY <1>1, SecondsAssumption
<1> HIDE DEF c
<1>4. /\ r \in Client /\ r.mem = "live" /\ r.terminated = c.terminated
      /\ r.registered = c.registered /\ r.cred = c.cred /\ r.grant = grant
      /\ r.expires = c.expires /\ r.req = "ok" /\ r.tmr = c.tmr
  BY <1>2, <1>3 DEF Client, Answers
<1> HIDE DEF r
<1>5. client' \in [Clients -> Client] /\ client'[i] = r
      /\ \A j \in Clients : j # i => client'[j] = client[j]
  BY <1>1, <1>4 DEF IInv, TypeOK, Becomes
<1>6. Waiting(r)  BY <1>2, <1>3, <1>4 DEF Waiting, Pending
<1>7. TypeOK'
  <2>1. misled' \in BOOLEAN  BY <1>1 DEF IInv, TypeOK
  <2> QED  BY <1>1, <1>3, <1>5, <2>1 DEF IInv, TypeOK
<1>8. ASSUME NEW j \in Clients PROVE Live(j)' => Waiting(client'[j])
  BY <1>5, <1>6 DEF IInv, Live
<1>9. ASSUME NEW j \in Clients PROVE sipreg' = j <=> Live(j)' /\ ~client'[j].terminated
  BY <1>1, <1>2, <1>4, <1>5 DEF IInv, Live
<1>10. scode' = "ok" => sipreg' # 0 /\ client'[sipreg'].registered
  BY <1>1, <1>4, <1>5 DEF IInv, TypeOK, c
<1>11. ASSUME faults' = 0 PROVE Faultless'
  <2>1. Faultless  BY <1>1, <1>11 DEF IInv
  <2>2. Clean(r)  BY <1>3, <1>4 DEF Clean
  <2>3. \A j \in Clients : Clean(client'[j])  BY <1>5, <2>1, <2>2 DEF Faultless
  <2>4. bound' > 0 => Keeps(client'[i])
    <3>1. bound' > 0 => c.expires # 0  BY <1>1, <1>3
    <3> QED  BY <1>4, <1>5, <3>1 DEF Keeps
  <2>5. ASSUME sipreg # 0, ~misled'
        PROVE  \/ InTime(client'[sipreg], bound')
               \/ \E j \in Clients \ {sipreg} : Keeps(client'[j])
    <3>1. CASE sipreg = i
      <4>1. c.expires > 0  BY <1>2, <3>1 DEF Waiting
      <4>2. grant \in Grants  BY <1>3, <4>1
      <4>3. Wait(r) <= grant
        <5>1. Wait(r) \in Nat  BY <1>4, WaitFacts
        <5>2. ~(Wait(r) > grant)  BY <1>1, <2>5
        <5> QED  BY <1>3, <5>1, <5>2
      <4>4. InTime(r, bound')  BY <1>1, <1>4, <4>2, <4>3 DEF InTime
      <4> QED  BY <1>5, <3>1, <4>4
    <3>2. CASE sipreg # i /\ bound' > 0  BY <2>4, <3>2
    <3>3. CASE ~(bound' > 0)
      <4>1. bound' = 0  BY <1>7, <3>3 DEF TypeOK
      <4> QED  BY <4>1 DEF InTime
    <3> QED  BY <3>1, <3>2, <3>3
  <2>6. sipreg' = sipreg /\ lapsed' = lapsed /\ (~misled' => ~misled)  BY <1>1
  <2>7. ~misled' => ~lapsed'  BY <2>1, <2>6 DEF Faultless
  <2> QED  BY <2>3, <2>4, <2>5, <2>6, <2>7 DEF Faultless
<1> QED  BY <1>7, <1>8, <1>9, <1>10, <1>11 DEF IInv

LEMMA TimePassesIInv ==
  ASSUME IInv, TimePasses
  PROVE  IInv'
<1> DEFINE Runs(j) == Live(j) /\ client[j].tmr > 0
<1>1. client' = [j \in Clients |->
                  IF Runs(j) THEN PutTmr(client[j], Less(client[j].tmr)) ELSE client[j]]
  BY DEF TimePasses, PutTmr
<1>2. /\ \A j \in Clients : Live(j) => client[j].tmr # 0 /\ client[j].req \in {"none", "lost"}
      /\ bound' = Less(bound)
      /\ lapsed' = (lapsed \/ (bound > 0 /\ bound' = 0 /\ sipreg # 0 /\ client[sipreg].registered))
      /\ UNCHANGED <<sipreg, scode, misled, faults>>
  BY DEF TimePasses
<1>3. \A t \in Nat : Less(t) \in Nat  BY NumbersAssumption DEF Less
<1>4. ASSUME NEW j \in Clients
      PROVE  /\ client'[j] \in Client /\ client'[j].mem = client[j].mem
             /\ client'[j].terminated = client[j].terminated /\ Alike(client'[j], client[j])
             /\ client'[j].expires = client[j].expires /\ client'[j].req = client[j].req
             /\ client'[j].tmr = (IF Runs(j) THEN Less(client[j].tmr) ELSE client[j].tmr)
  <2>1. client[j] \in Client  BY DEF IInv, TypeOK
  <2>2. CASE Runs(j)
    <3>1. client[j].tmr \in Nat  BY <2>1, <2>2 DEF Client, NoTimer
    <3>2. Less(client[j].tmr) \in Nat  BY <1>3, <3>1
    <3>3. client'[j] = PutTmr(client[j], Less(client[j].tmr))  BY <1>1, <2>2
    <3> HIDE DEF Runs
    <3>4. LET t == PutTmr(client[j], Less(client[j].tmr))
          IN  /\ t \in Client /\ t.mem = client[j].mem /\ t.terminated = client[j].terminated
              /\ Alike(t, client[j])
              /\ t.expires = client[j].expires /\ t.req = client[j].req
              /\ t.tmr = Less(client[j].tmr)
      BY <2>1, <3>2, PutTmrFacts
    <3> QED  BY <2>2, <3>3, <3>4
  <2>3. CASE ~Runs(j)
    <3>1. client'[j] = client[j]  BY <1>1, <2>3
    <3> QED  BY <2>1, <2>3, <3>1 DEF Alike
  <2> QED  BY <2>2, <2>3
<1>5. client' \in [Clients -> Client]
  <2>1. client' = [j \in Clients |-> client'[j]]  BY <1>1
  <2> QED  BY <1>4, <2>1
<1>6. TypeOK'
  <2>1. bound' \in Nat  BY <1>2, <1>3 DEF IInv, TypeOK
  <2>2. lapsed' \in BOOLEAN  BY <1>2 DEF IInv, TypeOK
  <2> QED  BY <1>2, <1>5, <2>1, <2>2 DEF IInv, TypeOK
<1>7. ASSUME NEW j \in Clients PROVE Live(j)' => Waiting(client'[j])
  <2>1. ASSUME Live(j) PROVE Waiting(client'[j])
    <3>1. Waiting(client[j]) /\ client[j] \in Client  BY <2>1 DEF IInv, TypeOK
    <3>2. client'[j].tmr = NoTimer <=> client[j].tmr = NoTimer
      <4>1. CASE Runs(j)
        <5>1. client[j].tmr \in Nat /\ client[j].tmr # NoTimer  BY <3>1, <4>1 DEF Client, NoTimer
        <5>2. Less(client[j].tmr) # NoTimer  BY <1>3, <5>1 DEF NoTimer
        <5> QED  BY <1>4, <4>1, <5>1, <5>2
      <4>2. CASE ~Runs(j)  BY <1>4, <4>2
      <4> QED  BY <4>1, <4>2
    <3> HIDE DEF Runs
    <3> QED  BY <1>4, <3>1, <3>2 DEF Waiting, Pending
  <2> QED  BY <1>4, <2>1 DEF Live
<1>8. ASSUME NEW j \in Clients PROVE sipreg' = j <=> Live(j)' /\ ~client'[j].terminated
  <2> HIDE DEF Runs
  <2> QED  BY <1>2, <1>4 DEF IInv, Live
<1>9. scode' = "ok" => sipreg' # 0 /\ client'[sipreg'].registered
  <2> HIDE DEF Runs
  <2> QED  BY <1>2, <1>4 DEF IInv, TypeOK, Alike
<1>10. ASSUME faults' = 0 PROVE Faultless'
  <2>1. Faultless  BY <1>2, <1>10 DEF IInv
  <2>2. ASSUME NEW j \in Clients, Live(j)
        PROVE  client[j].req = "none" /\ sipreg = j /\ client[j].tmr \in Nat \ {0} /\ Runs(j)
    <3>1. Waiting(client[j]) /\ client[j] \in Client /\ Clean(client[j])
      BY <2>1, <2>2 DEF IInv, TypeOK, Faultless
    <3>2. client[j].req = "none"  BY <1>2, <2>2, <3>1 DEF Clean, Live
    <3>3. ~client[j].terminated /\ client[j].tmr # NoTimer  BY <3>1, <3>2 DEF Waiting, Pending
    <3>4. sipreg = j  BY <2>2, <3>3 DEF IInv
    <3>5. client[j].tmr \in Nat \ {0}  BY <1>2, <2>2, <3>1, <3>3 DEF Client
    <3> QED  BY <2>2, <3>2, <3>4, <3>5
  <2>3. ASSUME NEW j \in Clients
        PROVE  Clean(client'[j]) /\ (Keeps(client[j]) => Keeps(client'[j]))
    <3> HIDE DEF Runs
    <3>1. Clean(client[j])  BY <2>1 DEF Faultless
    <3> QED  BY <1>4, <3>1 DEF Clean, Keeps, Alike
  <2>4. \A j \in Clients \ {sipreg} : ~Keeps(client[j])  BY <2>2 DEF Keeps, Live
  <2>5. bound \in Nat /\ Tick \in Nat \ {0}  BY NumbersAssumption DEF IInv, TypeOK
  <2>6. bound' > 0 => bound > 0  BY <1>2, <2>5 DEF Less
  <2>7. ASSUME sipreg # 0, ~misled
        PROVE  /\ sipreg \in Clients /\ Live(sipreg) /\ InTime(client[sipreg], bound)
    BY <2>1, <2>4, <2>7 DEF IInv, TypeOK, Faultless
  <2>8. ASSUME ~misled PROVE ~lapsed'
    <3>1. ASSUME bound > 0, sipreg # 0, client[sipreg].registered PROVE bound' # 0
      <4> DEFINE t == client[sipreg].tmr
      <4>1. client[sipreg].req = "none" /\ t \in Nat \ {0}  BY <2>2, <2>7, <2>8, <3>1
      <4>2. bound >= t + Tick  BY <2>7, <2>8, <3>1, <4>1 DEF InTime
      <4> HIDE DEF t
      <4> QED  BY <1>2, <2>5, <4>1, <4>2 DEF Less
    <3> QED  BY <1>2, <2>1, <2>8, <3>1 DEF Faultless
  <2>9. ASSUME sipreg # 0, ~misled PROVE InTime(client'[sipreg], bound')
    <3> DEFINE t == client[sipreg].tmr
               r == client'[sipreg]
    <3>1. client[sipreg].req = "none" /\ t \in Nat \ {0} /\ Runs(sipreg)  BY <2>2, <2>7, <2>9
    <3>2. r.req = "none" /\ r.registered = client[sipreg].registered /\ r.tmr = Less(t)
      BY <1>4, <2>7, <2>9, <3>1 DEF Alike
    <3>3. CASE bound = 0  BY <1>2, <2>5, <3>3 DEF Less, InTime
    <3>4. CASE bound # 0 /\ ~r.registered  BY <3>2, <3>4 DEF InTime
    <3>5. CASE bound # 0 /\ r.registered
      <4>1. bound >= t + Tick  BY <2>7, <2>9, <3>1, <3>2, <3>5 DEF InTime
      <4> HIDE DEF t, r
      <4>2. Less(t) > 0 => bound' >= Less(t) + Tick  BY <1>2, <2>5, <3>1, <4>1 DEF Less
      <4> QED  BY <3>2, <4>2 DEF InTime, r
    <3> QED  BY <3>3, <3>4, <3>5
  <2>10. bound' > 0 => \E j \in Clients : Keeps(client'[j])
    BY <2>1, <2>3, <2>6 DEF Faultless
  <2> QED  BY <1>2, <2>3, <2>8, <2>9, <2>10 DEF Faultless
<1> QED  BY <1>6, <1>7, <1>8, <1>9, <1>10 DEF IInv

(***************************************************************************)
(* The user agent.                                                         *)
(***************************************************************************)
LEMMA DroppedFacts ==
  ASSUME IInv, NEW ok \in BOOLEAN, NEW j \in Clients
  PROVE  LET d == Dropped(ok)[j]
         IN  /\ d \in Client
             /\ d.mem = "live" => d.terminated /\ Waiting(d)
             /\ client[j].mem = "none" => d.mem = "none"
             /\ faults = 0 /\ ok => Clean(d) /\ (Keeps(client[j]) => Keeps(d))
<1>1. client \in [Clients -> Client] /\ client[j] \in Client  BY DEF IInv, TypeOK
<1>2. CASE sipreg = j
  <2> DEFINE d == Destroy(client[j], ok)
  <2>1. client[j].mem = "live" /\ ~client[j].terminated  BY <1>2 DEF IInv, Live
  <2>2. sipreg # 0  BY <1>2, ClientsAssumption
  <2>3. Dropped(ok)[j] = d  BY <1>1, <1>2, <2>2 DEF Dropped
  <2>4. /\ Gone(d) \/ LetGo(d)
        /\ ok /\ Clean(client[j]) => Clean(d) /\ (Keeps(client[j]) => Keeps(d))
    BY <1>1, <2>1, DestroyFacts
  <2> HIDE DEF d
  <2>5. d \in Client /\ (d.mem = "live" => d.terminated /\ Waiting(d))
    BY <2>4 DEF Gone, LetGo, Waiting
  <2>6. faults = 0 => Clean(client[j])  BY DEF IInv, Faultless
  <2> QED  BY <2>1, <2>3, <2>4, <2>5, <2>6
<1>3. CASE sipreg # j
  <2>1. Dropped(ok)[j] = client[j]  BY <1>1, <1>3 DEF Dropped
  <2>2. Live(j) => client[j].terminated /\ Waiting(client[j])  BY <1>3 DEF IInv
  <2>3. faults = 0 => Clean(client[j])  BY DEF IInv, Faultless
  <2> QED  BY <1>1, <2>1, <2>2, <2>3 DEF Live
<1> QED  BY <1>2, <1>3

LEMMA UnregisterIInv ==
  ASSUME IInv, NEW ok, Unregister(ok)
  PROVE  IInv'
<1>1. /\ Sends(ok) /\ client' = Dropped(ok) /\ sipreg' = 0 /\ scode' = "none"
      /\ UNCHANGED <<bound, lapsed, misled>>
  BY DEF Unregister
<1>2. ok \in BOOLEAN /\ faults' \in 0..MaxFaults /\ (faults' = 0 => faults = 0 /\ ok)
  BY <1>1, SendsFacts
<1>3. ASSUME NEW j \in Clients
      PROVE  /\ client'[j] \in Client
             /\ client'[j].mem = "live" => client'[j].terminated /\ Waiting(client'[j])
             /\ faults = 0 /\ ok => Clean(client'[j]) /\ (Keeps(client[j]) => Keeps(client'[j]))
  BY <1>1, <1>2, DroppedFacts
<1>4. client' \in [Clients -> Client]
  <2>1. client' = [j \in Clients |-> client'[j]]  BY <1>1 DEF Dropped, IInv, TypeOK
  <2> QED  BY <1>3, <2>1
<1>5. TypeOK'  BY <1>1, <1>2, <1>4 DEF IInv, TypeOK
<1>6. ASSUME NEW j \in Clients PROVE sipreg' = j <=> Live(j)' /\ ~client'[j].terminated
  BY <1>1, <1>3, ClientsAssumption DEF Live
<1>7. faults' = 0 => Faultless'  BY <1>1, <1>2, <1>3 DEF IInv, Faultless
<1> QED  BY <1>1, <1>3, <1>5, <1>6, <1>7 DEF IInv, Live

LEMMA RegisterIInv ==
  ASSUME IInv, NEW i \in Clients, NEW ok \in BOOLEAN, NEW first, Register(i, ok, first)
  PROVE  IInv'
<1> DEFINE new == [Unused EXCEPT !.mem = "live", !.expires = Interval]
           s == Request(new, TRUE, TRUE)
           f == Freed
           r == IF first THEN s ELSE f
<1>1. /\ client[i].mem = "none" /\ first \in BOOLEAN /\ Sends(ok /\ first)
      /\ client' = [Dropped(ok) EXCEPT ![i] = r]
      /\ sipreg' = (IF first THEN i ELSE 0) /\ scode' = "none"
      /\ UNCHANGED <<bound, lapsed, misled>>
  BY DEF Register
<1>2. faults' \in 0..MaxFaults /\ (faults' = 0 => faults = 0 /\ ok /\ first)
  BY <1>1, NumbersAssumption DEF IInv, TypeOK, Sends
<1>3. /\ new \in Client /\ new.mem = "live" /\ ~new.terminated /\ ~new.registered
      /\ new.expires = Interval /\ new.tmr = NoTimer
  BY UnusedFacts, SecondsAssumption DEF Client
<1> HIDE DEF new
<1>4. /\ s \in Client /\ s.mem = new.mem /\ s.terminated = new.terminated /\ Alike(s, new)
      /\ s.expires = (IF new.terminated THEN 0 ELSE new.expires)
      /\ s.req = "sent" /\ s.tmr = new.tmr
  <2>1. /\ s \in Client /\ s.mem = new.mem /\ s.terminated = new.terminated /\ Alike(s, new)
        /\ s.expires = (IF new.terminated THEN 0 ELSE new.expires)
        /\ (TRUE => s.req = "sent") /\ (~TRUE => s.req = "none") /\ s.tmr = new.tmr
    BY <1>3, RequestFacts
  <2> HIDE DEF s
  <2> QED  BY <2>1
<1> HIDE DEF s
<1>5. f \in Client /\ f.mem = "freed"  BY FreedFacts
<1> HIDE DEF f
<1>6. Waiting(s)  BY <1>3, <1>4, SecondsAssumption DEF Waiting, Pending
<1>7. /\ r \in Client /\ (r.mem = "live" <=> first) /\ (r.mem = "live" => Waiting(r))
      /\ ~(first /\ r.terminated) /\ Clean(r) /\ (first => r.req = "sent")
  <2>1. CASE first
    <3>1. Clean(s)  BY <1>3, <1>4 DEF Clean, Alike
    <3> QED  BY <1>3, <1>4, <1>6, <2>1, <3>1
  <2>2. CASE ~first  BY <1>5, <2>2 DEF Clean
  <2> QED  BY <2>1, <2>2
<1> HIDE DEF r
<1>8. ASSUME NEW j \in Clients
      PROVE  LET d == Dropped(ok)[j]
             IN  /\ d \in Client
                 /\ d.mem = "live" => d.terminated /\ Waiting(d)
                 /\ client[j].mem = "none" => d.mem = "none"
                 /\ faults = 0 /\ ok => Clean(d) /\ (Keeps(client[j]) => Keeps(d))
  BY DroppedFacts
<1>9. client'[i] = r /\ \A j \in Clients : j # i => client'[j] = Dropped(ok)[j]
  BY <1>1 DEF Dropped, IInv, TypeOK
<1>10. client' \in [Clients -> Client]
  <2>1. client' = [j \in Clients |-> client'[j]]  BY <1>1 DEF Dropped, IInv, TypeOK
  <2> QED  BY <1>7, <1>8, <1>9, <2>1
<1>11. TypeOK'  BY <1>1, <1>2, <1>10 DEF IInv, TypeOK
<1>12. ASSUME NEW j \in Clients PROVE Live(j)' => Waiting(client'[j])
  BY <1>7, <1>8, <1>9 DEF Live
<1>13. ASSUME NEW j \in Clients PROVE sipreg' = j <=> Live(j)' /\ ~client'[j].terminated
  BY <1>1, <1>7, <1>8, <1>9, ClientsAssumption DEF Live
<1>14. ASSUME faults' = 0 PROVE Faultless'
  <2>1. Faultless /\ faults = 0 /\ ok /\ first  BY <1>2, <1>14 DEF IInv
  <2>2. ASSUME NEW j \in Clients
        PROVE  Clean(client'[j]) /\ (Keeps(client[j]) => Keeps(client'[j]))
    <3>1. CASE j = i  BY <1>1, <1>7, <1>9, <3>1 DEF Keeps
    <3>2. CASE j # i  BY <1>8, <1>9, <2>1, <3>2
    <3> QED  BY <3>1, <3>2
  <2>3. InTime(client'[sipreg'], bound')  BY <1>1, <1>7, <1>9, <2>1 DEF InTime
  <2> QED  BY <1>1, <2>1, <2>2, <2>3 DEF Faultless
<1> QED  BY <1>1, <1>11, <1>12, <1>13, <1>14 DEF IInv

(***************************************************************************)
(* Every step.                                                             *)
(***************************************************************************)
LEMMA InitIInv ==
  ASSUME Init
  PROVE  IInv
<1>1. \A i \in Clients : client[i] = Unused  BY DEF Init
<1>2. TypeOK
  <2>1. client \in [Clients -> Client]
    BY UnusedFacts DEF Init
  <2>2. 0 \in 0..MaxFaults  BY NumbersAssumption
  <2> QED  BY <2>1, <2>2 DEF Init, TypeOK
<1>3. \A i \in Clients : ~Live(i) /\ Clean(client[i])  BY <1>1, UnusedFacts DEF Live, Clean
<1>4. \A i \in Clients : sipreg # i  BY ClientsAssumption DEF Init
<1>5. Faultless  BY <1>3 DEF Init, Faultless
<1> QED  BY <1>2, <1>3, <1>4, <1>5 DEF Init, IInv

LEMMA StepIInv ==
  ASSUME IInv, [Next]_vars
  PROVE  IInv'
<1>1. CASE UNCHANGED vars
  <2>1. UNCHANGED <<client, sipreg, scode, bound, lapsed, misled, faults>>  BY <1>1 DEF vars
  <2> QED  BY <2>1 DEF IInv, TypeOK, Live, Faultless, Waiting, Clean, Keeps, InTime, Pending
<1>2. ASSUME NEW i \in Clients, Handles(i) PROVE IInv'
  BY <1>2, RefreshIInv, FailsIInv, RefusedIInv, RetriesIInv, AcceptedIInv DEF Handles
<1>3. ASSUME NEW i \in Clients, Serves(i) PROVE IInv'
  BY <1>3, ChallengesIInv, Grants2xxIInv DEF Serves
<1>4. ASSUME NEW i \in Clients, NEW ok \in BOOLEAN, NEW first, Register(i, ok, first) PROVE IInv'
  BY <1>4, RegisterIInv
<1>5. ASSUME NEW i \in Clients, NEW wait \in FailWaits(client[i].failc + 1), FlowFails(i, wait)
      PROVE  IInv'
  BY <1>5, FlowFailsIInv
<1>6. ASSUME NEW i \in Clients, NEW answer, Denies(i, answer) PROVE IInv'  BY <1>6, DeniesIInv
<1>7. ASSUME NEW i \in Clients, Lose(i) PROVE IInv'  BY <1>7, LoseIInv
<1>8. ASSUME NEW ok, Unregister(ok) PROVE IInv'  BY <1>8, UnregisterIInv
<1>9. CASE TimePasses  BY <1>9, TimePassesIInv
<1> QED  BY <1>1, <1>2, <1>3, <1>4, <1>5, <1>6, <1>7, <1>8, <1>9 DEF Next

\* The invariant the others follow from: what a client that is alive waits for, and,
\* until something fails, who holds the binding and when it is refreshed
\* (re/src/sipreg/reg.c, baresip/src/reg.c).
THEOREM Invariance == Spec => []IInv
<1>1. Init => IInv  BY InitIInv
<1>2. IInv /\ [Next]_vars => IInv'  BY StepIInv
<1> QED  BY <1>1, <1>2, PTL DEF Spec

\* Types of the clients and of the user agent's view of them.
THEOREM TypeCorrect == Spec => []TypeOK
<1>1. IInv => TypeOK  BY DEF IInv
<1> QED  BY <1>1, Invariance, PTL

\* A client that is alive waits for exactly one thing, a request or the timer of the
\* next, and one that was let go for a request: none is stuck and none leaks
\* (re/src/sipreg/reg.c:101-251).
THEOREM AlwaysAttended == Spec => []Attended
<1>1. IInv => Attended  BY DEF IInv, Attended, Waiting
<1> QED  BY <1>1, Invariance, PTL

\* "registered" is the state of the client in use, never of an older one
\* (baresip/src/reg.c:109-162).
THEOREM StatusIsTrue == Spec => []StatusTrue
<1>1. IInv => StatusTrue  BY ClientsAssumption DEF IInv, TypeOK, StatusTrue
<1> QED  BY <1>1, Invariance, PTL

\* Whatever the registrar grants, the binding is refreshed before it runs out, as long as
\* no request is lost, refused or fails to be sent, and no 2xx grants less than the client
\* reads from it: the interval of its own Contact, 3600 s if that has none, the interval
\* it asked for if it does not find itself (re/src/sipreg/reg.c:142-192).
THEOREM AlwaysRefreshed == Spec => []RefreshedInTime
<1>1. IInv => RefreshedInTime
  BY NumbersAssumption DEF IInv, TypeOK, Faultless, RefreshedInTime
<1> QED  BY <1>1, Invariance, PTL

\* Without failures, the clients that are gone leave no binding behind
\* (re/src/sipreg/reg.c:62-91, 239-246).
THEOREM AllUnbound == Spec => []Unbound
<1>1. IInv => Unbound  BY DEF IInv, TypeOK, Faultless, Unbound, Keeps, Live
<1> QED  BY <1>1, Invariance, PTL
=============================================================================
