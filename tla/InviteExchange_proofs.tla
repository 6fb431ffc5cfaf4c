----------------------- MODULE InviteExchange_proofs -----------------------
(***************************************************************************)
(* Proofs about InviteExchange: its safety for any number of responses     *)
(* that cannot be sent.                                                    *)
(***************************************************************************)
EXTENDS InviteExchange, TLAPS

Heard(what) == Contains(told, what)

\* What the messages under way and the memory of the caller say of the past.
CallerInv ==
  /\ Active => \A f \in Finals : ~Heard(f)
  /\ ~Active => Over
  /\ \A i \in DOMAIN told : told[i] \in Finals => i = Len(told)
  /\ ct = "calling" => tmr = "on" /\ "provrecv" \notin flags
  /\ ct = "proceeding" => "provrecv" \in flags
  /\ CancelHasDeadline
  /\ ct = "completed" => Heard("refused")
  /\ cancelct # "none" => "canceled" \in flags
  /\ ack = "kept" => peer # 0

Answered == {"answered", "confirmed", "unacked"}
Ended == {"refused", "cancelled"}

NetInv ==
  /\ \A i \in Lives :
       /\ Ok(i) \in net => uas[i] \in Answered
       /\ AckOk(i) \in net => peer = i
  /\ "fail" \in net => \E i \in Lives : uas[i] \in Ended
  /\ "ACK" \in net => Heard("refused")
  /\ "CANCEL" \in net => "canceled" \in flags

\* The server transaction forgets a session only when no INVITE can come again, or, once,
\* when the copy that is left is the caller's last.
CalleeInv ==
  /\ st = "none" /\ uas[life] # "idle" => ct # "calling" /\ "INVITE" \notin net
  /\ st = "proceeding" <=> uas[life] = "ringing"
  /\ st = "accepted" => uas[life] \in Answered
  /\ st \in {"completed", "confirmed"} => uas[life] \in Ended
  /\ uas[life] = "idle" => offered < life + failed
  /\ life = 1 => uas[2] = "idle"
  /\ life = 2 => uas[1] \in Answered \cup Ended

IInv == TypeOK /\ CallerInv /\ NetInv /\ CalleeInv /\ Agreement /\ RingsOnce

What == {"progress"} \cup Finals
ToldOf(s, what) ==
  IF what = "progress" /\ s # <<>> /\ Last(s) = "progress" THEN s ELSE Append(s, what)

LEMMA ToldFacts ==
  ASSUME NEW s \in Seq(What), NEW what \in What,
         \A f \in Finals : ~Contains(s, f)
  PROVE  /\ ToldOf(s, what) \in Seq(What)
         /\ \A f \in Finals : Contains(ToldOf(s, what), f) <=> f = what
         /\ \A i \in DOMAIN ToldOf(s, what) :
              ToldOf(s, what)[i] \in Finals => i = Len(ToldOf(s, what))
<1> DEFINE t == Append(s, what)
<1>1. /\ t \in Seq(What) /\ Len(t) = Len(s) + 1 /\ t[Len(s) + 1] = what
      /\ DOMAIN t = 1..(Len(s) + 1) /\ \A i \in 1..Len(s) : t[i] = s[i]
  OBVIOUS
<1>2. /\ DOMAIN s = 1..Len(s) /\ Len(s) \in Nat
      /\ \A i \in 1..Len(s) : s[i] \in What
  OBVIOUS
<1>3. \A i \in 1..Len(s) : s[i] \notin Finals
  BY <1>2 DEF Contains
<1>4. CASE what = "progress" /\ s # <<>> /\ Last(s) = "progress"
  <2>1. ToldOf(s, what) = s
    BY <1>4 DEF ToldOf
  <2>2. what \notin Finals
    BY <1>4 DEF Finals
  <2> QED BY <2>1, <2>2, <1>3, <1>2
<1>5. CASE ~(what = "progress" /\ s # <<>> /\ Last(s) = "progress")
  <2>1. ToldOf(s, what) = t
    BY <1>5 DEF ToldOf
  <2>2. \A f \in Finals : Contains(t, f) <=> f = what
    BY <1>1, <1>2, <1>3 DEF Contains
  <2>3. \A i \in DOMAIN t : t[i] \in Finals => i = Len(t)
    BY <1>1, <1>2, <1>3
  <2> QED BY <2>1, <2>2, <2>3, <1>1
<1> QED BY <1>4, <1>5


-----------------------------------------------------------------------------
LEMMA InitInvariant == Init => IInv
<1> SUFFICES ASSUME Init PROVE IInv
  OBVIOUS
<1>1. told = <<>> /\ told \in Seq(What) /\ \A f \in Finals : ~Contains(told, f)
  BY DEF Init, What, Contains
<1> QED
  BY <1>1, MaxFailedAssumption
  DEF Init, IInv, TypeOK, CallerInv, NetInv, CalleeInv, Agreement, RingsOnce, CancelHasDeadline,
      Heard, Active, Over, Finals, Requests, Responses, Lives, Ok, AckOk

LEMMA TellFacts ==
  ASSUME IInv, Active, NEW what \in What, Tell(what)
  PROVE  /\ told' \in Seq({"progress"} \cup Finals)
         /\ \A f \in Finals : Contains(told, f)' <=> f = what
         /\ \A i \in DOMAIN told' : told'[i] \in Finals => i = Len(told')
<1>1. told \in Seq(What) /\ \A f \in Finals : ~Contains(told, f)
  BY DEF IInv, TypeOK, CallerInv, Heard, What
<1>2. told' = ToldOf(told, what)
  BY DEF Tell, ToldOf
<1> QED
  BY <1>1, <1>2, ToldFacts DEF What

\* A step that only sends, repeats or loses messages: what it leaves under way has
\* to be true of the past, and an INVITE may come only from a caller that waits.
LEMMA OnlyMessages ==
  ASSUME IInv, UNCHANGED <<client, server>>,
         net' \subseteq Requests \cup Responses, NetInv',
         "INVITE" \in net' => "INVITE" \in net \/ ct = "calling"
  PROVE  IInv'
<1>1. /\ ct' = ct /\ tmr' = tmr /\ flags' = flags /\ told' = told
      /\ cancelct' = cancelct /\ ack' = ack /\ peer' = peer
      /\ st' = st /\ life' = life /\ uas' = uas /\ offered' = offered /\ failed' = failed
  BY DEF client, server
<1>2. TypeOK'
  BY <1>1 DEF IInv, TypeOK
<1>3. CallerInv'
  BY <1>1 DEF IInv, CallerInv, CancelHasDeadline, Heard, Active, Over
<1>4. CalleeInv'
  BY <1>1 DEF IInv, CalleeInv
<1>5. Agreement'
  BY <1>1 DEF IInv, Agreement
<1>6. RingsOnce'
  BY <1>1 DEF IInv, RingsOnce
<1> QED
  BY <1>2, <1>3, <1>4, <1>5, <1>6 DEF IInv

\* The end of the CANCEL transaction, and the memory of the ACK that is dropped, matter to
\* nothing else.
LEMMA OnlyMemory ==
  ASSUME IInv, UNCHANGED <<ct, tmr, flags, told, peer, server, net>>,
         cancelct' \in {"none", "trying", "completed", "gone"},
         ack' \in {"none", "kept"},
         cancelct' # "none" => cancelct # "none",
         ack' = "kept" => ack = "kept"
  PROVE  IInv'
<1>1. /\ ct' = ct /\ tmr' = tmr /\ flags' = flags /\ told' = told /\ peer' = peer
      /\ net' = net
      /\ st' = st /\ life' = life /\ uas' = uas /\ offered' = offered /\ failed' = failed
  BY DEF server
<1>2. TypeOK'
  BY <1>1 DEF IInv, TypeOK
<1>3. CallerInv'
  BY <1>1 DEF IInv, CallerInv, CancelHasDeadline, Heard, Active, Over
<1>4. NetInv'
  BY <1>1 DEF IInv, NetInv, Heard
<1>5. CalleeInv'
  BY <1>1 DEF IInv, CalleeInv
<1>6. Agreement'
  BY <1>1 DEF IInv, Agreement
<1>7. RingsOnce'
  BY <1>1 DEF IInv, RingsOnce
<1> QED
  BY <1>2, <1>3, <1>4, <1>5, <1>6, <1>7 DEF IInv

LEMMA TwoLives == Lives = {1, 2}
<1> SUFFICES ASSUME NEW i PROVE i \in 1..2 <=> i = 1 \/ i = 2
  BY DEF Lives
<1> QED
  OBVIOUS

\* The messages are different ones.
LEMMA Names ==
  ASSUME NEW i \in Lives, NEW j \in Lives
  PROVE  /\ Ok(i) \in Responses \ {"1xx", "fail", "CANCEL answered"}
         /\ AckOk(i) \in Requests \ {"INVITE", "CANCEL", "ACK"}
         /\ Ok(i) \notin Requests /\ AckOk(i) \notin Responses
         /\ (Ok(i) = Ok(j) <=> i = j) /\ (AckOk(i) = AckOk(j) <=> i = j)
<1>1. (i = 1 \/ i = 2) /\ (j = 1 \/ j = 2)
  BY DEF Lives
<1>2. /\ Ok(1) = "2xx" /\ Ok(2) = "second 2xx"
      /\ AckOk(1) = "ACK of 2xx" /\ AckOk(2) = "ACK of second 2xx"
  BY DEF Ok, AckOk
<1>3. /\ Requests = {"INVITE", "CANCEL", "ACK", "ACK of 2xx", "ACK of second 2xx"}
      /\ Responses = {"1xx", "2xx", "second 2xx", "fail", "CANCEL answered"}
  BY ONLY <1>2 DEF Requests, Responses
<1> QED
  BY ONLY <1>1, <1>2, <1>3

\* The caller takes a 2xx, and the dialog with the session that sent it.
LEMMA SuccessStep ==
  ASSUME IInv, NEW i \in Lives, Success(i)
  PROVE  IInv'
<1>1. /\ told' \in Seq({"progress"} \cup Finals)
      /\ \A g \in Finals : Contains(told, g)' <=> g = "ok"
      /\ \A k \in DOMAIN told' : told'[k] \in Finals => k = Len(told')
  BY TellFacts DEF Success, What, Finals
<1>2. /\ uas' = uas /\ st' = st /\ life' = life /\ offered' = offered /\ failed' = failed
      /\ ct' = "gone" /\ tmr' = "off" /\ flags' = flags /\ cancelct' = cancelct
      /\ peer' = i
  BY DEF Success, server
<1>3. /\ ack' \in {"none", "kept"} /\ i # 0
      /\ net \subseteq net' /\ net' \subseteq net \cup {AckOk(i)}
  BY DEF Success, Send, IInv, TypeOK, Lives
<1>4. /\ uas[i] \in Answered /\ peer = 0 /\ "ACK" \notin net
      /\ st # "confirmed"
      /\ \A j \in Lives : AckOk(j) \notin net /\ uas[j] # "confirmed"
  <2>1. uas[i] \in Answered /\ Active /\ ~Heard("ok") /\ ~Heard("refused")
    BY DEF Success, Arrives, IInv, NetInv, CallerInv, Finals
  <2>2. peer = 0
    BY <2>1 DEF IInv, Agreement, Heard
  <2> QED
    BY <2>1, <2>2, <1>3 DEF IInv, NetInv, Agreement, Heard, Lives
<1>5. TypeOK'
  <2>1. net \subseteq Requests \cup Responses /\ AckOk(i) \in Requests
    BY Names DEF IInv, TypeOK
  <2>2. net' \subseteq Requests \cup Responses
    BY ONLY <1>3, <2>1
  <2> QED
    BY <1>1, <1>2, <1>3, <2>2 DEF IInv, TypeOK
<1>6. CallerInv'
  BY <1>1, <1>2, <1>3 DEF IInv, CallerInv, CancelHasDeadline, Heard, Active, Over, Finals
<1>7. NetInv'
  <2>1. \A j \in Lives : Ok(j) \in net' => Ok(j) \in net
    <3>1. \A j \in Lives : Ok(j) \notin Requests /\ AckOk(i) \in Requests
      BY Names
    <3> QED
      BY ONLY <1>3, <3>1
  <2>2. \A j \in Lives : AckOk(j) \in net' => i = j
    BY <1>3, <1>4, Names
  <2>3. \A m \in {"fail", "ACK", "CANCEL"} : m \in net' => m \in net
    BY <1>3, Names DEF Requests, Responses
  <2> QED
    BY <1>2, <1>4, <2>1, <2>2, <2>3 DEF IInv, NetInv
<1>8. CalleeInv'
  <2>1. "INVITE" \in net' => "INVITE" \in net
    BY <1>3, Names
  <2> QED
    BY <1>2, <2>1 DEF IInv, CalleeInv
<1>9. Agreement'
  <2>1. Contains(told, "ok")' /\ ~Contains(told, "refused")'
    BY <1>1 DEF Finals
  <2>2. \A j \in Lives : uas[j] = "cancelled" => "canceled" \in flags
    BY DEF IInv, Agreement
  <2> QED
    BY <1>2, <1>3, <1>4, <2>1, <2>2 DEF Agreement, Answered
<1>10. RingsOnce'
  BY <1>2 DEF IInv, RingsOnce
<1> QED
  BY <1>5, <1>6, <1>7, <1>8, <1>9, <1>10 DEF IInv

\* The 2xx again, and its ACK again.
LEMMA AgainStep ==
  ASSUME IInv, NEW i \in Lives, SuccessAgain(i)
  PROVE  IInv'
<1>1. UNCHANGED <<client, server>> /\ net' = net \cup {AckOk(i)} /\ peer = i
  BY DEF SuccessAgain, Send
<1>2. net' \subseteq Requests \cup Responses /\ ("INVITE" \in net' => "INVITE" \in net)
  <2>1. AckOk(i) \in Requests /\ AckOk(i) # "INVITE"
    BY Names
  <2>2. net \subseteq Requests \cup Responses
    BY DEF IInv, TypeOK
  <2> QED
    BY ONLY <1>1, <2>1, <2>2
<1>3. NetInv'
  <2>1. \A j \in Lives : Ok(j) \in net' => Ok(j) \in net
    <3>1. \A j \in Lives : Ok(j) \notin Requests /\ AckOk(i) \in Requests
      BY Names
    <3> QED
      BY ONLY <1>1, <3>1
  <2>2. \A j \in Lives : AckOk(j) \in net' => AckOk(j) \in net \/ i = j
    BY <1>1, Names
  <2>3. \A m \in {"fail", "ACK", "CANCEL"} : m \in net' => m \in net
    BY <1>1, Names DEF Requests, Responses
  <2> QED
    BY <1>1, <2>1, <2>2, <2>3 DEF IInv, NetInv, Heard, client, server
<1> QED
  BY <1>1, <1>2, <1>3, OnlyMessages

\* The caller's steps keep the invariant.
LEMMA CallerStep ==
  ASSUME IInv, Caller
  PROVE  IInv'
<1> USE MaxFailedAssumption
    DEF IInv, TypeOK, CallerInv, NetInv, CalleeInv, Agreement, RingsOnce, CancelHasDeadline,
        Heard, Active, Over, client, server, Send, Arrives, Requests, Responses, Finals,
        Lives, Ok, AckOk
<1>1. CASE Retransmit /\ Tell("error") /\ ct' = "gone"
  <2>a. /\ told' \in Seq({"progress"} \cup Finals)
        /\ \A g \in Finals : Contains(told, g)' <=> g = "error"
        /\ \A i \in DOMAIN told' : told'[i] \in Finals => i = Len(told')
    BY <1>1, TellFacts DEF Retransmit, What
  <2>1. TypeOK'
    BY <1>1, <2>a DEF Retransmit
  <2>2. CallerInv'
    BY <1>1, <2>a DEF Retransmit
  <2>3. NetInv'
    BY <1>1, <2>a DEF Retransmit
  <2>4. CalleeInv'
    BY <1>1, <2>a DEF Retransmit
  <2>5. Agreement'
    BY <1>1, <2>a DEF Retransmit
  <2>6. RingsOnce'
    BY <1>1, <2>a DEF Retransmit
  <2> QED
    BY <2>1, <2>2, <2>3, <2>4, <2>5, <2>6
<1>2. CASE Retransmit /\ UNCHANGED client
  <2>1. NetInv' /\ net' \subseteq Requests \cup Responses /\ UNCHANGED <<client, server>>
    BY <1>2 DEF Retransmit
  <2> QED
    BY <1>2, <2>1, OnlyMessages DEF Retransmit
<1>3. CASE ClientTimeout /\ Active
  <2>a. /\ told' \in Seq({"progress"} \cup Finals)
        /\ \A g \in Finals : Contains(told, g)' <=> g = "error"
        /\ \A i \in DOMAIN told' : told'[i] \in Finals => i = Len(told')
    BY <1>3, TellFacts DEF ClientTimeout, What
  <2>1. TypeOK'
    BY <1>3, <2>a DEF ClientTimeout
  <2>2. CallerInv'
    BY <1>3, <2>a DEF ClientTimeout
  <2>3. NetInv'
    BY <1>3, <2>a DEF ClientTimeout
  <2>4. CalleeInv'
    BY <1>3, <2>a DEF ClientTimeout
  <2>5. Agreement'
    BY <1>3, <2>a DEF ClientTimeout
  <2>6. RingsOnce'
    BY <1>3, <2>a DEF ClientTimeout
  <2> QED
    BY <2>1, <2>2, <2>3, <2>4, <2>5, <2>6
<1>4. CASE ClientTimeout /\ ~Active
  <2>1. TypeOK'
    BY <1>4 DEF ClientTimeout
  <2>2. CallerInv'
    BY <1>4 DEF ClientTimeout
  <2>3. NetInv'
    BY <1>4 DEF ClientTimeout
  <2>4. CalleeInv'
    BY <1>4 DEF ClientTimeout
  <2>5. Agreement'
    BY <1>4 DEF ClientTimeout
  <2>6. RingsOnce'
    BY <1>4 DEF ClientTimeout
  <2> QED
    BY <2>1, <2>2, <2>3, <2>4, <2>5, <2>6
<1>5. CASE RequestCancel
  <2>b. /\ net' = net \/ net' = net \cup {"CANCEL"}
        /\ uas' = uas /\ st' = st /\ life' = life
        /\ offered' = offered /\ failed' = failed /\ peer' = peer
        /\ ct' = ct /\ told' = told /\ "canceled" \in flags'
    BY <1>5 DEF RequestCancel, SendCancel
  <2>1. TypeOK'
    BY <1>5 DEF RequestCancel, SendCancel
  <2>2. CallerInv'
    BY <1>5 DEF RequestCancel, SendCancel
  <2>3. NetInv'
    BY <2>b
  <2>4. CalleeInv'
    BY <2>b
  <2>5. Agreement'
    BY <1>5 DEF RequestCancel, SendCancel
  <2>6. RingsOnce'
    BY <1>5 DEF RequestCancel, SendCancel
  <2> QED
    BY <2>1, <2>2, <2>3, <2>4, <2>5, <2>6
<1>6. CASE Provisional
  <2>a. /\ told' \in Seq({"progress"} \cup Finals)
        /\ \A g \in Finals : Contains(told, g)' <=> g = "progress"
        /\ \A i \in DOMAIN told' : told'[i] \in Finals => i = Len(told')
    BY <1>6, TellFacts DEF Provisional, SendCancel, What
  <2>b. /\ net' = net \/ net' = net \cup {"CANCEL"}
        /\ uas' = uas /\ st' = st /\ life' = life
        /\ offered' = offered /\ failed' = failed /\ peer' = peer
        /\ flags \subseteq flags' /\ ct' = "proceeding"
        /\ (net' # net => "canceled" \in flags)
    BY <1>6 DEF Provisional, SendCancel
  <2>c. "ACK" \notin net /\ peer = 0
    BY <1>6 DEF Provisional
  <2>1. TypeOK'
    BY <1>6, <2>a DEF Provisional, SendCancel
  <2>d. /\ Active /\ Active' /\ "provrecv" \in flags' /\ ack' = ack
        /\ cancelct' # "none" => cancelct # "none" \/ "canceled" \in flags
    BY <1>6 DEF Provisional, SendCancel
  <2>e. CancelHasDeadline'
    <3>1. CASE flags = {"canceled"}
      BY ONLY <1>6, <3>1 DEF Provisional, SendCancel, CancelHasDeadline
    <3>2. CASE flags # {"canceled"}
      <4>1. "canceled" \in flags => "provrecv" \in flags
        BY ONLY <3>2, IInv DEF IInv, TypeOK
      <4>2. "canceled" \in flags => ct # "calling" /\ tmr = "on"
        BY ONLY <1>6, <4>1, IInv DEF Provisional, IInv, CallerInv, CancelHasDeadline
      <4>3. "canceled" \in flags' => "canceled" \in flags
        BY ONLY <1>6 DEF Provisional
      <4> QED
        BY ONLY <1>6, <3>2, <4>2, <4>3 DEF Provisional, CancelHasDeadline
    <3> QED
      BY ONLY <3>1, <3>2
  <2>f. ack # "kept"
    BY <2>d
  <2>2. CallerInv'
    BY <2>a, <2>b, <2>d, <2>e, <2>f
  <2>3. NetInv'
    BY <2>b, <2>c
  <2>4. CalleeInv'
    BY <2>a, <2>b
  <2>5. Agreement'
    BY <1>6, <2>a DEF Provisional, SendCancel
  <2>6. RingsOnce'
    BY <1>6, <2>a DEF Provisional, SendCancel
  <2> QED
    BY <2>1, <2>2, <2>3, <2>4, <2>5, <2>6
<1>7. CASE \E i \in Lives : Success(i)
  BY ONLY IInv, <1>7, SuccessStep
<1>8. CASE Failure /\ Active
  <2>a. /\ told' \in Seq({"progress"} \cup Finals)
        /\ \A g \in Finals : Contains(told, g)' <=> g = "refused"
        /\ \A i \in DOMAIN told' : told'[i] \in Finals => i = Len(told')
    BY <1>8, TellFacts DEF Failure, What
  <2>1. TypeOK'
    BY <1>8, <2>a DEF Failure
  <2>2. CallerInv'
    BY <1>8, <2>a DEF Failure
  <2>3. NetInv'
    BY <1>8, <2>a DEF Failure
  <2>4. CalleeInv'
    BY <1>8, <2>a DEF Failure
  <2>b. \E i \in Lives : uas[i] \in Ended
    BY ONLY IInv, <1>8 DEF Failure, Arrives, IInv, NetInv
  <2>c. ~Heard("ok")
    BY <1>8
  <2>5. Agreement'
    BY <1>8, <2>a, <2>b, <2>c DEF Failure, Ended
  <2>6. RingsOnce'
    BY <1>8, <2>a DEF Failure
  <2> QED
    BY <2>1, <2>2, <2>3, <2>4, <2>5, <2>6
<1>9. CASE Failure /\ ~Active
  <2>1. TypeOK'
    BY <1>9 DEF Failure
  <2>2. CallerInv'
    BY <1>9 DEF Failure
  <2>3. NetInv'
    BY <1>9 DEF Failure
  <2>4. CalleeInv'
    BY <1>9 DEF Failure
  <2>5. Agreement'
    BY <1>9 DEF Failure
  <2>6. RingsOnce'
    BY <1>9 DEF Failure
  <2> QED
    BY <2>1, <2>2, <2>3, <2>4, <2>5, <2>6
<1>10. CASE \E i \in Lives : SuccessAgain(i)
  BY ONLY IInv, <1>10, AgainStep
<1>11. CASE CancelRetransmit
  <2>1. CASE UNCHANGED client
    <3>1. NetInv' /\ net' \subseteq Requests \cup Responses /\ UNCHANGED <<client, server>>
      BY <1>11, <2>1 DEF CancelRetransmit
    <3>2. net' = net \cup {"CANCEL"} \/ net' = net
      BY ONLY <1>11, <2>1 DEF CancelRetransmit, Send
    <3>3. "INVITE" \in net' => "INVITE" \in net
      BY ONLY <3>2
    <3> QED
      BY ONLY IInv, <3>1, <3>3, OnlyMessages
  <2>2. CASE cancelct' = "gone" /\ UNCHANGED <<ct, tmr, flags, told, ack, peer, net>>
    <3>1. /\ UNCHANGED <<ct, tmr, flags, told, peer, server, net>>
          /\ cancelct = "trying" /\ cancelct' = "gone" /\ ack' = ack
      BY ONLY <1>11, <2>2 DEF CancelRetransmit
    <3>2. ack' \in {"none", "kept"}
      BY ONLY IInv, <3>1 DEF IInv, TypeOK
    <3> QED
      BY ONLY IInv, <3>1, <3>2, OnlyMemory
  <2> QED
    BY <1>11, <2>1, <2>2 DEF CancelRetransmit
<1>12. CASE CancelAnswered \/ CancelTimeout
  <2>1. /\ UNCHANGED <<ct, tmr, flags, told, peer, server, net>>
        /\ cancelct # "none" /\ cancelct' \in {"completed", "gone"} /\ ack' = ack
    BY ONLY <1>12 DEF CancelAnswered, CancelTimeout
  <2>2. ack' \in {"none", "kept"}
    BY ONLY IInv, <2>1 DEF IInv, TypeOK
  <2> QED
    BY ONLY IInv, <2>1, <2>2, OnlyMemory
<1>13. CASE AckForgotten
  <2>1. /\ UNCHANGED <<ct, tmr, flags, told, peer, server, net>>
        /\ cancelct' = cancelct /\ ack' = "none"
    BY ONLY <1>13 DEF AckForgotten
  <2>2. cancelct' \in {"none", "trying", "completed", "gone"}
    BY ONLY IInv, <2>1 DEF IInv, TypeOK
  <2> QED
    BY ONLY IInv, <2>1, <2>2, OnlyMemory
<1> QED
  BY <1>1, <1>2, <1>3, <1>4, <1>5, <1>6, <1>7, <1>8, <1>9, <1>10, <1>11, <1>12, <1>13 DEF Caller, Retransmit

\* What happens to the two counters when a response is sent or not.
LEMMA Counters ==
  ASSUME NEW M \in Nat, NEW f \in 0..M, NEW f2, NEW o \in Nat, NEW o2, NEW l \in {1, 2},
         o <= l + f,
         f2 = f \/ (f < M /\ f2 = f + 1),
         o2 = o \/ (o2 = o + 1 /\ o < l + f)
  PROVE  f2 \in 0..M /\ o2 \in Nat /\ o2 <= l + f2 /\ (f2 = f + 1 => o2 < l + f2)
OBVIOUS

\* A response of the callee to an INVITE that it has not answered, sent or not; the
\* INVITE is either the one that rings, or a new one.
LEMMA ReplyStep ==
  ASSUME IInv, UNCHANGED client, life' = life,
         \/ st = "proceeding" /\ offered' = offered
         \/ st = "none" /\ "INVITE" \in net /\ offered' = offered + 1,
         NEW other, other \subseteq {"CANCEL answered"},
         NEW new, uas' = [uas EXCEPT ![life] = new],
         \/ /\ failed' = failed
            /\ \/ st' = "proceeding" /\ new = "ringing" /\ net' = net \cup {"1xx"}
               \/ st' = "accepted" /\ new = "answered" /\ net' = net \cup {Ok(life)}
               \/ st' = "completed" /\ new = "refused" /\ net' = net \cup {"fail"}
               \/ /\ st' = "completed" /\ new = "cancelled" /\ "CANCEL" \in net
                  /\ net' = net \cup {"fail"} \cup other
         \/ /\ failed < MaxFailed /\ failed' = failed + 1
            /\ st' = "none" /\ new = "idle" /\ net' = net \cup other
  PROVE  IInv'
<1>1. /\ ct' = ct /\ tmr' = tmr /\ flags' = flags /\ told' = told
      /\ cancelct' = cancelct /\ ack' = ack /\ peer' = peer
  BY DEF client
<1>2. life \in Lives /\ life \in {1, 2} /\ Lives = {1, 2}
  <2>1. life \in Lives
    BY ONLY IInv DEF IInv, TypeOK
  <2> QED
    BY ONLY <2>1, TwoLives
<1>3. uas'[life] = new /\ \A j \in Lives : j # life => uas'[j] = uas[j]
  BY <1>2 DEF IInv, TypeOK
<1>4. uas[life] \in {"idle", "ringing"}
  BY DEF IInv, TypeOK, CalleeInv
<1>5. Ok(life) \notin net /\ AckOk(life) \notin net /\ peer # life
  BY <1>2, <1>4 DEF IInv, Agreement, NetInv, Answered
<1>6. \/ new = "ringing" /\ st' = "proceeding"
      \/ new = "answered" /\ st' = "accepted"
      \/ new = "refused" /\ st' = "completed"
      \/ new = "cancelled" /\ st' = "completed" /\ "canceled" \in flags
      \/ new = "idle" /\ st' = "none"
  BY DEF IInv, NetInv
<1>7. /\ failed' \in 0..MaxFailed /\ offered' \in Nat /\ offered' <= life + failed'
      /\ failed' = failed + 1 => offered' < life + failed'
  <2>1. failed \in 0..MaxFailed /\ offered \in Nat /\ offered <= life + failed
    BY DEF IInv, TypeOK, RingsOnce
  <2>2. st = "none" /\ "INVITE" \in net => offered < life + failed
    BY DEF IInv, CalleeInv
  <2>3. offered' = offered \/ (offered' = offered + 1 /\ offered < life + failed)
    BY <2>2
  <2>4. failed' = failed \/ (failed < MaxFailed /\ failed' = failed + 1)
    OBVIOUS
  <2> QED
    BY ONLY <1>2, <2>1, <2>3, <2>4, MaxFailedAssumption, Counters
<1>8. new = "idle" => offered' < life + failed'
  BY <1>7
<1>9. TypeOK'
  <2>1. net' \subseteq Requests \cup Responses
    <3>1. net \subseteq Requests \cup Responses /\ Ok(life) \in Responses
      BY <1>2, Names DEF IInv, TypeOK
    <3>2. {"1xx", "fail", "CANCEL answered"} \subseteq Responses
      BY DEF Responses
    <3> QED
      BY <3>1, <3>2
  <2>2. uas' \in [Lives -> {"idle", "ringing", "answered", "confirmed", "unacked",
                            "refused", "cancelled"}]
    BY <1>2, <1>6 DEF IInv, TypeOK
  <2> QED
    BY <1>1, <1>6, <1>7, <2>1, <2>2 DEF IInv, TypeOK
<1>10. CallerInv'
  BY <1>1 DEF IInv, CallerInv, CancelHasDeadline, Heard, Active, Over
<1>11. NetInv'
  <2>1. ASSUME NEW j \in Lives, Ok(j) \in net' PROVE uas'[j] \in Answered
    <3>1. Ok(j) \notin {"1xx", "fail", "CANCEL answered"}
      BY Names
    <3>2. Ok(j) \in net \/ (new = "answered" /\ Ok(j) = Ok(life))
      BY <2>1, <3>1
    <3>3. CASE Ok(j) \in net
      <4>1. j # life
        BY <3>3, <1>5
      <4> QED
        BY <3>3, <4>1, <1>3 DEF IInv, NetInv
    <3>4. CASE new = "answered" /\ Ok(j) = Ok(life)
      <4>1. j = life
        BY ONLY <3>4, <1>2, j \in Lives, Names
      <4> QED
        BY <3>4, <4>1, <1>3 DEF Answered
    <3> QED
      BY <3>2, <3>3, <3>4
  <2>2. ASSUME NEW j \in Lives, AckOk(j) \in net' PROVE peer' = j
    <3>1. /\ AckOk(j) \notin {"1xx", "fail", "CANCEL answered"} /\ AckOk(j) # Ok(life)
      BY <1>2, Names DEF Responses
    <3>2. AckOk(j) \in net
      BY <2>2, <3>1
    <3> QED
      BY <3>2, <1>1 DEF IInv, NetInv
  <2>3. Ok(life) \notin {"ACK", "CANCEL", "fail"}
    BY <1>2, Names DEF Requests
  <2>4. "fail" \in net' => \E j \in Lives : uas'[j] \in Ended
    <3>1. CASE "fail" \in net
      <4>1. PICK j \in Lives : uas[j] \in Ended
        BY <3>1 DEF IInv, NetInv
      <4>2. j # life
        BY <4>1, <1>4 DEF Ended
      <4> QED
        BY <4>1, <4>2, <1>3
    <3>2. CASE "fail" \notin net /\ "fail" \in net'
      <4>1. new \in Ended
        BY <3>2, <2>3 DEF Ended
      <4> QED
        BY <4>1, <1>2, <1>3
    <3> QED
      BY <3>1, <3>2
  <2>5. ("ACK" \in net' => "ACK" \in net) /\ ("CANCEL" \in net' => "CANCEL" \in net)
    BY <2>3
  <2> QED
    BY <1>1, <2>1, <2>2, <2>4, <2>5 DEF IInv, NetInv, Heard
<1>12. CalleeInv'
  <2>1. /\ life = 1 => uas'[2] = "idle"
        /\ life = 2 => uas'[1] \in Answered \cup Ended
    <3>1. /\ life = 1 => uas[2] = "idle"
          /\ life = 2 => uas[1] \in Answered \cup Ended
      BY DEF IInv, CalleeInv
    <3>2. life = 1 => uas'[2] = uas[2]
      <4>1. 2 \in Lives
        BY ONLY TwoLives
      <4> QED
        BY ONLY <4>1, <1>3
    <3>3. life = 2 => uas'[1] = uas[1]
      <4>1. 1 \in Lives
        BY ONLY TwoLives
      <4> QED
        BY ONLY <4>1, <1>3
    <3> QED
      BY ONLY <3>1, <3>2, <3>3
  <2> QED
    BY <1>3, <1>6, <1>8, <2>1 DEF CalleeInv, Answered, Ended
<1>13. Agreement'
  <2>1. ASSUME NEW j \in Lives
        PROVE  /\ peer = j => uas'[j] \in {"answered", "confirmed", "unacked"}
               /\ uas'[j] = "confirmed" => peer = j
               /\ uas'[j] = "cancelled" => "canceled" \in flags
    <3>1. CASE j = life
      BY <3>1, <1>3, <1>5, <1>6
    <3>2. CASE j # life
      BY <3>2, <1>3 DEF IInv, Agreement
    <3> QED
      BY <3>1, <3>2
  <2>2. Contains(told, "refused") => \E j \in Lives : uas'[j] \in {"refused", "cancelled"}
    <3>1. CASE Contains(told, "refused")
      <4>1. PICK j \in Lives : uas[j] \in {"refused", "cancelled"}
        BY <3>1 DEF IInv, Agreement
      <4> QED
        BY <4>1, <1>3, <1>4
    <3> QED
      BY <3>1
  <2>3. st' # "confirmed"
    BY <1>6
  <2>4. Contains(told, "ok") <=> peer # 0
    BY DEF IInv, Agreement
  <2> QED
    BY <1>1, <2>1, <2>2, <2>3, <2>4 DEF Agreement
<1>14. RingsOnce'
  BY <1>7 DEF RingsOnce
<1> QED
  BY <1>9, <1>10, <1>11, <1>12, <1>13, <1>14 DEF IInv

\* A session that answered hears of the ACK, or gives up.
LEMMA SessionStep ==
  ASSUME IInv, NEW i \in Lives, uas[i] = "answered",
         UNCHANGED <<client, st, life, offered, failed, net>>,
         NEW new \in {"unacked", "confirmed"}, uas' = [uas EXCEPT ![i] = new],
         new = "confirmed" => peer = i
  PROVE  IInv'
<1>1. /\ ct' = ct /\ tmr' = tmr /\ flags' = flags /\ told' = told
      /\ cancelct' = cancelct /\ ack' = ack /\ peer' = peer
      /\ st' = st /\ life' = life /\ net' = net /\ offered' = offered /\ failed' = failed
  BY DEF client
<1>2. /\ uas'[i] = new /\ \A j \in Lives : j # i => uas'[j] = uas[j]
      /\ life \in Lives /\ 1 \in Lives /\ 2 \in Lives
  BY DEF IInv, TypeOK, Lives
<1>3. \A j \in Lives : /\ uas[j] \in Answered <=> uas'[j] \in Answered
                       /\ uas[j] \in Ended <=> uas'[j] \in Ended
                       /\ uas[j] = "idle" <=> uas'[j] = "idle"
                       /\ uas[j] = "ringing" <=> uas'[j] = "ringing"
  BY <1>2 DEF Answered, Ended
<1>4. TypeOK'
  BY <1>1 DEF IInv, TypeOK
<1>5. CallerInv'
  BY <1>1 DEF IInv, CallerInv, CancelHasDeadline, Heard, Active, Over
<1>6. NetInv'
  BY <1>1, <1>3 DEF IInv, NetInv, Heard
<1>7. CalleeInv'
  BY <1>1, <1>2, <1>3 DEF IInv, CalleeInv
<1>8. Agreement'
  BY <1>1, <1>2, <1>3 DEF IInv, Agreement, Answered, Ended
<1>9. RingsOnce'
  BY <1>1 DEF IInv, RingsOnce
<1> QED
  BY <1>4, <1>5, <1>6, <1>7, <1>8, <1>9 DEF IInv

\* The transaction alone: the ACK of a failure, or its end.
LEMMA TransactionStep ==
  ASSUME IInv, AckOfFailure \/ ServerTimeout
  PROVE  IInv'
<1>1. /\ ct' = ct /\ tmr' = tmr /\ flags' = flags /\ told' = told
      /\ cancelct' = cancelct /\ ack' = ack /\ peer' = peer
      /\ net' = net /\ uas' = uas /\ offered' = offered /\ failed' = failed
  BY DEF AckOfFailure, ServerTimeout, Expires, client
<1>2. \/ st = "completed" /\ st' = "confirmed" /\ life' = life /\ Heard("refused")
      \/ /\ st' = "none" /\ st \in {"accepted", "completed", "confirmed"} /\ ct # "calling"
         /\ \/ "INVITE" \notin net /\ life' = life
            \/ life = 1 /\ life' = 2
  BY DEF AckOfFailure, ServerTimeout, Expires, Arrives, IInv, NetInv
<1>3. life \in {1, 2} /\ life' \in {1, 2} /\ Lives = {1, 2}
  BY <1>2 DEF IInv, TypeOK, Lives
<1>4. TypeOK'
  BY <1>1, <1>2, <1>3 DEF IInv, TypeOK
<1>5. CallerInv'
  BY <1>1 DEF IInv, CallerInv, CancelHasDeadline, Heard, Active, Over
<1>6. NetInv'
  BY <1>1 DEF IInv, NetInv, Heard
<1>7. RingsOnce' /\ (life' # life => offered' < life' + failed')
  <2>1. offered \in Nat /\ failed \in Nat /\ offered <= life + failed
    BY DEF IInv, TypeOK, RingsOnce
  <2>2. life' = life \/ (life = 1 /\ life' = 2)
    BY <1>2
  <2> QED
    BY <1>1, <2>1, <2>2 DEF RingsOnce
<1>8. CalleeInv'
  <2>1. CASE life' = life
    BY <1>1, <1>2, <2>1 DEF IInv, CalleeInv, Answered, Ended
  <2>2. CASE life' # life
    <3>1. life = 1 /\ life' = 2 /\ st' = "none"
      BY <1>2, <1>3, <2>2
    <3>2. uas[2] = "idle" /\ uas[1] \in Answered \cup Ended
      BY <1>2, <3>1 DEF IInv, CalleeInv
    <3> QED
      BY <1>1, <1>7, <3>1, <3>2 DEF CalleeInv
  <2> QED
    BY <2>1, <2>2
<1>9. Agreement'
  BY <1>1, <1>2 DEF IInv, Agreement, Heard
<1> QED
  BY <1>4, <1>5, <1>6, <1>7, <1>8, <1>9 DEF IInv

\* The responses that are sent again.
LEMMA ResponseAgain ==
  ASSUME IInv, UNCHANGED <<client, server>>, NEW m \in Responses, net' = net \cup {m},
         \/ m \in {"CANCEL answered", "1xx"}
         \/ m = "fail" /\ st = "completed"
         \/ \E i \in Lives : m = Ok(i) /\ uas[i] = "answered"
  PROVE  IInv'
<1>1. net' \subseteq Requests \cup Responses /\ ("INVITE" \in net' => "INVITE" \in net)
  <2>1. "INVITE" \notin Responses
    BY DEF Responses, Ok
  <2>2. net \subseteq Requests \cup Responses
    BY DEF IInv, TypeOK
  <2> QED
    BY ONLY <2>1, <2>2, m \in Responses, net' = net \cup {m}
<1>2. uas' = uas /\ told' = told /\ flags' = flags /\ peer' = peer /\ life \in Lives
  BY DEF client, server, IInv, TypeOK
<1>3. NetInv'
  <2>1. ASSUME NEW j \in Lives
        PROVE  (Ok(j) \in net' => uas[j] \in Answered) /\ (AckOk(j) \in net' => peer = j)
    <3>1. AckOk(j) # m /\ Ok(j) \notin {"CANCEL answered", "1xx", "fail"}
      <4>1. AckOk(j) \notin Responses /\ Ok(j) \notin {"CANCEL answered", "1xx", "fail"}
        BY Names
      <4> QED
        BY <4>1
    <3>2. Ok(j) = m => uas[j] = "answered"
      <4>1. \A i \in Lives : Ok(i) = Ok(j) <=> i = j
        BY Names
      <4> QED
        BY <3>1, <4>1
    <3> QED
      BY <3>1, <3>2 DEF IInv, NetInv, Answered
  <2>2. "ACK" # m /\ "CANCEL" # m
    BY DEF Responses, Ok
  <2>3. "fail" = m => \E j \in Lives : uas[j] \in Ended
    <3>1. \A i \in Lives : Ok(i) # "fail"
      BY Names
    <3> QED
      BY <1>2, <3>1 DEF IInv, CalleeInv
  <2> QED
    BY <1>2, <2>1, <2>2, <2>3 DEF IInv, NetInv, Heard
<1> QED
  BY <1>1, <1>3, OnlyMessages

\* The callee's steps keep the invariant.
LEMMA CalleeStep ==
  ASSUME IInv, CalleeSteps
  PROVE  IInv'
<1> USE DEF Reply, Become, Send, Arrives
<1>1. CASE Offer
  BY <1>1, ReplyStep DEF Offer
<1>2. CASE Progress
  BY <1>2, ReplyStep DEF Progress
<1>3. CASE Answer
  BY <1>3, ReplyStep DEF Answer
<1>4. CASE Reject
  BY <1>4, ReplyStep DEF Reject
<1>5. CASE CancelArrives /\ st = "proceeding"
  <2>1. PICK new \in {"cancelled", "idle"} :
          /\ uas' = [uas EXCEPT ![life] = new]
          /\ \/ /\ new = "cancelled" /\ failed' = failed /\ st' = "completed"
                /\ net' = net \cup {"fail"} \cup {"CANCEL answered"}
             \/ /\ new = "idle" /\ failed < MaxFailed /\ failed' = failed + 1
                /\ st' = "none" /\ net' = net \cup {"CANCEL answered"}
    BY <1>5 DEF CancelArrives
  <2>2. /\ UNCHANGED client /\ life' = life /\ st = "proceeding" /\ offered' = offered
        /\ "CANCEL" \in net /\ {"CANCEL answered"} \subseteq {"CANCEL answered"}
    BY <1>5 DEF CancelArrives
  <2> QED
    BY ONLY IInv, <2>1, <2>2, ReplyStep
<1>6. CASE (CancelArrives /\ st # "proceeding") \/ Repeat \/ FailureRetransmit
  <2>1. {"CANCEL answered", "1xx", "fail"} \subseteq Responses
    BY DEF Responses
  <2>2. PICK m \in {"CANCEL answered", "1xx", "fail"} :
          net' = net \cup {m} /\ (m = "fail" => st = "completed")
    BY <1>6 DEF CancelArrives, Repeat, FailureRetransmit
  <2>3. UNCHANGED <<client, server>>
    BY <1>6 DEF CancelArrives, Repeat, FailureRetransmit, server, client
  <2> QED
    BY ONLY IInv, <2>1, <2>2, <2>3, ResponseAgain
<1>7. CASE \E i \in Lives : SuccessRetransmit(i)
  <2>1. PICK i \in Lives : SuccessRetransmit(i)
    BY <1>7
  <2>2. Ok(i) \in Responses
    BY Names
  <2>3. uas[i] = "answered" /\ net' = net \cup {Ok(i)} /\ UNCHANGED <<client, server>>
    BY <2>1 DEF SuccessRetransmit
  <2> QED
    BY ONLY IInv, i \in Lives, <2>2, <2>3, ResponseAgain
<1>8. CASE \E i \in Lives : AckOfSuccess(i) \/ ReplyTimeout(i)
  <2>1. PICK i \in Lives : AckOfSuccess(i) \/ ReplyTimeout(i)
    BY <1>8
  <2>2. uas[i] = "answered" /\ UNCHANGED <<client, st, life, offered, failed, net>>
    BY <2>1 DEF AckOfSuccess, ReplyTimeout
  <2>3. \/ uas' = [uas EXCEPT ![i] = "unacked"]
        \/ uas' = [uas EXCEPT ![i] = "confirmed"] /\ peer = i
    BY <2>1 DEF AckOfSuccess, ReplyTimeout, IInv, NetInv
  <2>4. PICK new \in {"unacked", "confirmed"} :
          uas' = [uas EXCEPT ![i] = new] /\ (new = "confirmed" => peer = i)
    BY ONLY <2>3
  <2> QED
    BY ONLY IInv, i \in Lives, <2>2, <2>4, SessionStep
<1>9. CASE AckOfFailure \/ ServerTimeout
  BY <1>9, TransactionStep
<1> QED
  BY <1>1, <1>2, <1>3, <1>4, <1>5, <1>6, <1>7, <1>8, <1>9 DEF CalleeSteps

\* A message that is lost changes nothing else.
LEMMA LoseStep ==
  ASSUME IInv, NEW m, Lose(m)
  PROVE  IInv'
<1>1. UNCHANGED <<client, server>> /\ net' \subseteq net
  BY DEF Lose
<1>2. NetInv'
  BY <1>1 DEF IInv, NetInv, Heard, client, server
<1> QED
  BY <1>1, <1>2, OnlyMessages DEF IInv, TypeOK

\* A step that changes nothing.
LEMMA Stutter ==
  ASSUME IInv, UNCHANGED vars
  PROVE  IInv'
<1>1. UNCHANGED <<client, server>> /\ net' = net
  BY DEF vars
<1>2. NetInv'
  BY <1>1 DEF IInv, NetInv, Heard, client, server
<1> QED
  BY <1>1, <1>2, OnlyMessages DEF IInv, TypeOK

-----------------------------------------------------------------------------
\* The inductive invariant holds in every state of the exchange.
THEOREM Invariance == Spec => []IInv
<1>1. IInv /\ [Next]_vars => IInv'
  <2> SUFFICES ASSUME IInv, [Next]_vars PROVE IInv'
    OBVIOUS
  <2>1. CASE Caller
    BY <2>1, CallerStep
  <2>2. CASE CalleeSteps
    BY <2>2, CalleeStep
  <2>3. CASE \E m \in Requests \cup Responses : Lose(m)
    BY <2>3, LoseStep
  <2>4. CASE UNCHANGED vars
    BY <2>4, Stutter
  <2> QED
    BY <2>1, <2>2, <2>3, <2>4 DEF Next
<1> QED
  BY <1>1, InitInvariant, PTL DEF Spec

\* No message and no timer takes a component out of its type; in particular the
\* CANCEL's transaction never runs through the states of an INVITE's.
THEOREM TypeCorrect == Spec => []TypeOK
<1>1. IInv => TypeOK
  BY DEF IInv
<1> QED
  BY <1>1, Invariance, PTL

\* The caller is told one final result, once, and nothing after it, and is told as soon
\* as no transaction is left to tell it.
THEOREM ToldOnceAlways == Spec => []ToldOnce
<1>1. IInv => ToldOnce
  BY DEF IInv, CallerInv, ToldOnce, Over, Heard
<1> QED
  BY <1>1, Invariance, PTL

\* Caller and callee agree on what became of the call.
THEOREM AgreementAlways == Spec => []Agreement
<1>1. IInv => Agreement
  BY DEF IInv
<1> QED
  BY <1>1, Invariance, PTL

\* The phone rings once for one INVITE, once more for each response that could not be
\* sent, and once more if a late copy finds its transaction forgotten.
THEOREM RingsOnceAlways == Spec => []RingsOnce
<1>1. IInv => RingsOnce
  BY DEF IInv
<1> QED
  BY <1>1, Invariance, PTL

\* A cancelled INVITE has a deadline.
THEOREM DeadlineAlways == Spec => []CancelHasDeadline
<1>1. IInv => CancelHasDeadline
  BY DEF IInv, CallerInv
<1> QED
  BY <1>1, Invariance, PTL

-----------------------------------------------------------------------------
(***************************************************************************)
(* The exchange implements the safety of its contract.                     *)
(***************************************************************************)
LEMMA ActiveIsCalling == IInv => (Active <=> CallerTold = "calling")
BY DEF IInv, CallerInv, Heard, Over, Finals, CallerTold

LEMMA ToldBecomes ==
  ASSUME IInv, Active, NEW what \in What, Tell(what)
  PROVE  CallerTold' = CASE what = "ok" -> "ok" [] what = "refused" -> "refused"
                         [] what = "error" -> "failed" [] what = "progress" -> "calling"
<1>1. \A f \in Finals : Contains(told, f)' <=> f = what
  BY TellFacts
<1> QED
  BY <1>1 DEF CallerTold, Finals, What

\* What the caller is told is what the contract allows.
LEMMA CallerImplements ==
  ASSUME IInv, Caller
  PROVE  Contract!Next \/ UNCHANGED Contract!vars
<1> USE ActiveIsCalling DEF Contract!vars, client, server
<1>1. CASE Retransmit
  <2>1. CASE UNCHANGED client
    BY <1>1, <2>1 DEF Retransmit, CallerTold
  <2>2. CASE Tell("error") /\ ct' = "gone"
    <3>1. CallerTold = "calling" /\ CallerTold' = "failed"
      BY <1>1, <2>2, ToldBecomes DEF Retransmit, Active, What, Finals
    <3>2. UNCHANGED <<uas, flags, peer>>
      BY <1>1, <2>2 DEF Retransmit
    <3> QED
      BY <3>1, <3>2 DEF Contract!Next, Contract!Fail, Contract!Told
  <2> QED
    BY <1>1, <2>1, <2>2 DEF Retransmit
<1>2. CASE ClientTimeout
  <2>1. CASE Active
    <3>1. CallerTold = "calling" /\ CallerTold' = "failed"
      BY <1>2, <2>1, ToldBecomes DEF ClientTimeout, What, Finals
    <3>2. UNCHANGED <<uas, flags, peer>>
      BY <1>2 DEF ClientTimeout
    <3> QED
      BY <3>1, <3>2 DEF Contract!Next, Contract!Fail, Contract!Told
  <2>2. CASE ~Active
    BY <1>2, <2>2 DEF ClientTimeout, CallerTold
  <2> QED
    BY <2>1, <2>2
<1>3. CASE RequestCancel
  <2>1. CallerTold = "calling" /\ CallerTold' = CallerTold /\ uas' = uas /\ peer' = peer
    BY <1>3 DEF RequestCancel, CallerTold, Over, Finals
  <2>2. "canceled" \in flags'
    BY <1>3 DEF RequestCancel
  <2> QED
    BY <2>1, <2>2 DEF Contract!Next, Contract!Want
<1>4. CASE Provisional
  <2>1. CallerTold = "calling" /\ CallerTold' = "calling"
    BY <1>4, ToldBecomes DEF Provisional, What
  <2>2. uas' = uas /\ peer' = peer /\ flags' = flags \cup {"provrecv"}
    BY <1>4 DEF Provisional
  <2>3. "canceled" \in flags' <=> "canceled" \in flags
    BY <2>2
  <2> QED
    BY <2>1, <2>2, <2>3
<1>5. CASE \E i \in Lives : Success(i)
  <2>1. PICK i \in Lives : Success(i)
    BY <1>5
  <2>2. CallerTold = "calling" /\ CallerTold' = "ok"
    BY <2>1, ToldBecomes DEF Success, What, Finals
  <2>3. UNCHANGED <<uas, flags>> /\ peer' = i
    BY <2>1 DEF Success
  <2>4. uas[i] \in {"answered", "unacked"}
    <3>1. uas[i] \in Answered /\ peer = 0 /\ i # 0
      BY <2>1, <2>2 DEF Success, Arrives, IInv, NetInv, Agreement, CallerTold, Lives
    <3> QED
      BY <3>1 DEF IInv, Agreement, Answered
  <2>5. Contract!Succeed(i)
    BY <2>2, <2>3, <2>4 DEF Contract!Succeed, Contract!Told
  <2> QED
    BY <2>5 DEF Contract!Next, Contract!Lives, Lives
<1>6. CASE Failure
  <2>1. CASE Active
    <3>1. CallerTold = "calling" /\ CallerTold' = "refused"
      BY <1>6, <2>1, ToldBecomes DEF Failure, What, Finals
    <3>2. UNCHANGED <<uas, flags, peer>>
      BY <1>6 DEF Failure
    <3>3. \E i \in Lives : uas[i] \in Ended
      BY <1>6 DEF Failure, Arrives, IInv, NetInv
    <3>4. Contract!Refused
      BY <3>1, <3>2, <3>3 DEF Contract!Refused, Contract!Told, Contract!Lives, Lives, Ended
    <3> QED
      BY <3>4 DEF Contract!Next
  <2>2. CASE ~Active
    BY <1>6, <2>2 DEF Failure, CallerTold
  <2> QED
    BY <2>1, <2>2
<1>7. CASE \/ \E i \in Lives : SuccessAgain(i)
           \/ CancelRetransmit \/ CancelAnswered \/ CancelTimeout \/ AckForgotten
  BY <1>7 DEF SuccessAgain, CancelRetransmit, CancelAnswered, CancelTimeout, AckForgotten, CallerTold
<1> QED
  BY <1>1, <1>2, <1>3, <1>4, <1>5, <1>6, <1>7 DEF Caller

\* The session of the server transaction is the contract's only one without an outcome.
LEMMA OnlyOne == IInv => life \in Contract!Lives /\ Contract!Called(life)
<1> SUFFICES ASSUME IInv PROVE life \in Contract!Lives /\ Contract!Called(life)
  OBVIOUS
<1>1. life \in {1, 2} /\ Contract!Lives = {1, 2}
  BY TwoLives DEF IInv, TypeOK, Contract!Lives, Lives
<1>2. life = 2 => uas[1] \notin {"idle", "ringing"}
  BY DEF IInv, CalleeInv, Answered, Ended
<1>3. \A j \in {1, 2} : j < life => j = 1 /\ life = 2
  BY ONLY <1>1
<1> QED
  BY <1>1, <1>2, <1>3 DEF Contract!Called

\* What becomes of the callee is what the contract allows.
LEMMA CalleeImplements ==
  ASSUME IInv, CalleeSteps
  PROVE  Contract!Next \/ UNCHANGED Contract!vars
<1> USE DEF Contract!Callee
<1>1. UNCHANGED <<flags, told, peer>> /\ CallerTold' = CallerTold
  BY DEF CalleeSteps, Offer, Repeat, Progress, Answer, Reject, CancelArrives, AckOfFailure,
         AckOfSuccess, FailureRetransmit, SuccessRetransmit, ReplyTimeout, ServerTimeout,
         Expires, client, CallerTold
<1>2. life \in Contract!Lives /\ Contract!Called(life)
  BY OnlyOne
<1>3. CASE Offer
  <2>1. uas[life] = "idle"
    BY <1>3 DEF Offer, Arrives, IInv, CalleeInv
  <2>2. \/ uas' = [uas EXCEPT ![life] = "ringing"]
        \/ uas' = [uas EXCEPT ![life] = "refused"]
        \/ uas' = [uas EXCEPT ![life] = "idle"]
    BY <1>3 DEF Offer, Reply, Become
  <2>3. Contract!Ring(life) \/ Contract!Refuse(life) \/ uas' = uas
    BY <1>1, <1>2, <2>1, <2>2 DEF Contract!Ring, Contract!Refuse, IInv, TypeOK
  <2> QED
    BY <1>1, <1>2, <2>3 DEF Contract!Next, Contract!vars
<1>4. CASE Progress \/ Answer \/ Reject
  <2>1. uas[life] = "ringing"
    BY <1>4 DEF Progress, Answer, Reject, IInv, CalleeInv
  <2>2. \/ uas' = [uas EXCEPT ![life] = "ringing"]
        \/ uas' = [uas EXCEPT ![life] = "answered"]
        \/ uas' = [uas EXCEPT ![life] = "refused"]
        \/ uas' = [uas EXCEPT ![life] = "idle"]
    BY <1>4 DEF Progress, Answer, Reject, Reply, Become
  <2>3. Contract!Answer(life) \/ Contract!Refuse(life) \/ Contract!Forget(life) \/ uas' = uas
    BY <1>1, <1>2, <2>1, <2>2
    DEF Contract!Answer, Contract!Refuse, Contract!Forget, IInv, TypeOK
  <2> QED
    BY <1>1, <1>2, <2>3 DEF Contract!Next, Contract!vars
<1>5. CASE CancelArrives
  <2>1. CASE st = "proceeding"
    <3>1. uas[life] = "ringing" /\ "canceled" \in flags
      BY <1>5, <2>1 DEF CancelArrives, Arrives, IInv, CalleeInv, NetInv
    <3>2. \/ uas' = [uas EXCEPT ![life] = "cancelled"]
          \/ uas' = [uas EXCEPT ![life] = "idle"]
      BY <1>5, <2>1 DEF CancelArrives, Reply, Become
    <3>3. Contract!Cancelled(life) \/ Contract!Forget(life)
      BY <1>1, <3>1, <3>2 DEF Contract!Cancelled, Contract!Forget
    <3> QED
      BY <1>2, <3>3 DEF Contract!Next
  <2>2. CASE st # "proceeding"
    BY <1>1, <1>5, <2>2 DEF CancelArrives, Contract!vars
  <2> QED
    BY <2>1, <2>2
<1>6. CASE \E i \in Lives : AckOfSuccess(i) \/ ReplyTimeout(i)
  <2>1. PICK i \in Lives : AckOfSuccess(i) \/ ReplyTimeout(i)
    BY <1>6
  <2>2. Contract!Confirm(i) \/ Contract!GiveUp(i)
    BY <1>1, <2>1 DEF AckOfSuccess, ReplyTimeout, Arrives, IInv, NetInv, Contract!Confirm, Contract!GiveUp
  <2>3. i \in Contract!Lives
    BY DEF Contract!Lives, Lives
  <2> QED
    BY <2>2, <2>3 DEF Contract!Next
<1>7. CASE \/ Repeat \/ AckOfFailure \/ FailureRetransmit \/ ServerTimeout
           \/ \E i \in Lives : SuccessRetransmit(i)
  <2>1. uas' = uas
    BY <1>7 DEF Repeat, AckOfFailure, FailureRetransmit, SuccessRetransmit, ServerTimeout,
                Expires, server
  <2> QED
    BY <1>1, <2>1 DEF Contract!vars
<1> QED
  BY <1>3, <1>4, <1>5, <1>6, <1>7 DEF CalleeSteps

\* Each step of the exchange is one that its contract allows, or none.
LEMMA StepImplements ==
  ASSUME IInv, [Next]_vars
  PROVE  Contract!Next \/ UNCHANGED Contract!vars
<1>1. CASE Caller
  BY <1>1, CallerImplements
<1>2. CASE CalleeSteps
  BY <1>2, CalleeImplements
<1>3. CASE \E m \in Requests \cup Responses : Lose(m)
  BY <1>3 DEF Lose, client, server, Contract!vars, CallerTold
<1>4. CASE UNCHANGED vars
  BY <1>4 DEF vars, client, server, Contract!vars, CallerTold
<1> QED
  BY <1>1, <1>2, <1>3, <1>4 DEF Next

\* Whatever the network and the users do, the exchange is an execution of the
\* contract: nobody hears of an answer, a refusal or a confirmation that was not
\* given, and only a caller that asked for it ends the ringing.
THEOREM ImplementsContractSafety == Spec => Contract!Safety
<1>1. Init => Contract!Init
  <2> SUFFICES ASSUME Init PROVE Contract!Init
    OBVIOUS
  <2>1. CallerTold = "calling"
    BY DEF Init, CallerTold, Contains
  <2>2. /\ uas = [i \in Contract!Lives |-> "idle"] /\ peer = 0
        /\ "canceled" \notin flags
    BY DEF Init, Contract!Lives, Lives
  <2> QED
    BY <2>1, <2>2 DEF Contract!Init
<1>2. IInv /\ [Next]_vars => [Contract!Next]_(Contract!vars)
  BY StepImplements
<1> QED
  BY <1>1, <1>2, Invariance, PTL DEF Spec, Contract!Safety

-----------------------------------------------------------------------------
(***************************************************************************)
(* The request in the exchange implements the safety of its own contract.  *)
(***************************************************************************)
\* What the exchange promises to the caller is what any request promises its user.
LEMMA TellsAsRequest ==
  ASSUME Contract!Next \/ UNCHANGED Contract!vars
  PROVE  Request!Next \/ UNCHANGED Request!vars
<1> DEFINE canceled == "canceled" \in flags
<1>1. (Over <=> CallerTold # "calling") /\ (Over' <=> CallerTold' # "calling")
  BY DEF Over, Finals, CallerTold
<1>2. CASE Contract!Want
  <2>1. ~Over /\ ~Over' /\ canceled'
    BY <1>1, <1>2 DEF Contract!Want
  <2> QED
    BY <2>1 DEF Request!Next, Request!Cancel
<1>3. CASE (\E i \in Contract!Lives : Contract!Succeed(i)) \/ Contract!Refused \/ Contract!Fail
  <2>1. PICK what \in {"ok", "refused", "failed"} : Contract!Told(what)
    BY <1>3 DEF Contract!Succeed, Contract!Refused, Contract!Fail
  <2>2. ~Over /\ Over' /\ (canceled' <=> canceled)
    BY <1>1, <2>1 DEF Contract!Told
  <2> QED
    BY <2>2 DEF Request!Next, Request!End
<1>4. CASE CallerTold' = CallerTold /\ (canceled' <=> canceled)
  BY <1>1, <1>4 DEF Request!vars
<1>5. CASE \E i \in Contract!Lives :
             \/ Contract!Ring(i) \/ Contract!Refuse(i) \/ Contract!Forget(i)
             \/ Contract!Answer(i) \/ Contract!GiveUp(i) \/ Contract!Cancelled(i)
             \/ Contract!Confirm(i)
  <2>1. CallerTold' = CallerTold /\ (canceled' <=> canceled)
    BY <1>5 DEF Contract!Callee, Contract!Ring, Contract!Refuse, Contract!Forget,
                Contract!Answer, Contract!GiveUp, Contract!Cancelled, Contract!Confirm
  <2> QED
    BY <2>1, <1>4
<1>6. CASE UNCHANGED Contract!vars
  BY <1>4, <1>6 DEF Contract!vars
<1> QED
  BY <1>2, <1>3, <1>5, <1>6 DEF Contract!Next

\* However responses, cancel and timeouts cross, the request in front of the network tells
\* its user one final result, after which it is gone (terminate, response_handler).
THEOREM ImplementsRequestSafety == Spec => ImplementsRequest
<1>1. Init => Request!Started
  BY DEF Init, Request!Started, Over, Finals, Contains
<1>2. IInv /\ [Next]_vars => [Request!Next]_(Request!vars)
  <2> SUFFICES ASSUME IInv, [Next]_vars PROVE Request!Next \/ UNCHANGED Request!vars
    OBVIOUS
  <2> QED
    BY StepImplements, TellsAsRequest
<1> QED
  BY <1>1, <1>2, Invariance, PTL DEF Spec, ImplementsRequest, Request!Running
=============================================================================
