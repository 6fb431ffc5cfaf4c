------------------------- MODULE SipRequest_proofs -------------------------
(***************************************************************************)
(* Proofs about SipRequest, for any number of transports and of records.   *)
(*                                                                         *)
(* The properties are not inductive: what a cancel leads to depends on     *)
(* whether a provisional response came, on where the request was, and on   *)
(* who still holds it.  Life, Progress and Count say so.                   *)
(***************************************************************************)
EXTENDS SipRequest, TLAPS

\* Who holds the request, and whom it answers.
Life ==
  /\ doing = "idle" => user = "idle" /\ flags = {}
  /\ user = "idle" => doing = "idle"
  /\ user = "waiting" => doing \in Lookups \cup Sent
  /\ doing \in Lookups \cup Sent => user \in {"waiting", "gone"}
  /\ user = "gone" => resph = "null"
  /\ doing \in Lookups \cup Sent /\ user = "gone" => method # "ACK"
  /\ user \in {"idle", "waiting"} => resph = "set"

\* The transaction's state, its timer and provrecv agree.
Progress ==
  /\ doing = "calling" => tmr = "on" /\ "provrecv" \notin flags
  /\ doing \in Sent => method # "ACK"
  /\ doing = "proceeding" => "provrecv" \in flags
  /\ doing \in Sent /\ method # "INVITE" => tmr = "on"
  /\ CancelHasDeadline

\* What was sent since the cancel, and where the cancel found the request.
Count ==
  /\ ~canceled => late = 0
  /\ canceled /\ doing \in Lookups => when \in Lookups /\ late = 0
  /\ CancelStops

IInv == TypeOK /\ Life /\ Progress /\ Count

\* What every operation finds: a request that is not freed.
Live == doing \in Lookups \cup Sent

\* How a step of the network leaves it: its user's, or without a future.
Kept == doing' \in Lookups \cup Sent /\ user' = user
Ended ==
  /\ doing' = "freed"
  /\ \/ user = "waiting" /\ user' \in {"told", "sent"}
     \/ user = "gone" /\ user' = "gone"

-----------------------------------------------------------------------------
(* The ways in which a request is destroyed, sent and looked up. *)

\* A request that is destroyed leaves the invariant as it was.
LEMMA GoneStep ==
  ASSUME IInv, NEW what \in {"told", "sent", "gone"}, Gone(what), UNCHANGED method
  PROVE  IInv'
<1> USE DEF IInv, Gone
<1>1. TypeOK'
  BY TransportsAssumption, MaxRecordsAssumption
     DEF TypeOK, Methods, Lookups, Sent
<1>2. Life' /\ Progress' BY DEF Life, Progress, CancelHasDeadline, Lookups, Sent
<1>3. Count'
  BY DEF Count, CancelStops, canceled, Lookups, Sent
<1> QED BY <1>1, <1>2, <1>3

\* So does one that is terminated, whoever is told.
LEMMA TerminateStep ==
  ASSUME IInv, Live, Terminate, UNCHANGED method
  PROVE  IInv' /\ Ended /\ UNCHANGED flags
<1>1. user \in {"waiting", "gone"} /\ (user = "gone") = (resph = "null") /\ resph \in {"set", "null"}
  BY DEF IInv, Life, Live, TypeOK
<1>2. PICK what \in {"told", "gone"} :
        Gone(what) /\ what = IF user = "gone" THEN "gone" ELSE "told"
  BY <1>1 DEF Terminate
<1>3. IInv' BY <1>2, GoneStep
<1> QED BY <1>1, <1>2, <1>3 DEF Gone, Ended

\* A request may be sent, if it is not cancelled, or is looked up.
LEMMA RequestStep ==
  ASSUME IInv, NEW a \in 0..MaxRecords, NEW s \in 0..MaxRecords,
         doing \in Lookups \/ ~canceled,
         method # "ACK", Request(a, s), UNCHANGED method,
         user' \in {"waiting", "gone"}, user' = user \/ (doing = "idle" /\ user' = "waiting")
  PROVE  IInv'
<1> USE DEF IInv, Request
<1>1. TypeOK'
  <2>0. late \in Nat /\ flags \subseteq {"canceled", "provrecv"}
    BY DEF TypeOK
  <2>1. late' \in Nat /\ flags' \subseteq {"canceled", "provrecv"}
    <3>1. late' \in {late, late + 1} /\ flags' = flags \ {"provrecv"}
      OBVIOUS
    <3> QED BY ONLY <2>0, <3>1
  <2>2. user' \in {"idle", "waiting", "told", "sent", "gone"}
    OBVIOUS
  <2> QED BY <2>1, <2>2 DEF TypeOK, Methods, Lookups, Sent
<1>2. Life'
  BY DEF Life, Lookups, Sent
<1>3. Progress'
  BY DEF Progress, CancelHasDeadline, canceled, Lookups, Sent
<1>4. canceled' = canceled
  BY DEF canceled, TypeOK
<1>5. Count'
  <2>1. CASE canceled
    BY <1>4, <2>1 DEF Count, CancelStops, Lookups, Sent, TypeOK
  <2>2. CASE ~canceled
    BY <1>4, <2>2 DEF Count, CancelStops, Lookups, Sent, TypeOK
  <2> QED BY <2>1, <2>2
<1> QED BY <1>1, <1>2, <1>3, <1>5

\* Likewise for one that is looked up.
LEMMA LookupStep ==
  ASSUME IInv, NEW type \in Lookups, NEW s \in 0..MaxRecords, NEW t \in 0..(Transports - 1),
         doing \in Lookups \/ ~canceled,
         doing # "freed", Lookup(type, s, t), UNCHANGED method,
         user' \in {"waiting", "gone"}, user' = user \/ (doing = "idle" /\ user' = "waiting")
  PROVE  IInv'
<1> USE DEF IInv, Lookup
<1>1. TypeOK'
  BY MaxRecordsAssumption DEF TypeOK, Methods, Lookups, Sent
<1>2. Life'
  <2>1. doing' \in Lookups /\ doing' # "idle" /\ UNCHANGED <<method, resph>>
    BY DEF Lookups
  <2>2. CASE user' = user
    <3>1. doing \in Lookups \cup Sent
      BY <2>2 DEF Life, TypeOK
    <3> QED BY <2>1, <2>2, <3>1 DEF Life, Lookups, Sent
  <2>3. CASE doing = "idle" /\ user' = "waiting"
    BY <2>1, <2>3 DEF Life
  <2> QED BY <2>2, <2>3
<1>3. Progress'
  BY DEF Progress, CancelHasDeadline, Lookups, Sent
<1>4. canceled' = canceled
  BY DEF canceled, TypeOK
<1>5. Count'
  BY <1>4 DEF Count, CancelStops, Lookups, Sent, TypeOK
<1> QED BY <1>1, <1>2, <1>3, <1>5

\* The next destination: sent to, looked up, or there is none.
LEMMA RequestNextStep ==
  ASSUME IInv, Live, NEW a \in 0..MaxRecords, NEW s \in 0..MaxRecords,
         doing \in Lookups \/ ~canceled,
         RequestNext(a, s), UNCHANGED method
  PROVE  IInv' /\ canceled' = canceled /\ (Kept \/ Ended)
<1>0. /\ user \in {"waiting", "gone"} /\ doing # "idle" /\ doing # "freed"
      /\ tps \in 0..(Transports - 1) /\ MaxRecords \in Nat
  BY MaxRecordsAssumption DEF IInv, Life, Live, TypeOK, Lookups, Sent
<1>1. ASSUME NEW x \in 0..MaxRecords, NEW y \in 0..MaxRecords, Request(x, y),
             method = "ACK" \/ UNCHANGED user
      PROVE  IInv' /\ canceled' = canceled /\ (Kept \/ Ended)
  <2>1. CASE method = "ACK"
    <3>1. Gone("sent") BY <1>1, <2>1 DEF Request
    <3>2. IInv' BY <3>1, GoneStep
    <3>3. user = "waiting" BY <1>0, <2>1 DEF IInv, Life, Live
    <3> QED BY <3>1, <3>2, <3>3 DEF Gone, Ended, canceled
  <2>2. CASE method # "ACK"
    <3>1. user' = user /\ user' \in {"waiting", "gone"} BY <1>0, <1>1, <2>2
    <3>2. IInv' BY <1>1, <2>2, <3>1, RequestStep
    <3>3. Kept BY <1>1, <2>2, <3>1 DEF Request, Kept, Sent
    <3>4. canceled' = canceled BY <1>1, <2>2 DEF Request, canceled
    <3> QED BY <3>2, <3>3, <3>4
  <2> QED BY <2>1, <2>2
<1>2. ASSUME NEW y \in 0..MaxRecords, Lookup("A", y, tps), UNCHANGED user
      PROVE  IInv' /\ canceled' = canceled /\ (Kept \/ Ended)
  <2>1. "A" \in Lookups /\ user' = user /\ user' \in {"waiting", "gone"}
    BY <1>0, <1>2 DEF Lookups
  <2>2. IInv' BY <1>0, <1>2, <2>1, LookupStep
  <2>3. Kept BY <1>2, <2>1 DEF Lookup, Kept
  <2>4. canceled' = canceled BY <1>2 DEF Lookup, canceled
  <2> QED BY <2>2, <2>3, <2>4
<1>3. CASE Terminate
  BY <1>3, TerminateStep DEF canceled
<1>4. CASE \E x \in 1..a : Request(x - 1, s) /\ (method = "ACK" \/ UNCHANGED user)
  <2>1. PICK x \in 1..a : Request(x - 1, s) /\ (method = "ACK" \/ UNCHANGED user)
    BY <1>4
  <2>2. x - 1 \in 0..MaxRecords BY <1>0
  <2> QED BY <1>1, <2>1, <2>2
<1>5. CASE \E y \in 1..s, x \in 1..MaxRecords :
             Request(x - 1, y - 1) /\ (method = "ACK" \/ UNCHANGED user)
  <2>1. PICK y \in 1..s, x \in 1..MaxRecords :
               Request(x - 1, y - 1) /\ (method = "ACK" \/ UNCHANGED user)
    BY <1>5
  <2>2. x - 1 \in 0..MaxRecords /\ y - 1 \in 0..MaxRecords BY <1>0
  <2> QED BY <1>1, <2>1, <2>2
<1>6. CASE \E y \in 1..s : Lookup("A", y - 1, tps) /\ UNCHANGED user
  <2>1. PICK y \in 1..s : Lookup("A", y - 1, tps) /\ UNCHANGED user BY <1>6
  <2>2. y - 1 \in 0..MaxRecords BY <1>0
  <2> QED BY <1>2, <2>1, <2>2
<1> QED BY <1>3, <1>4, <1>5, <1>6 DEF RequestNext

-----------------------------------------------------------------------------
(* The operations, one lemma for each group of them. *)

\* sip_request: the request is live, or never was.
LEMMA StartStep ==
  ASSUME IInv, StartAddress \/ StartName
  PROVE  /\ IInv' /\ doing = "idle" /\ user = "idle" /\ canceled' = canceled
         /\ \/ doing' \in Lookups \cup Sent /\ user' = "waiting"
            \/ doing' = "freed" /\ user' \in {"gone", "sent"}
<1>0. /\ doing = "idle" /\ user = "idle" /\ ~canceled /\ UNCHANGED method
      /\ 0 \in 0..MaxRecords /\ 0 \in 0..(Transports - 1)
  BY TransportsAssumption, MaxRecordsAssumption
     DEF StartAddress, StartName, IInv, Life, canceled
<1>1. ASSUME NEW what \in {"gone", "sent"}, Gone(what)
      PROVE  IInv' /\ canceled' = canceled /\ doing' = "freed" /\ user' = what
  BY <1>0, <1>1, GoneStep DEF Gone, canceled
<1>2. CASE method = "ACK" /\ Request(0, 0)
  BY <1>0, <1>1, <1>2 DEF Request
<1>3. CASE method # "ACK" /\ Request(0, 0) /\ user' = "waiting"
  <2>1. IInv' BY <1>0, <1>3, RequestStep
  <2>2. canceled' = canceled /\ doing' \in Sent BY <1>3 DEF Request, canceled, Sent
  <2> QED BY <1>0, <1>3, <2>1, <2>2
<1>4. CASE \E type \in Lookups : Lookup(type, 0, 0) /\ user' = "waiting"
  <2>1. PICK type \in Lookups : Lookup(type, 0, 0) /\ user' = "waiting" BY <1>4
  <2>2. IInv' BY <1>0, <2>1, LookupStep
  <2>3. canceled' = canceled /\ doing' \in Lookups BY <2>1 DEF Lookup, canceled
  <2> QED BY <1>0, <2>1, <2>2, <2>3
<1>5. CASE Gone("gone")
  BY <1>0, <1>1, <1>5
<1> QED BY <1>2, <1>3, <1>4, <1>5 DEF StartAddress, StartName

\* The user cancels, or drops, the request.
LEMMA UserStep ==
  ASSUME IInv, Cancel \/ Drop
  PROVE  /\ IInv' /\ user = "waiting"
         /\ \/ doing' = doing /\ canceled' /\ user' \in {user, "gone"}
            \/ doing' = "freed" /\ canceled' = canceled /\ user' = "gone"
<1>0. user = "waiting" /\ Live /\ doing # "idle" /\ UNCHANGED method
  BY DEF Cancel, Drop, IInv, Life, Live, Lookups, Sent
<1>1. ASSUME SipRequestCancel, UNCHANGED <<doing, addrl, srvl, tps, late>>,
             \/ UNCHANGED <<user, resph>>
             \/ method # "ACK" /\ user' = "gone" /\ resph' = "null"
      PROVE  IInv' /\ canceled'
  <2> USE <1>0, <1>1 DEF IInv
  <2>1. /\ flags' = flags \cup {"canceled"}
        /\ when' = IF canceled THEN when ELSE doing
        /\ tmr' = IF ~canceled /\ "provrecv" \in flags THEN CtransCancel(doing) ELSE tmr
    BY DEF SipRequestCancel, canceled, TypeOK
  <2>2. canceled' BY <2>1 DEF canceled
  <2>3. TypeOK'
    <3>1. flags' \subseteq {"canceled", "provrecv"} BY <2>1 DEF TypeOK
    <3>2. tmr' \in {"off", "on"} BY <2>1 DEF TypeOK, CtransCancel
    <3>3. when' \in {"never"} \cup Lookups \cup Sent BY <2>1 DEF TypeOK, Live
    <3> QED BY <3>1, <3>2, <3>3 DEF TypeOK
  <2>4. Life' BY DEF Life, Live, Lookups, Sent
  <2>5. Progress'
    <3>1. tmr = "on" => tmr' = "on" BY <2>1 DEF CtransCancel
    <3>2. doing = "proceeding" => tmr' = "on"
      BY <2>1 DEF Progress, CancelHasDeadline, CtransCancel, Sent
    <3>3. doing \in Sent => tmr' = "on"
      BY <3>1, <3>2 DEF Progress, Sent
    <3> QED BY <2>1, <3>3 DEF Progress, CancelHasDeadline, Sent
  <2>6. Count'
    <3>1. CASE canceled BY <2>1, <2>2, <3>1 DEF Count, CancelStops
    <3>2. CASE ~canceled BY <2>1, <2>2, <3>2 DEF Count, CancelStops, TypeOK
    <3> QED BY <3>1, <3>2
  <2> QED BY <2>2, <2>3, <2>4, <2>5, <2>6
<1>2. CASE Cancel
  BY <1>0, <1>1, <1>2 DEF Cancel, dests
<1>3. CASE Drop /\ method # "ACK"
  BY <1>0, <1>1, <1>3 DEF Drop, dests
<1>4. CASE Drop /\ method = "ACK"
  <2>1. Gone("gone") BY <1>4 DEF Drop
  <2>2. IInv' BY <1>0, <2>1, GoneStep
  <2> QED BY <1>0, <2>1, <2>2 DEF Gone, canceled
<1> QED BY <1>2, <1>3, <1>4

\* The DNS answers, or the stack is closed.
LEMMA LookupEnds ==
  ASSUME IInv, NEW n \in 0..MaxRecords, DnsAnswer(n) \/ Close
  PROVE  IInv' /\ canceled' = canceled /\ Live /\ (Kept \/ Ended)
<1>0. /\ Live /\ doing # "idle" /\ doing # "freed" /\ UNCHANGED method
      /\ user \in {"waiting", "gone"}
      /\ 0 \in 0..MaxRecords /\ 0 \in 0..(Transports - 1) /\ Transports - 1 \in 0..(Transports - 1)
      /\ srvl \in 0..MaxRecords /\ tps \in 0..(Transports - 1)
  BY TransportsAssumption, MaxRecordsAssumption
     DEF DnsAnswer, NaptrHandler, SrvHandler, AddrHandler, Close, IInv, TypeOK, Life, Live, Lookups, Sent
<1>1. ASSUME NEW a \in 0..MaxRecords, NEW s \in 0..MaxRecords,
             doing \in Lookups, RequestNext(a, s)
      PROVE  IInv' /\ canceled' = canceled /\ (Kept \/ Ended)
  BY <1>0, <1>1, RequestNextStep
<1>2. CASE Terminate
  BY <1>0, <1>2, TerminateStep DEF canceled
<1>3. ASSUME NEW type \in Lookups, NEW t \in 0..(Transports - 1), doing \in Lookups,
             Lookup(type, 0, t), UNCHANGED user
      PROVE  IInv' /\ canceled' = canceled /\ (Kept \/ Ended)
  <2>1. user' = user /\ user' \in {"waiting", "gone"} BY <1>0, <1>3
  <2>2. IInv' BY <1>0, <1>3, <2>1, LookupStep
  <2>3. Kept /\ canceled' = canceled BY <1>3 DEF Lookup, Kept, canceled
  <2> QED BY <2>2, <2>3
<1>4. CASE NaptrHandler(n)
  <2>1. doing \in Lookups /\ "SRV" \in Lookups BY <1>4 DEF NaptrHandler, Lookups
  <2>2. \/ RequestNext(0, n)
        \/ \E t \in {0, Transports - 1} : Lookup("SRV", 0, t) /\ UNCHANGED user
        \/ Terminate
    BY <1>4 DEF NaptrHandler
  <2> QED BY <1>0, <1>1, <1>2, <1>3, <2>1, <2>2
<1>5. CASE SrvHandler(n)
  <2>1. doing \in Lookups /\ "SRV" \in Lookups /\ "A" \in Lookups
        /\ (tps > 0 => tps - 1 \in 0..(Transports - 1))
    BY <1>0, <1>5, TransportsAssumption DEF SrvHandler, Lookups
  <2>2. \/ RequestNext(0, n)
        \/ tps > 0 /\ Lookup("SRV", 0, tps - 1) /\ UNCHANGED user
        \/ Lookup("A", 0, 0) /\ UNCHANGED user
        \/ Terminate
    BY <1>5 DEF SrvHandler
  <2> QED BY <1>0, <1>1, <1>2, <1>3, <2>1, <2>2
<1>6. CASE AddrHandler(n)
  <2>1. doing \in Lookups BY <1>6 DEF AddrHandler, Lookups
  <2> QED BY <1>0, <1>1, <1>2, <1>6, <2>1 DEF AddrHandler
<1>7. CASE Close
  BY <1>2, <1>7 DEF Close
<1> QED BY <1>0, <1>4, <1>5, <1>6, <1>7 DEF DnsAnswer

\* The client transaction reports.
LEMMA ResponseStep ==
  ASSUME IInv, Provisional \/ \E failed \in BOOLEAN : Final(failed)
  PROVE  IInv' /\ canceled' = canceled /\ Live /\ (Kept \/ Ended)
<1>1. CASE Provisional
  <2> USE <1>1 DEF IInv, Provisional, dests
  <2>1. canceled' = canceled BY DEF canceled
  <2>2. TypeOK' BY DEF TypeOK, Sent
  <2>3. Life' BY DEF Life, Sent
  <2>4. Progress'
    <3>1. canceled => tmr' = "on" BY DEF Progress, CancelHasDeadline, Sent
    <3>2. method # "INVITE" => tmr' = "on" BY DEF Progress, Sent
    <3> QED BY <2>1, <3>1, <3>2 DEF Progress, CancelHasDeadline, Sent
  <2>5. Count' BY <2>1 DEF Count, CancelStops, Lookups
  <2> QED BY <2>1, <2>2, <2>3, <2>4, <2>5 DEF Live, Kept, Sent
<1>2. ASSUME NEW failed \in BOOLEAN, Final(failed)
      PROVE  IInv' /\ canceled' = canceled /\ Live /\ (Kept \/ Ended)
  <2>0. Live /\ UNCHANGED method /\ addrl \in 0..MaxRecords /\ srvl \in 0..MaxRecords
    BY <1>2 DEF Final, Live, IInv, TypeOK
  <2>1. CASE ~canceled /\ RequestNext(addrl, srvl)
    BY <2>0, <2>1, RequestNextStep
  <2>2. CASE Terminate
    BY <2>0, <2>2, TerminateStep DEF canceled
  <2> QED BY <1>2, <2>1, <2>2 DEF Final
<1> QED BY <1>1, <1>2

-----------------------------------------------------------------------------
(* What holds always. *)

LEMMA Initially == Init => IInv
BY TransportsAssumption, MaxRecordsAssumption
   DEF Init, IInv, TypeOK, Life, Progress, Count, CancelStops, CancelHasDeadline,
       canceled, Methods, Lookups, Sent

LEMMA Stutter == IInv /\ UNCHANGED vars => IInv' /\ UNCHANGED canceled
BY DEF IInv, vars, dests, TypeOK, Life, Progress, Count, CancelStops, CancelHasDeadline, canceled

\* The cases of a step.
LEMMA Cases ==
  Next <=> \/ StartAddress \/ StartName
           \/ Cancel \/ Drop
           \/ \E n \in 0..MaxRecords : DnsAnswer(n) \/ Close
           \/ Provisional \/ \E failed \in BOOLEAN : Final(failed)
BY MaxRecordsAssumption DEF Next

\* IInv is inductive: who holds the request, where it is, and what a cancel found.
THEOREM Invariance == Spec => []IInv
<1>1. Init => IInv BY Initially
<1>2. IInv /\ [Next]_vars => IInv'
  BY Cases, StartStep, UserStep, LookupEnds, ResponseStep, Stutter
<1> QED BY <1>1, <1>2, PTL DEF Spec

\* The type invariant of SipRequest, lists of destinations within their bounds.
THEOREM TypeCorrect == Spec => []TypeOK
<1>1. IInv => TypeOK BY DEF IInv
<1> QED BY <1>1, Invariance, PTL

\* CancelStops: a cancelled request is not sent to a further destination (the
\* test of canceled in response_handler), however many there are.
THEOREM CancelStopsAlways == Spec => []CancelStops
<1>1. IInv => CancelStops BY DEF IInv, Count
<1> QED BY <1>1, Invariance, PTL

\* CancelHasDeadline: a cancelled INVITE waits with its timer running, whichever
\* of cancel and first provisional response came first.
THEOREM CancelHasDeadlineAlways == Spec => []CancelHasDeadline
<1>1. IInv => CancelHasDeadline BY DEF IInv, Progress
<1> QED BY <1>1, Invariance, PTL

\* The safety part of ImplementsContract: every step of the request is a step
\* its user was promised, or one the user does not see.
THEOREM ImplementsContractSafety == Spec => Contract!Safety
<1> DEFINE B == IF doing = "idle" THEN "none" ELSE IF doing = "freed" THEN "freed" ELSE "live"
<1>1. Init => Contract!Init
  BY DEF Init, Contract!Init, canceled
<1>2. IInv /\ [Next]_vars => [Contract!Next]_(Contract!vars)
  <2> SUFFICES ASSUME IInv, [Next]_vars
               PROVE  Contract!Next \/ UNCHANGED Contract!vars
    OBVIOUS
  <2>1. CASE StartAddress \/ StartName
    <3>1. B = "none" /\ user = "idle" /\ canceled' = canceled
      BY <2>1, StartStep
    <3>2. \/ user' = "waiting" /\ B' = "live"
          \/ user' \in {"gone", "sent"} /\ B' = "freed"
      BY <2>1, StartStep DEF Lookups, Sent
    <3> QED BY <3>1, <3>2 DEF Contract!Next, Contract!Start, Contract!StartFails
  <2>2. CASE Cancel \/ Drop
    <3>1. user = "waiting" /\ B = "live"
      BY <2>2, UserStep DEF IInv, Life, Lookups, Sent
    <3>2. \/ B' = B /\ canceled' /\ user' \in {"waiting", "gone"}
          \/ B' = "freed" /\ canceled' = canceled /\ user' = "gone"
      BY <2>2, UserStep
    <3> QED BY <3>1, <3>2 DEF Contract!Next, Contract!Cancel, Contract!Drop
  <2>3. CASE \/ \E n \in 0..MaxRecords : DnsAnswer(n) \/ Close
             \/ Provisional \/ \E failed \in BOOLEAN : Final(failed)
    <3>1. canceled' = canceled /\ Live /\ (Kept \/ Ended)
      BY <2>3, LookupEnds, ResponseStep
    <3>2. B = "live" BY <3>1 DEF Live, Lookups, Sent
    <3>3. CASE Kept
      BY <3>1, <3>2, <3>3 DEF Kept, Lookups, Sent, Contract!vars
    <3>4. CASE Ended
      BY <3>1, <3>2, <3>4 DEF Ended, Contract!Next, Contract!End, Contract!Reclaim
    <3> QED BY <3>1, <3>3, <3>4
  <2>4. CASE UNCHANGED vars
    BY <2>4, Stutter DEF vars, Contract!vars
  <2> QED BY <2>1, <2>2, <2>3, <2>4, Cases
<1> QED BY <1>1, <1>2, Invariance, PTL DEF Spec, Contract!Safety
=============================================================================
