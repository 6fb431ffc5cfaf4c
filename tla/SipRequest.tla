----------------------------- MODULE SipRequest -----------------------------
(***************************************************************************)
(* A SIP request on its way to one of several destinations                 *)
(* (re/src/sip/request.c): the DNS lookups that find them (NAPTR, SRV, A), *)
(* the client transaction with the present one, failover to the next on an *)
(* error or a 503, and the user, who may cancel or drop the request at any *)
(* of these stages.                                                        *)
(*                                                                         *)
(* DNS records are counted, not named.  A lookup asks for one record type: *)
(* the build has no IPv6.                                                  *)
(***************************************************************************)
EXTENDS Naturals

CONSTANTS
  Transports,  \* how many transports the phone supports (2: UDP and TCP)
  MaxRecords   \* Bound: how many records one DNS answer holds

ASSUME TransportsAssumption == Transports \in Nat \ {0}
ASSUME MaxRecordsAssumption == MaxRecords \in Nat \ {0}

VARIABLES
  method,  \* "INVITE", "ACK" (which is not stateful) or "other"
  doing,   \* "idle", the type of the pending dns_query, the state of the
           \* client transaction, or "freed"
  tmr,     \* the client transaction's timer
  addrl, srvl,  \* the lengths of the lists of destinations not tried yet
  tps,     \* transports whose SRV records have not been looked up
  flags,   \* which of canceled and provrecv are set
  resph,   \* the user's handler
  user,    \* ghost: what the user knows; "waiting" while reqp is set
  when,    \* ghost: what was being done when it was cancelled
  late     \* ghost: how often it was sent since

dests == <<addrl, srvl, tps>>
vars == <<method, doing, tmr, dests, flags, resph, user, when, late>>

Methods == {"INVITE", "ACK", "other"}
Lookups == {"NAPTR", "SRV", "A"}
Sent == {"calling", "proceeding"}

canceled == "canceled" \in flags

Init ==
  /\ method \in Methods
  /\ doing = "idle" /\ tmr = "off"
  /\ addrl = 0 /\ srvl = 0 /\ tps = 0
  /\ flags = {} /\ resph = "set" /\ user = "idle"
  /\ when = "never" /\ late = 0

-----------------------------------------------------------------------------
\* The request is destroyed; its user gets to know what.
Gone(what) ==
  /\ doing' = "freed" /\ tmr' = "off"
  /\ addrl' = 0 /\ srvl' = 0 /\ UNCHANGED tps
  /\ resph' = "null" /\ user' = what
  /\ UNCHANGED <<flags, when, late>>

\* terminate and mem_deref.
Terminate == Gone(IF resph = "set" THEN "told" ELSE user)

\* request: the destination is sent to; who got a stateless request is not known.
\* Mutant: provrecv is still that of the destination before.
RequestKeepsProvrecv(a, s) ==
  IF method = "ACK" THEN Gone("sent")
  ELSE /\ doing' = "calling" /\ tmr' = "on"
       /\ addrl' = a /\ srvl' = s /\ UNCHANGED tps
       /\ UNCHANGED flags
       /\ late' = IF canceled THEN late + 1 ELSE late
       /\ UNCHANGED <<resph, when>>

Request(a, s) ==
  IF method = "ACK" THEN Gone("sent")
  ELSE /\ doing' = "calling" /\ tmr' = "on"
       /\ addrl' = a /\ srvl' = s /\ UNCHANGED tps
       /\ flags' = flags \ {"provrecv"}
       /\ late' = IF canceled THEN late + 1 ELSE late
       /\ UNCHANGED <<resph, when>>

\* dnsc_query, if it can be sent.  A destination that was passed over before it
\* has reset provrecv.
Lookup(type, s, t) ==
  /\ doing' = type /\ tmr' = "off"
  /\ addrl' = 0 /\ srvl' = s /\ tps' = t
  /\ flags' \in {flags, flags \ {"provrecv"}}
  /\ UNCHANGED <<resph, when, late>>

\* request_next, with a addresses and s SRV records left: addresses that cannot
\* be sent to are passed over; a SRV record brings addresses that came with it,
\* or has to be looked up.
RequestNext(a, s) ==
  \/ /\ \/ \E x \in 1..a : Request(x - 1, s)
        \/ \E y \in 1..s, x \in 1..MaxRecords : Request(x - 1, y - 1)
     /\ IF method = "ACK" THEN TRUE ELSE UNCHANGED user
  \/ \E y \in 1..s : Lookup("A", y - 1, tps) /\ UNCHANGED user
  \/ Terminate

-----------------------------------------------------------------------------
(***************************************************************************)
(* sip_request and the user.                                               *)
(***************************************************************************)
\* The destination is an address: it is sent to at once.
StartAddress ==
  /\ doing = "idle"
  /\ \/ Request(0, 0) /\ IF method = "ACK" THEN TRUE ELSE user' = "waiting"
     \/ Gone("gone")
  /\ UNCHANGED method

\* It is a name: with a port its address is asked for, with a transport its
\* SRV records, else its NAPTR records.
StartName ==
  /\ doing = "idle"
  /\ \/ \E type \in Lookups : Lookup(type, 0, 0) /\ user' = "waiting"
     \/ Gone("gone")
  /\ UNCHANGED method

\* sip_ctrans_cancel gives an INVITE that had its timer stopped a deadline.
CtransCancel(state) == IF state = "proceeding" /\ method = "INVITE" THEN "on" ELSE tmr

SipRequestCancel ==
  IF canceled THEN UNCHANGED <<flags, tmr, when>>
  ELSE /\ flags' = flags \cup {"canceled"} /\ when' = doing
       /\ tmr' = IF "provrecv" \in flags THEN CtransCancel(doing) ELSE tmr

Cancel ==
  /\ user = "waiting" /\ ~canceled
  /\ SipRequestCancel
  /\ UNCHANGED <<method, doing, dests, resph, user, late>>

\* destructor: a stateful request lives on, cancelled and without its user.
\* Mutant: its handler is still called.
DropKeepsHandler ==
  /\ user = "waiting"
  /\ IF method = "ACK" THEN Gone("gone")
     ELSE /\ SipRequestCancel
          /\ user' = "gone"
          /\ UNCHANGED <<doing, dests, resph, late>>
  /\ UNCHANGED method

Drop ==
  /\ user = "waiting"
  /\ IF method = "ACK" THEN Gone("gone")
     ELSE /\ SipRequestCancel
          /\ user' = "gone" /\ resph' = "null"
          /\ UNCHANGED <<doing, dests, late>>
  /\ UNCHANGED method

\* close_handler: the SIP stack is closed.
Close ==
  /\ doing \notin {"idle", "freed"}
  /\ Terminate
  /\ UNCHANGED method

-----------------------------------------------------------------------------
(***************************************************************************)
(* Answers of the DNS, an error being an answer without records.           *)
(***************************************************************************)
\* naptr_handler: n SRV records came along with a usable NAPTR record, or the SRV
\* records of each transport have to be asked for.
NaptrHandler(n) ==
  /\ doing = "NAPTR"
  /\ IF n > 0 THEN RequestNext(0, n)
     ELSE \/ \E t \in {0, Transports - 1} : Lookup("SRV", 0, t) /\ UNCHANGED user
          \/ Terminate
  /\ UNCHANGED method

\* srv_handler: without a record the next transport's are asked for, after the
\* last the address of the name itself.
SrvHandler(n) ==
  /\ doing = "SRV"
  /\ IF n > 0 THEN RequestNext(0, n)
     ELSE \/ /\ IF tps > 0 THEN Lookup("SRV", 0, tps - 1) ELSE Lookup("A", 0, 0)
             /\ UNCHANGED user
          \/ Terminate
  /\ UNCHANGED method

\* addr_handler.
AddrHandler(n) ==
  /\ doing = "A"
  /\ IF n = 0 /\ srvl = 0 THEN Terminate ELSE RequestNext(n, srvl)
  /\ UNCHANGED method

-----------------------------------------------------------------------------
(***************************************************************************)
(* response_handler.                                                       *)
(***************************************************************************)
\* A provisional response stops the timer of an INVITE; the first one sends the
\* CANCEL that was put off.
Provisional ==
  /\ doing \in Sent
  /\ doing' = "proceeding" /\ flags' = flags \cup {"provrecv"}
  /\ tmr' = IF canceled /\ "provrecv" \notin flags /\ method = "INVITE" THEN "on"
            ELSE IF doing = "calling" /\ method = "INVITE" THEN "off" ELSE tmr
  /\ UNCHANGED <<method, dests, resph, user, when, late>>

\* A final response, or the end of the transaction without one.
\* Mutant: a cancelled request fails over as well.
FinalFailsOver(failed) ==
  /\ doing \in Sent
  /\ IF failed /\ addrl + srvl > 0 THEN RequestNext(addrl, srvl) ELSE Terminate
  /\ UNCHANGED method

Final(failed) ==
  /\ doing \in Sent
  /\ IF failed /\ ~canceled /\ addrl + srvl > 0 THEN RequestNext(addrl, srvl) ELSE Terminate
  /\ UNCHANGED method

Timeout == tmr = "on" /\ Final(TRUE)

DnsAnswer(n) == NaptrHandler(n) \/ SrvHandler(n) \/ AddrHandler(n)

Next ==
  \/ StartAddress \/ StartName \/ Cancel \/ Drop \/ Close
  \/ \E n \in 0..MaxRecords : DnsAnswer(n)
  \/ Provisional \/ \E failed \in BOOLEAN : Final(failed)

Spec == Init /\ [][Next]_vars

\* A DNS query has a timer (dns/client.c), and so has the transaction, except
\* for an INVITE that is being processed.
Fairness ==
  /\ WF_vars(\E n \in 0..MaxRecords : DnsAnswer(n))
  /\ WF_vars(Timeout)

FairSpec == Spec /\ Fairness

-----------------------------------------------------------------------------
(***************************************************************************)
(* Properties.                                                             *)
(***************************************************************************)
TypeOK ==
  /\ method \in Methods
  /\ doing \in {"idle", "freed"} \cup Lookups \cup Sent
  /\ tmr \in {"off", "on"}
  /\ addrl \in 0..MaxRecords /\ srvl \in 0..MaxRecords /\ tps \in 0..(Transports - 1)
  /\ flags \subseteq {"canceled", "provrecv"}
  /\ resph \in {"set", "null"}
  /\ user \in {"idle", "waiting", "told", "sent", "gone"}
  /\ when \in {"never"} \cup Lookups \cup Sent /\ late \in Nat

\* A request that was sent is not sent to another destination once it is
\* cancelled; one that is still looked up goes out to one of them after all
\* (sip_request_cancel only leaves a note), but not to a second.
CancelStops == late <= IF when \in Lookups THEN 1 ELSE 0

\* A cancelled INVITE never waits without a timer, whichever destination it is
\* at and whether the cancel came before, during or between destinations.
CancelHasDeadline == canceled /\ doing \in Sent => tmr = "on"

\* The user is told once and never after it dropped the request, and whatever
\* is cancelled or dropped comes to an end.
Contract == INSTANCE RequestContract WITH
  block <- IF doing = "idle" THEN "none" ELSE IF doing = "freed" THEN "freed" ELSE "live",
  cancel <- canceled
ImplementsContract == Contract!Spec
=============================================================================
