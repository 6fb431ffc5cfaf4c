# Formal models of STM32-SIP

STM32-SIP is a SIP softphone for an STM32F429 Nucleo board: the libre protocol
library (`re/`), the baresip user agent (`baresip/`), the DSP helpers of librem
(`rem/`) and the board application (`softphone/`), on FreeRTOS and lwIP. This
directory holds TLA+ models of it, TLC configurations that check them on small
instances, and proofs for TLAPS. `PROJECT.json` is the index: components, runs,
the source lines of every definition, hazards with the properties that cover
them, and for each property a mutated definition under which it fails.

All of the program's own logic runs in one FreeRTOS task, which calls
`re_main`; only the DMA and tick interrupts run beside it. The hard
interleavings are therefore not those of threads: they are the orders in which
responses, requests of the peer, timers and commands of the user reach the
handlers; the handlers that call back into the code that called them; what the
network loses, repeats and reorders; and the interrupt against the poll.


## 1. The system

| Component | State it keeps | Operations and how it is driven | Hard behaviour | What makes it correct |
|---|---|---|---|---|
| Sessions, `re/src/sipsess` | `struct sipsess`: reference count, pending request, server transaction, unacknowledged 2xx, INFO list, retry timer, put-off modification | connect, accept, progress, answer, modify, INFO, release; response handlers; ACK, BYE, CANCEL, re-INVITE and INFO of the peer; two timers; calls the user back | handlers re-enter the session; glare; late ACK; freeing while work is pending | exact references, one INVITE exchange at a time, nothing put off is lost, no upcall to a user that is gone, BYE attempted, memory reclaimed |
| INVITE transactions, `re/src/sip/ctrans.c`, `strans.c`, `sipsess/ack.c`, `sipsess_reply.c` | client transaction with timers, server transaction with the last response, repeated 2xx and ACK | request, cancel, reply; datagrams; timers A to I | loss, duplication, reordering, CANCEL crossing 2xx, a response that cannot be sent | one result per request, both ends agree, one INVITE rings once, a cancelled INVITE ends |
| Requests, `re/src/sip/request.c` | address and SRV lists, current transaction, `provrecv`, `canceled` | `sip_request`, cancel, failover; DNS answers, responses | failover against cancel, late provisional responses | one result, no further destination after a cancel |
| Timers and main loop, `re/src/tmr`, `re/src/main`, `re/src/sys` | ordered timer list, the wrapping tick, the polling flag | `tmr_start`, `tmr_cancel`, `tmr_poll`, `select`, the control handler | handlers change the list that is being served; zero delays; the tick wraps | order, no early timer, none forgotten, sleep ends in time |
| Dialogs and authentication, `re/src/sip/dialog.c`, `auth.c` | route, tags, CSeq; realms and nonces | create, update; challenge | challenge loops | bounded retries |
| Transport, `re/src/sip/sip_transp.c`, `keepalive*.c` | sockets, TCP connections, keep-alive users | send, receive, connection loss | reuse of a connection that closes | every sender hears of the loss |
| Registration, `re/src/sipreg`, `baresip/src/reg.c` | refresh timer, failure count, pending request, keep-alive; the client in use and its last status | register, unregister, responses, timer, loss of the flow | a client that was let go and its successor talk to the same registrar; back-off; answers after unregister | never silently unregistered, refreshed in time, status of the client in use, binding taken back |
| Subscriptions, `re/src/sipevent`, `presence`, `dialog_info` | `struct sipsub`: references, request, dialog, timer; the contact's subscription | SUBSCRIBE, NOTIFY, refusals, expiry | NOTIFY before the answer, or for a subscription given up; forked answers; destructor that revives | one owner, something to wait for, reclaimed, a new attempt after each end |
| SDP, `re/src/sdp` | media lines, formats, direction | encode, decode, match | offer against answer state | answer is a subset of the offer |
| DNS client, `re/src/dns` | queries, retries, cache | query, answer, timeout | late or mismatched answers | one answer per query |
| RTP, jitter buffer, telephone events, `re/src/rtp`, `jbuf`, `telev` | ordered frames, last number put, source; event in progress | put, get, flush, packets | wrap, late and doubled packets, a pool that runs out, a source that changes | frames in order, none lost that came in order |
| Calls and user agents, `baresip/src/call.c`, `ua.c` | call state, session, timers, stream, subscription of a REFER; tone of the user agent | connect, answer, hang up, transfer; session upcalls, RTP timeout | five ends of a call; a call and its transfer share a subscription; tones | nothing calls back into a freed call, the ringback stops, incoming calls end |
| Audio, `baresip/src/audio.c`, `stream.c`, `rem/src/aubuf` | sources, players, buffers, RTP timeout | start, stop, frames | restart while frames flow | no frame after stop |
| Audio drivers, `softphone/src/dac.c`, `adc.c`, `audio_dac`, `audio_adc` | DMA halves, client tables | register, unregister, poll, interrupt | interrupt between two reads of one pointer | the half being played is not written, each half used once |
| Shell, UART and web page | line buffer, receive ring | characters, commands | ring overrun | no input lost silently |
| Phone application, `softphone/src/sip_ua.c`, `main.c` | `app.callp`, accounts | control handler, events of the user agent, shell commands | a pointer to a call that closed | commands reach a living call |
| Below | FreeRTOS, lwIP, HAL, speex, webrtc, g722 | | | vendored; only the tick is part of a model |

Calls go down (shell → user agent → call → session → request → transaction →
transport) and events come back up by callbacks on the same stack. Below
everything is the main loop: datagrams and timers are the only ways anything
happens, apart from shell characters and audio samples, which the control
handler polls once per turn.

## 2. The modules

### SipSession (with SessionContract, SipSession_proofs, MCSipSession)

`sess` is `struct sipsess` with the fields that control anything; `role` says
which end made it, `rseq` counts the peer's INVITEs, `ups` is a ghost: the
user's handlers that the last step called. A C function that others call in
the middle of their work (`termwait`, `terminate`, the destructor,
`mem_deref`, `sipsess_reinvite`, `sipsess_bye`) is an operator from session
records to session records, and the handler that calls them is one action with
all their effects; so `closeh`, which drops the call's reference, which runs the
destructor, which sends BYE, is one step as in the code. `mem_deref` and the
destructor that takes a reference on the object being destroyed are modelled
exactly: `Deref` runs `Destructor` at zero, which frees only if the count is
still zero afterwards. Whether a request can be sent, whether a handler of the
user accepts a description, and what a response is, are chosen by `\E`.
Responses are told apart as the handlers do: 2xx, 3xx, 401/407, 408/481, 491,
500 with Retry-After, other failures, `ETIMEDOUT`, other errors.

| Actions | Code |
|---|---|
| Connect, Accept, Progress, Answer, Modify, SendInfo, Release | the functions of `connect.c`, `accept.c`, `modify.c`, `info.c`, and baresip giving its reference back |
| RecvProvisional, InviteOk, InviteFail | `invite_resp_handler` |
| ReinviteOk, ReinviteFail | `reinvite_resp_handler` |
| ByeFinal, InfoFinal | `bye_resp_handler`, `info_resp_handler` |
| Ack, PeerBye, PeerCancel, PeerReinvite, PeerInfo | `listen.c`, `cancel_handler` |
| ReplyTimeout, RetryFires | the timer handlers of `sipsess_reply.c`, `modify.c` |

`SessionContract` is what the user may rely on: it owns a session from open to
over, over happens once, the memory is not given back before and is afterwards.

### InviteExchange (with InviteContract, InviteExchange_proofs, MCInviteExchange)

Two phones and a UDP network. The caller has a request (`flags`, `told`), the
client transactions of the INVITE (`ct`, `tmr`) and of the CANCEL (`cancelct`),
the memory of a 2xx's ACK (`ack`), and the session its dialog was made with
(`peer`); the callee has the server transaction (`st`) and the sessions as far as
they matter here (`uas`). `net` is a set of
messages: an action that receives one leaves it there, so it can arrive again,
in any order; `Lose` takes it away. Retransmissions, failed sends on both sides
and timers are actions of their own. `told`, `offered` and `failed` are ghosts.

`told` records every call of the user's response handler with a final result, so
that the same result told twice is seen; only repeated progress is one entry.

The callee forgets an INVITE when its transaction's timer fires, and the code asks
nothing of the network then. What the timers say of the caller is written in the
guard of `ServerTimeout` (`Expires`): the timer runs for 64*T1 from a final response,
the caller's for 64*T1 from its first INVITE, so the caller no longer repeats it. But
the last copy is sent at 63*T1 = 31.5 s and may stay under way for T4 = 5 s, while a
callee that answered or refused at once forgets after 32 s: that copy makes a second
session. `life` says which session the server transaction has, and a 2xx and its ACK
carry the tag of theirs, so that the caller takes no second session for the one it
talks to. It happens once: a second transaction ends 64*T1 later still, and one that
was acknowledged has waited for T4 after the last INVITE, which was sent before the
ACK. That a message lives for T4 at most is the assumption here.

`InviteContract` is the exchange as the two users see it: what the caller was
told, what became of the call, whether the caller wants out, and two promises of
progress: a caller that cancels is told an end, and a callee that answered
hears whether the answer arrived.

### SipRequest (with RequestContract, SipRequest_proofs, MCSipRequest)

One request of `request.c` between `sip_request` and its end. `doing` is what it
waits for: the answer to a DNS query (NAPTR, SRV, A) or its client transaction.
`addrl`, `srvl` and `tps` say how much is left to try; records are counted, since
nothing depends on what they hold except their order. `flags` are `canceled` and
`provrecv`; `user`, `when` and `late` are ghosts: what the user knows, where a cancel
found the request, and how often it was sent after that. `RequestNext` follows
the loop of `request_next`: addresses that cannot be sent to are passed over, a SRV
record brings addresses along or is looked up, and at the end there is none. The
actions are `sip_request` (StartAddress, StartName), the user (Cancel, Drop), the
three DNS handlers, the two halves of `response_handler` (Provisional, Final, the
latter also being what a transaction's timer leads to) and `close_handler`.

A request that is dropped is not freed: its destructor takes a reference, forgets
the user and cancels, and the handlers go on until the request ends. A cancel
during a DNS lookup only sets `canceled`; nothing looks at it when the answer
comes, so the request is sent to one destination after all and cancelled there.
`CancelStops` says so: to one, and never to a second.

InviteExchange sees the same request at one destination, in front of a real
network; SipSession sees only its results. `RequestContract` is what both rely on:
one final result, or none for a user that dropped it, and a cancelled request ends.

### EventLoop (with Lists_proofs, MCEventLoop)

The task between `re_main` and its return. `pc` is the place in the loop;
`tmrl` is the timer list with the deadlines as the code computes them (`jfs`)
and, as ghosts, when and for how long each was started; `th` is the set of timers
whose handler is set, which is what `tmr_start` and `tmr_cancel` look at to know
whether a timer is linked; `prev_tick` and `tick64` are the static variables of
`gettimeofday`, `now` is real time. Between any two steps time may pass; it may
not while the thread is in `select` past its timeout. A handler may start or
cancel any timer, its own too, and stop the loop. `net.tmr` (`ipchange_handler`)
is special: it is always started again by its own handler, and is what keeps
the timer list from being empty.

`Handlers` stands for every user of timers, the timers of the other modules
included: what `EventLoop` shows (timers are served when due, never early,
also under restarts and cancellation) is what their fairness on timers assumes.

### Call (with Call_proofs, MCCall)

The calls of a user agent. `call` is `struct call` of every block with the parts
that call back through a bare pointer: the session as the call sees it (`sess`),
the timer of an incoming call (`tmr`), the stream (`media`), the RTP check (`rtp`)
and the subscription of a REFER (`not`, with `notifier` as the other end: the call
its close handler is given). `play` is the user agent's tone and `callp` the
application's one call. Each of the parts keeps its own state and its action is
guarded by that alone, not by the life of the call: had the destructor forgotten
one, it would fire on a freed block. That is what `NothingLeftBehind` excludes and
its mutant shows.

| Actions | Code |
|---|---|
| Incoming, InviteTimeout | `sipsess_conn_handler` in `ua.c` and `call.c`, the application's answer modes, `invite_timeout` |
| DialOut, Trying, Progress, Established | `ua_connect`, the session's upcalls, and the tone that `ua.c` starts or stops with each event |
| SessCloses, RtpTimeout, Hangup | the three other ends of a call |
| ReferFails, Refer, NotifierCloses | `sipsess_refer_handler`, the TRANSFER event, the end of the subscription |
| HangupStale | the command `sipua hangup` with a pointer that is stale |

SessionContract is the environment of a call: the session is there until it says it
is over. A block that a pointer still names is not handed out again, so that a stale
pointer is always seen as one.

### Registration (with Registration_proofs, MCRegistration)

`client` is `struct sipreg` of every client: baresip makes a new one for each
`ua_register` and lets the old one go, which then takes its binding back and frees
itself, while both talk to one registrar about one contact. `sipreg` and `scode` are
`struct reg`. `Destroy` and `Out` are the destructor and the end of
`response_handler`: who is let go, freed, or sent off with a last request. `Refused`
and `Retries` are the rest of `response_handler` with `sip_request_loops`; `Refresh`
and `FlowFails` the timer and the keep-alive handler. Time is in milliseconds in
steps of `Tick`; `bound` is how long the registrar still keeps the binding, and
`lapsed` remembers that it ran out under a registered client. The registrar answers
at once on this clock, or the request is lost and ends in an error later; it may
challenge, grant less than was asked for, deny for any reason, or serve the last
request of an old client after the first one of the new. A 2xx lists the binding
with its interval, without one, or under a URI that is not the client's (`form`); `Wait`
is what `contact_handler` makes of it. A first request that cannot be sent leaves no
client: `ua_register` reports the error and nothing tries again, so Attended is about
clients that got that far.

### Subscription (with SubscriptionContract, Subscription_proofs, MCSubscription)

`sub` is `struct sipsub` of every block, `pres` the `struct presence` that owns one at
a time, `shown` what the contact list displays. As in SipSession the destructor may
take a reference on what it is destroying: `Terminate` does, for a pending request, for
the request that unsubscribes, and for the NOTIFY that confirms it; `Deref` frees only
if it did not. `Request`, `Out` and `Closes` (with the user's close handler, which
calls back into the subscription) are shared by the handlers of the refresh timer, of
answers, of NOTIFY and of the NOTIFY that does not come. The peer may answer
anything and notify at any time, before its answer too.

`SubscriptionContract` is what the contact list and the memory rely on: a state is
shown only while there is a subscription, its end is always followed by a new attempt,
and what was given up is reclaimed.

One exception is in the model because it is in the code: a 2xx of another branch than
the one the dialog was made with is ignored after the request has been taken off the
subscription, so nothing is left that would refresh or reclaim it (`stranded`). It is
excluded by name in `Attended` and in the refinement, so that nothing else can hide
behind it; of the stranded block itself no property speaks.

### Jbuf (with Lists_proofs, MCJbuf)

The receive path of a stream: `rtp_recv` of `stream.c`, which puts each packet into the
jitter buffer and takes at most one out, and `jbuf.c` itself. Sequence numbers are
compared modulo `Modulus` as the code compares `int16_t` differences, and wrap within
the run; frames come from a pool of `MaxFrames`, and when it is empty the oldest gives
way; duplicates are found only after a frame was taken for them. The network loses,
doubles and delays packets of two sources. A packet is known by its real place `k` in
its stream, which the code does not see and the properties use. `jbuf_alloc` accepts a
minimum equal to the maximum; nothing would ever be played then, so `FramesAssumption`
excludes it (the phone has 3 and 6).

### AudioDma (with AudioDma_proofs, MCAudioDma)

The DMA of the DAC and of the ADC and the polls of the main loop. The interrupt may
come between any two steps of `dac_poll`, which reads `samples_ptr` three times, to
compare, to remember and to use it; `adc_poll` reads its pointer once. Nothing but
time protects a half, so time is modelled: `H` ticks for a half, at most `P` from one
poll to the next and `F` for both polls, with `FastEnough` (`P + F <= H`). The
assumption is tight: with `H` 11 instead of 12, TLC finds a half that is used twice.
What a poll that comes too late loses, and two flags that are pending when one
interrupt handles one of them (`adc.c:243`), are outside the model.

## 3. Runs

| Run | Shows | Bounds |
|---|---|---|
| `sipsession` | nine safety properties of a session | `MaxSeq` 3: the first INVITE and two re-INVITEs, so that one reply can be outstanding when the next arrives; `LoopMax` 3 where the code has 16: counting up, the reset and the limit all happen; one INFO slot (every handler treats INFO requests one at a time, and "last one of the list" needs none, one and the refusal of more) |
| `sipsession_live` | reclamation, and SessionContract with liveness | `MaxSeq` 2, `LoopMax` 2 |
| `invite_exchange` | four invariants, reclamation and InviteContract with liveness | `MaxFailed` 2: the callee may ring four times; two sessions of the callee, as many as the timers allow; message contents do not matter, so one copy of each kind in a set is exact for any number of copies |
| `sip_request` | no further destination after a cancel, deadlines, RequestContract with liveness | two transports (the phone's UDP and TCP), answers of up to two records, so that a list has a next element after one was taken, and failover goes both to an address and to a SRV record |
| `eventloop` | order, deadlines and clock | two timers besides the network timer, delays 0, 1 and 3, a tick that wraps every 4 ms and a horizon of 7 ms, so a wrap falls inside delays and sleeps; `MaxBusy` 3 < `Width` |
| `registration` | attendance, status, refresh in time, unbinding, and that a binding is always regained | two clients, the second replacing the first; 120 s asked for, all or 100 s granted, 180 s for a Contact without an interval (3600 s in the code, but like it longer than any grant); two faults, so that a retry can fail too; a step of 10 s, a tenth of the shortest binding |
| `call` | nothing left behind, the ringback, the end of incoming calls | three calls and two subscriptions: a call, its transfer, the transfer of that, and a REFER that replaces another; `MAX_CALLS` 1 as in the phone |
| `call_hangup` | violation: a hang-up of a call that has closed | the phone's answer mode |
| `audio_dma` | no torn half, none lost or used twice | a half of 12 ticks, a loop that takes all the time it has |
| `jbuf` | the buffer is sorted, counted and of one source; what came in order is played without a gap | the phone's 3 to 6 frames; 5-bit numbers that wrap after the third packet; nine packets a source, overtaken by up to four others, up to two lost in a row |
| `jbuf_late` | violation: a packet is played twice | one source, no loss |
| `subscription` | attendance, and SubscriptionContract with liveness | one subscription in use and one given up; three failures to the loop guard |

The properties, and where they come from:

- **RefsExact, FreedClean**: each reference is owed by the user or, after the
  end, by one kind of pending work; the destructor never cuts an exchange.
- **OneExchange, ModifyKept, OfferCarried, AnswerAwaited**: request, retry timer
  and unacknowledged 2xx exclude each other, though `sipsess_modify`,
  `reinvite_handler` and `ack_handler` each test only a part of it; a put-off
  modification is always picked up by something still to come, with its
  description; the peer's INVITEs are refused for want of an answer only while
  one can still come.
- **ByeSent, UpcallsToOwner, UpcallOrder**: established sessions try BYE; no
  handler runs for a user that let go; `estabh` once, `closeh` at the end.
- **ToldOnce, Agreement, RingsOnce, CancelHasDeadline**: the caller hears one
  final result, once; what one end believes (answered, refused, acknowledged,
  cancelled) was so at the other; copies of an INVITE ring once, with the two
  exceptions below; a cancelled INVITE has its timer running, whatever the order of cancel and responses.
- **CancelStops, CancelHasDeadline** of SipRequest: a cancel holds through failover,
  and through a change of destination, which resets `provrecv`: the first
  provisional response of the new one must send the CANCEL again.
- **ThMeansLinked, InOrder, NotEarly, WakesInTime, Served, ClockTrue**: the list
  stays what `tmr_start` and `tmr_poll` need it to be while it is served; no
  timer is early or left behind; the loop always wakes for the control handler;
  the 64-bit time is true across wraps.
- **Attended, StatusTrue, RefreshedInTime, Unbound, Rebound** of Registration: a
  client waits for exactly one thing; "registered" is never the answer to an older
  client's last request; the binding lapses only after a fault or an answer that
  hides what was granted (see below), and is regained after any; when all are gone and nothing failed, the registrar has none left.
- **NothingLeftBehind, RingbackOwned, IncomingEnds** of Call: see above; early media
  must not stop the timer of an incoming call, and no path out of the set-up leaves
  the ringback on.
- **NoTear, EachHalfOnce** of AudioDma, whatever falls between the reads of the pointer.
- **BufferTrue, InOrderKept** of Jbuf: across wraps, duplicates, losses and reordering;
  and the frames of the pool suffice.
- **Attended** of Subscription: exact references, and something to wait for.
- **Reclaimed** (sessions, server transactions) and **ImplementsContract** (sessions,
  requests, exchanges, subscriptions).

That every variable keeps its type is no property of the runs: the proofs show it for
every value of the constants (of Jbuf, as a part of `JbufInv`).

Two runs end in a violation, each a disagreement of the code with its own comments:

- `call_hangup`: `sip_ua.c` keeps `app.callp` when the call closes (line 247), the user
  agent frees the call, and a later `sipua hangup` passes the pointer to `ua_hangup`,
  which says it wants a call or NULL.
- `jbuf_late`: the test "Packet arrived too late to be put into buffer"
  (`jbuf.c:216`) is off by one, so that a duplicate of the packet just played is put
  at the front and played again.

RingsOnce, `offered <= life + failed`, has two exceptions. If the callee's response
cannot be sent, `sip_strans_reply` frees the server transaction under its session
(`strans.c:357`), and the next copy of the INVITE is a new call, while the session of
the first can be neither answered nor cancelled and stays until the user agent's own
timeout (`failed`). And the last copy of the INVITE can find its transaction forgotten
(`life`, see InviteExchange above). The property is that nothing else rings again:
neither a copy before that, nor any after.

RefreshedInTime has two exceptions as well. One is a fault. The other is a registrar
that grants less than the client reads from its answer (`misled`): `contact_handler`
finds the interval only in the Contact that equals the URI the client sent, goes by
3600 s if that Contact and the message have none, and the client goes by what it asked
for if no Contact is equal, as behind a registrar that rewrites it (`reg.c:157`, `166`,
`189`). The binding may then run out before it is refreshed, and the next refresh,
which comes late, makes it anew (Rebound). A registrar that grants all that was asked,
or says what it grants to the Contact it was given, meets neither.

CHECK_DEADLOCK is off where a model really stops: a session, an exchange and a request
end, the loop stops by `re_cancel`, the last registration client frees itself, the
module with the subscription is unloaded. It is on for Call, AudioDma and Jbuf, which
can always go on.

### Fairness

- SipSession: the two timers fire; a BYE, an INFO and a cancelled INVITE get a
  final response or an error, because the client transaction has a timer for
  each (`ctrans.c`: `tmr` for 64*T1, restarted by `sip_ctrans_cancel`). Nothing
  is assumed of an INVITE that was answered provisionally and not cancelled.
- SipRequest: a DNS query gets an answer or its retries run out (`dns/client.c`),
  and a transaction whose timer runs is timed out. An INVITE that is being
  processed has none, unless it is cancelled.
- InviteExchange: timers that run expire, messages leave the network. No
  message is assumed to arrive and no user to answer.
- Registration: timers that are due and answers that arrived are handled, the registrar
  answers what reaches it, time goes on. Faults are bounded by `MaxFaults`, so `Rebound`
  says that the client recovers once they stop.
- Call: the timer of an incoming call fires (EventLoop). No caller, callee, user or
  RTP stream is assumed to do anything.
- Subscription: a pending request ends (by an answer or its transaction's timer) and
  the 10 s timer for the last NOTIFY fires. No NOTIFY is assumed to come.
- AudioDma and Jbuf have none: what they promise is safety, and in AudioDma time cannot
  pass the loop's deadlines.
- EventLoop has no fairness: `Served` is an action property, and `WakesInTime`
  bounds the sleep, which is all the loop itself has to contribute.

## 4. Proofs

`SipSession_proofs` proves, for any `MaxSeq`, `LoopMax` and set `Infos`, the
theorems TypeCorrect, RefsSound, NothingDangling, ExchangeSound, ModificationKept,
OfferKept, AnswerToCome, ByeAttempted, UpcallsSound and UpcallsOrdered, every safety
property of the run, and ContractSafe: every step is a step of SessionContract or a
stutter.
None of the invariants is inductive alone. The reference count can be known
only with the stage the session is in: `IInv` is a case distinction over the
stages (not there, owned, waiting after `termwait`, waiting for its own BYE,
freed) with, in each, the count, the possible requests, and what is set or
cleared. The exchange properties need each other: `OneExchange` is kept by
`sipsess_reinvite` only because `ModifyKept` says when a modification is
pending. The proof first states, for each operator on session records, what it does to
the fields (the lemmas `Put...Facts`, then one per C function), then that each
action keeps `IInv`. UpcallsOrdered and ContractSafe are about steps, so they need what
a step never undoes (`Later`): an ownership once given up, `established`, and an INVITE
once answered. That is shown operator by operator for the four fields concerned; with
`IInv` it gives `Unanswered`, that the first INVITE is pending only in a session not
yet established, which is why `estabh` cannot come a second time from there.

`InviteExchange_proofs` proves, for any `MaxFailed`, TypeCorrect,
ToldOnceAlways, AgreementAlways, RingsOnceAlways, DeadlineAlways, and
ImplementsContractSafety: every step is a step of InviteContract or a stutter.
`IInv` adds to the properties what messages under way say of the past (a 2xx in
the network means that session answered; an ACK that the caller was told), that
the second session begins only when the first has answered or refused, and that no
INVITE is left once the session in `life` is forgotten, which is where the lifetime
assumption enters. ImplementsRequestSafety follows from it: what InviteContract
lets the caller see is what RequestContract (from `Started` on, since the exchange begins
with the request under way) promises the user of any request, so that InviteExchange and
SipRequest, which have the two halves of `request.c`, promise the same.

`SipRequest_proofs` proves, for any `Transports` and `MaxRecords`, TypeCorrect,
CancelStopsAlways, CancelHasDeadlineAlways and ImplementsContractSafety. `IInv`
adds who holds the request at each stage (`Life`), that timer, state and
`provrecv` agree (`Progress`: a call without a provisional response has a timer and
no `provrecv`), and that a cancelled request that is still looked up was
cancelled while it was looked up and has not been sent since (`Count`). There is
one lemma for each way on (destroyed, sent, looked up, next destination), which
the handlers share as they do in the code, and one for each group of actions.

`Lists_proofs` proves all six properties of EventLoop for every `Width`, horizon,
set of timers and delays, as long as the thread is not busy for a whole round of the
tick (`MaxBusy < Width`). It has three parts. The arithmetic of `gettimeofday`: if less
than `Width` has passed since the last reading, comparing the two readings tells
exactly whether the counter wrapped (ClockIsTrue). The list: inserting behind all that
are due no later keeps the order of deadlines and, among equals, of starts; unlinking
keeps the rest. And the steps of the loop, where the invariant must say what
`tmr_poll` has read of the clock and what handlers have put in the list since: from
that the sleep never passes the first deadline, and a turn leaves nothing that was
due when it began.

`Lists_proofs` also proves Jbuf, whose list is sorted by insertion as that of the timers
is and which shares the lemmas on sequences: BufferAlwaysTrue, AlwaysInOrderKept and
InOrderNeverReplayed, for every pool, minimum, modulus, first number, number of packets
and sources, and every network that `NetworkAssumption` admits. The code compares numbers
modulo `Modulus`; `SeqNear` says that this is the order in which the packets were sent
as long as they are less than half the numbers apart, so `PositionFinds` the place where
a packet belongs. What keeps them near is the inductive invariant: two neighbours in
the buffer are no further apart than the network can lose and reorder, the last frame is
no more than `Overtaken` behind the newest packet, there are at most `MinFrames`
frames, and `seqPut` is the number of a recent packet. At most one packet is put before
one is taken, so the pool never runs out in this use of it, and the branch of
`frame_alloc` that takes the oldest frame is not reached. NewestKept says that the
test for packets that are too late, though it is taken from the last packet put and the
fill level, never throws away one that is newer than all before it. InOrderNeverReplayed
is an action property, like NewestKept: a packet is played twice only in a step after which the source is no
longer in order, which is what `jbuf_late` shows.

`Registration_proofs` proves every property but the liveness of `Rebound`, for any number of
clients, interval, grants, step of the clock and number of faults. `IInv` says of a live
client that it has a request or a timer, never both; for the last two theorems it
adds, until the first fault, who has a claim to the binding (`Keeps`: one that is
registered or whose 2xx is under way, until the answer to its last request), that a
binding implies such a client, and that the one in use fires its timer at least one
step of the clock before the binding ends (`InTime`). A client is challenged only
before it has credentials, so a challenge takes no claim away.

`Subscription_proofs` proves Attended and that every step is one of
SubscriptionContract's or a stutter. The invariant sorts the blocks into free,
owned and left over, with exactly one reference each outside a handler.

`Call_proofs` proves NothingLeftBehind and RingbackOwned for any number of calls and
subscriptions, any `MAX_CALLS` and answer modes: since a free block has no session,
timer or stream, each action that is guarded by one acts on a live call. SourcesFit adds
that a call is there exactly as long as its session, that the timer of an incoming call
does not run once it is established, and that missing RTP ends only an established call.
FollowsSession is the bridge to SipSession: every step of a call is one in which the user
of a session as SessionContract has it opens it, sees it established or lets it go, one
session for each call.

`AudioDma_proofs` proves NoTear and EachHalfOnce for every `H`, `P` and `F` that
`FastEnough` admits. A half is owed from the moment the DMA leaves it until the loop
is done with it; a half that is owed is young, so the DMA never returns to it.

The assumptions are those of the modules: `MaxSeq`, `LoopMax`, `Transports` and
`MaxRecords` positive, `MaxFailed` a natural number; of EventLoop that `MaxBusy` is
below `Width`; of AudioDma `FastEnough`; of Jbuf that the network overtakes and loses less than half of
the sequence numbers at a time (`NetworkAssumption`); of Registration that the step of the model's
clock is no longer than a tenth of any binding granted (`TickAssumption`: the refresh
comes after nine tenths, and the code's own clock has a step of 1 ms). AlwaysRefreshed
says nothing of bindings after a 2xx that granted less than `Wait` reads from it.

Only model-checked: all liveness (`Reclaimed`, `Rebound`, `IncomingEnds`, the
liveness of the contracts): liveness under fairness and ENABLED are out of
TLAPS's reach.

## 5. What is not modelled

Within the modelled parts: contents of messages, headers and SDP; delays of
retransmission and of Retry-After; allocation failures in the middle of a
function; TCP and the loss of a connection; what DNS records hold, IPv6 (not in
this build); file descriptors (in EventLoop a ready socket is `Wake`); the 120 s
local timeout of an unanswered call, which SipSession has as `Release` and
InviteExchange leaves to its user. `sipsess_close_all` is left out: the
application calls it only after its main loop has failed.

Of registration: the choice among several outbound proxies and the SIP Outbound flow
timers beyond "the flow broke". Of subscriptions: the notifier side towards others,
except as the call's REFER uses it, and the client side of a REFER, which no command
of this build reaches (`sip_ua.c` has it under `#if 0`). Of calls: hold, DTMF, and what
SDP decides about a stream. Of sound: the samples; `sumPos` of `collect_samples`, which
runs past its array when there are two clients, is listed as a hazard without a property,
because a write out of bounds has no next state to check. Of the jitter buffer:
statistics and the decoder behind it.

The components with status `not_modelled` in `PROJECT.json` are left out with a
reason each. By far the most of the repository's lines are below the program: HAL,
CMSIS, FreeRTOS, lwIP and the codecs are vendored, and the protocol code that the phone
does not build or use (TLS, SRTP, ICE, TURN, BFCP, HTTP) is part of the library it
came with.

## 6. What is left

1. DialogAuth: CSeq and route of a dialog under concurrent requests, nonces that go
   stale; so far a challenge is a choice in each model that meets one.
2. Transport: connection reuse and loss under several senders, and the keep-alive
   whose end Registration has as `FlowFails`.
3. DNS client: one answer per query, with retries, a cache and late answers.
4. Uart and shell: the receive ring and the line editor.
5. Proofs: a contract for Registration, as the user agent relies on it, that its clients
   are shown to implement; and that the sessions of several calls are each a SipSession.
