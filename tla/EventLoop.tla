----------------------------- MODULE EventLoop -----------------------------
(***************************************************************************)
(* The one thread that runs the user agent: re_main (re/src/main/main.c),  *)
(* the timer list (re/src/tmr/tmr.c) and the clock they share              *)
(* (re/src/sys/gettimeofday.c), which extends the 32-bit millisecond tick  *)
(* of the HAL to 64 bits by watching it wrap.                              *)
(*                                                                         *)
(* A turn of the loop sleeps in select, lets the handlers of ready sockets *)
(* run, serves the timers that are due and calls the control handler,      *)
(* which moves the audio samples and reads the shell.  Handlers start and  *)
(* cancel timers, their own included, at any of these places.  Time passes *)
(* during all of it.                                                       *)
(***************************************************************************)
EXTENDS Integers, Sequences, FiniteSetsExt, SequencesExt

CONSTANTS
  Timers,       \* the struct tmr in the program
  Net,          \* net.tmr, which ipchange_handler always starts again
  NetInterval,  \* its period (60 s in ua_init)
  Delays,       \* delays handlers ask for
  MaxTime,      \* longest sleep of fd_poll (2 ms in sip_ua.c)
  Width,        \* ticks after which the HAL counter wraps (2^32)
  MaxBusy,      \* Bound: longest time between two readings of the clock
  Horizon       \* Bound: the real time at which the model stops

ASSUME NetAssumption == Net \in Timers /\ NetInterval \in Nat \ {0}
ASSUME DelaysAssumption == Delays \subseteq Nat
ASSUME TimeAssumption ==
  /\ MaxTime \in Nat \ {0} /\ MaxBusy \in Nat /\ Width \in Nat /\ Horizon \in Nat
  /\ MaxTime < Width /\ MaxBusy < Width

VARIABLES
  pc,         \* where the thread is in re_main
  polling,    \* re->polling
  until,      \* when select times out, or Forever
  tmrl,       \* re->tmrl
  th,         \* the timers whose th is set
  polled,     \* jfs in tmr_poll
  running,    \* the timer whose handler runs
  prev_tick, tick64,  \* the static variables of gettimeofday
  now,        \* ghost: the real time in milliseconds
  seen        \* ghost: the real time at the last reading of the clock

clock == <<prev_tick, tick64, seen>>
vars == <<pc, polling, until, tmrl, th, polled, running, clock, now>>

Forever == -1
Places == {"top", "wait", "io", "timers", "handler", "control", "exit"}

\* A timer in the list; at and delay are ghosts: when it was started, for how long.
Entry == [t : Timers, jfs : Nat, at : Nat, delay : Nat]
Due(e) == e.at + e.delay
NoEntry == [t |-> Net, jfs |-> 0, at |-> 0, delay |-> 0]

-----------------------------------------------------------------------------
(***************************************************************************)
(* The clock.                                                              *)
(***************************************************************************)
Tick == now % Width

\* Mutant: a wrap is not noticed.
JiffiesNoWrap == (tick64 \div Width) * Width + Tick

Jiffies ==
  LET high == (IF prev_tick > Tick THEN tick64 + Width ELSE tick64) \div Width
  IN  high * Width + Tick

ReadClock ==
  /\ prev_tick' = Tick
  /\ tick64' = Jiffies
  /\ seen' = now

-----------------------------------------------------------------------------
(***************************************************************************)
(* The timer list.                                                         *)
(***************************************************************************)
Linked(l, t) == \E i \in DOMAIN l : l[i].t = t

\* list_unlink, which does nothing to an element that is in no list.
Place(l, t) == CHOOSE i \in DOMAIN l : l[i].t = t
Unlink(l, t) == IF Linked(l, t) THEN RemoveAt(l, Place(l, t)) ELSE l

\* list_insert_* refuse an element that is in a list already.
Insert(l, pos, e) == IF Linked(l, e.t) THEN l ELSE InsertAt(l, pos, e)

\* Where a new deadline goes: behind the last that is not later, looking from
\* the tail, or, for a zero delay, before the first that is later.
BehindEarlier(l, j) == Max({0} \cup {i \in DOMAIN l : l[i].jfs <= j}) + 1

\* Mutant: before the first that is not earlier.
BeforeLaterOrEqual(l, j) == Min({Len(l) + 1} \cup {i \in DOMAIN l : l[i].jfs >= j})
BeforeLater(l, j) == Min({Len(l) + 1} \cup {i \in DOMAIN l : l[i].jfs > j})

\* tmr_start.  Mutant: with the time of the last reading.
StartedCached(l, armed, t, delay) ==
  LET rest == IF t \in armed THEN Unlink(l, t) ELSE l
      j == delay + tick64
      e == [t |-> t, jfs |-> j, at |-> now, delay |-> delay]
  IN  Insert(rest, IF delay = 0 THEN BeforeLater(rest, j) ELSE BehindEarlier(rest, j), e)

Started(l, armed, t, delay) ==
  LET rest == IF t \in armed THEN Unlink(l, t) ELSE l
      j == delay + Jiffies
      e == [t |-> t, jfs |-> j, at |-> now, delay |-> delay]
  IN  Insert(rest, IF delay = 0 THEN BeforeLater(rest, j) ELSE BehindEarlier(rest, j), e)

\* ipchange_handler starts its timer again before it does anything else.
\* Mutant: not at all.
RearmedNot(l, t) == l
Rearmed(l, t) == IF t = Net THEN Started(l, {}, t, NetInterval) ELSE l

NextTimeout ==
  IF tmrl = <<>> THEN 0
  ELSE IF Head(tmrl).jfs <= Jiffies THEN 1 ELSE Head(tmrl).jfs - Jiffies

\* Mutant: a timer that is due in this very millisecond has to wait.
HeadPast == tmrl # <<>> /\ Head(tmrl).jfs < polled
HeadDue == tmrl # <<>> /\ Head(tmrl).jfs <= polled

-----------------------------------------------------------------------------
Init ==
  /\ pc = "top" /\ polling = TRUE /\ until = Forever
  /\ now = 0 /\ prev_tick = 0 /\ tick64 = 0 /\ seen = 0
  /\ tmrl = <<[t |-> Net, jfs |-> NetInterval, at |-> 0, delay |-> NetInterval]>>
  /\ th = {Net}
  /\ polled = 0 /\ running = NoEntry

\* fd_poll up to the call of select.
Poll ==
  /\ pc = "top" /\ polling
  /\ LET to == Min({NextTimeout, MaxTime})
     IN  until' = IF to = 0 THEN Forever ELSE now + to
  /\ ReadClock
  /\ pc' = "wait"
  /\ UNCHANGED <<polling, tmrl, th, polled, running, now>>

\* re_cancel was called.
Stop ==
  /\ pc = "top" /\ ~polling
  /\ pc' = "exit"
  /\ UNCHANGED <<polling, until, tmrl, th, polled, running, clock, now>>

\* select returns because a socket is ready or the time is over.
Wake ==
  /\ pc = "wait"
  /\ pc' = "io" /\ until' = Forever
  /\ UNCHANGED <<polling, tmrl, th, polled, running, clock, now>>

\* select fails: EINTR starts the turn again, anything else ends the loop.
SelectFails ==
  /\ pc = "wait"
  /\ pc' \in {"top", "exit"} /\ until' = Forever
  /\ polling' = (polling /\ pc' = "top")
  /\ UNCHANGED <<tmrl, th, polled, running, clock, now>>

\* tmr_poll reads the clock once ...
BeginTimers ==
  /\ pc = "io"
  /\ polled' = Jiffies /\ ReadClock
  /\ pc' = "timers"
  /\ UNCHANGED <<polling, until, tmrl, th, running, now>>

\* ... takes timers off the head of the list while they are due by that time ...
Fire ==
  /\ pc = "timers" /\ HeadDue
  /\ LET e == Head(tmrl)
     IN  /\ tmrl' = Rearmed(Tail(tmrl), e.t)
         /\ th' = IF e.t = Net THEN th ELSE th \ {e.t}
         /\ pc' = IF e.t \in th THEN "handler" ELSE "timers"
         /\ running' = e
         /\ IF e.t \in th THEN ReadClock ELSE UNCHANGED clock
  /\ UNCHANGED <<polling, until, polled, now>>

\* Mutant: th is cleared after the handler and not before.
ReturnClears ==
  /\ pc = "handler"
  /\ pc' = "timers" /\ running' = NoEntry
  /\ th' = th \ {running.t}
  /\ ReadClock
  /\ UNCHANGED <<polling, until, tmrl, polled, now>>

\* call_handler measures how long the handler took.
Return ==
  /\ pc = "handler"
  /\ pc' = "timers" /\ running' = NoEntry
  /\ ReadClock
  /\ UNCHANGED <<polling, until, tmrl, th, polled, now>>

\* ... and then the control handler is called.
EndTimers ==
  /\ pc = "timers" /\ ~HeadDue
  /\ pc' = "control" /\ polled' = 0
  /\ UNCHANGED <<polling, until, tmrl, th, running, clock, now>>

NextTurn ==
  /\ pc = "control"
  /\ pc' = "top"
  /\ UNCHANGED <<polling, until, tmrl, th, polled, running, clock, now>>

\* What handlers may do: start a timer, cancel one, end the loop.
InHandler == pc \in {"io", "handler", "control"}

TmrStart(t, delay) ==
  /\ InHandler
  /\ tmrl' = Started(tmrl, th, t, delay)
  /\ th' = th \cup {t}
  /\ ReadClock
  /\ UNCHANGED <<pc, polling, until, polled, running, now>>

TmrCancel(t) ==
  /\ InHandler /\ t \in th
  /\ tmrl' = Unlink(tmrl, t) /\ th' = th \ {t}
  /\ UNCHANGED <<pc, polling, until, polled, running, clock, now>>

Cancel ==
  /\ InHandler /\ polling
  /\ polling' = FALSE
  /\ UNCHANGED <<pc, until, tmrl, th, polled, running, clock, now>>

\* Time passes; a sleep ends on time, and the thread is never busy so long that
\* the tick wraps between two readings of the clock.
TimePasses ==
  /\ now < Horizon /\ pc # "exit"
  /\ IF pc = "wait" THEN until = Forever \/ now < until ELSE now - seen < MaxBusy
  /\ now' = now + 1
  /\ UNCHANGED <<pc, polling, until, tmrl, th, polled, running, clock>>

Handlers ==
  \/ \E t \in Timers \ {Net} : TmrCancel(t) \/ \E d \in Delays : TmrStart(t, d)
  \/ Cancel

Next ==
  \/ Poll \/ Stop \/ Wake \/ SelectFails
  \/ BeginTimers \/ Fire \/ Return \/ EndTimers \/ NextTurn
  \/ Handlers \/ TimePasses

Spec == Init /\ [][Next]_vars

-----------------------------------------------------------------------------
(***************************************************************************)
(* Properties.                                                             *)
(***************************************************************************)
TypeOK ==
  /\ pc \in Places /\ polling \in BOOLEAN
  /\ until \in {Forever} \cup 0..(Horizon + MaxTime)
  /\ tmrl \in Seq(Entry) /\ running \in Entry
  /\ th \subseteq Timers
  /\ polled \in 0..Horizon /\ now \in 0..Horizon /\ seen \in 0..now
  /\ prev_tick \in 0..(Width - 1) /\ tick64 \in 0..Horizon

\* The 64-bit time is the real time of the last reading, across any number of
\* wraps of the 32-bit tick (gettimeofday.c).
ClockTrue == tick64 = seen /\ prev_tick = seen % Width

\* A timer's th says that it is in the list, and it is there once: a timer that
\* is linked without th, or twice, could be neither stopped nor restarted.
ThMeansLinked ==
  /\ th = {tmrl[i].t : i \in DOMAIN tmrl}
  /\ \A i, j \in DOMAIN tmrl : tmrl[i].t = tmrl[j].t => i = j

\* The list is in the order of deadlines, and timers with the same deadline are
\* in the order in which they were started, whatever their delays.
InOrder ==
  \A i, j \in DOMAIN tmrl : i < j =>
    \/ Due(tmrl[i]) < Due(tmrl[j])
    \/ Due(tmrl[i]) = Due(tmrl[j]) /\ tmrl[i].at <= tmrl[j].at

\* No handler is called before its time.
NotEarly == pc = "handler" => Due(running) <= now

\* The sleep ends in time for the control handler and for the first timer; with
\* no timer at all fd_poll would sleep for ever, and never does.
WakesInTime ==
  pc = "wait" =>
    /\ until # Forever /\ until <= seen + MaxTime
    /\ \A i \in DOMAIN tmrl : until <= seen + 1 \/ until <= Due(tmrl[i])

\* When tmr_poll ends no timer that was due when it began is left, also if
\* handlers started or stopped timers meanwhile.
Served ==
  [][pc = "timers" /\ pc' = "control" =>
       \A i \in DOMAIN tmrl : Due(tmrl[i]) > polled]_vars
=============================================================================
