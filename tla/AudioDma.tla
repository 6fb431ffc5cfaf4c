------------------------------ MODULE AudioDma ------------------------------
(***************************************************************************)
(* The double buffers of the board's audio: the DMA plays one half of the  *)
(* DAC's table while the main loop fills the other (softphone/src/dac.c),  *)
(* and writes one half of the ADC's table while the main loop reads the    *)
(* other (adc.c).  At the end of each half an interrupt stores which half  *)
(* is free in a pointer that the main loop polls, and that it may read     *)
(* more than once while the interrupt moves it.                            *)
(*                                                                         *)
(* Nothing locks a half: that the DMA never works on the half the loop is  *)
(* using rests on time alone.  Time is counted in ticks; both tables run   *)
(* at the same rate, at any distance from each other.                      *)
(***************************************************************************)
EXTENDS Integers

CONSTANTS
  H,   \* ticks the DMA takes for one half (20 ms)
  P,   \* most ticks from one dac_poll to the next
  F    \* most ticks from the start of dac_poll to the end of adc_poll

ASSUME TicksAssumption == H \in Nat /\ P \in Nat /\ F \in Nat
\* The loop is fast enough: it sees a half P ticks late, and is done F ticks later.
ASSUME FastEnough == 0 < F /\ F <= P /\ P + F <= H

VARIABLES
  phase,   \* the DMA: ticks into the half it works on
  half,    \* the DMA: the half it works on
  ptr,     \* samples_ptr, adcValLastPtr: the half that is free
  prev,    \* prev_samples_ptr, lastAdcProcessed
  used,    \* ghost: how often a half was filled or read since the DMA left it
  pc,      \* the main loop's place in dac_poll and adc_poll
  buf,     \* the half that is being filled or read
  since    \* ghost: ticks since dac_poll was entered

vars == <<phase, half, ptr, prev, used, pc, buf, since>>

Tables == {"dac", "adc"}
Halves == {0, 1}
None == -1

Other(h) == 1 - h

(***************************************************************************)
(* The hardware and its interrupts.                                        *)
(***************************************************************************)
Ends(t) == phase[t] + 1 = H

\* Mutant: the half the DMA goes on with is reported.
EntersHalf(h) == Other(h)

\* The transfer-complete and half-transfer interrupts name the half that is done.
LeavesHalf(h) == h

Tick ==
  /\ since < P
  /\ pc # "elsewhere" => since < F
  /\ since' = since + 1
  /\ phase' = [t \in Tables |-> IF Ends(t) THEN 0 ELSE phase[t] + 1]
  /\ half' = [t \in Tables |-> IF Ends(t) THEN Other(half[t]) ELSE half[t]]
  /\ ptr' = [t \in Tables |-> IF Ends(t) THEN LeavesHalf(half[t]) ELSE ptr[t]]
  /\ used' = [t \in Tables |->
                IF Ends(t) THEN [used[t] EXCEPT ![half[t]] = 0] ELSE used[t]]
  /\ UNCHANGED <<prev, pc, buf>>

(***************************************************************************)
(* dac_poll: the pointer is read to compare it, again to remember it, and  *)
(* again for the half to fill.                                             *)
(***************************************************************************)
Use(t) == [used EXCEPT ![t][buf] = IF @ < 2 THEN @ + 1 ELSE @]

DacCompare ==
  /\ pc = "elsewhere"
  /\ since' = 0
  /\ pc' = IF ptr["dac"] # prev["dac"] THEN "remember" ELSE "adc"
  /\ UNCHANGED <<phase, half, ptr, prev, used, buf>>

\* Mutant: the half is not remembered.
Forget ==
  /\ pc = "remember"
  /\ pc' = "target"
  /\ UNCHANGED <<phase, half, ptr, prev, used, buf, since>>

DacRemember ==
  /\ pc = "remember"
  /\ prev' = [prev EXCEPT !["dac"] = ptr["dac"]]
  /\ pc' = "target"
  /\ UNCHANGED <<phase, half, ptr, used, buf, since>>

DacTarget ==
  /\ pc = "target"
  /\ buf' = ptr["dac"]
  /\ pc' = "fill"
  /\ UNCHANGED <<phase, half, ptr, prev, used, since>>

\* The end of collect_samples.
DacFilled ==
  /\ pc = "fill"
  /\ used' = Use("dac")
  /\ pc' = "adc"
  /\ UNCHANGED <<phase, half, ptr, prev, buf, since>>

(***************************************************************************)
(* adc_poll reads its pointer once.                                        *)
(***************************************************************************)
AdcRead ==
  /\ pc = "adc"
  /\ IF ptr["adc"] # prev["adc"]
     THEN /\ prev' = [prev EXCEPT !["adc"] = ptr["adc"]]
          /\ buf' = ptr["adc"]
          /\ pc' = "process"
     ELSE /\ pc' = "elsewhere"
          /\ UNCHANGED <<prev, buf>>
  /\ UNCHANGED <<phase, half, ptr, used, since>>

\* The end of process_samples.
AdcProcessed ==
  /\ pc = "process"
  /\ used' = Use("adc")
  /\ pc' = "elsewhere"
  /\ UNCHANGED <<phase, half, ptr, prev, buf, since>>

-----------------------------------------------------------------------------
\* The tables start as silence, which counts as filled and as read; one was started
\* some ticks after the other.
Init ==
  /\ phase \in [Tables -> 0..(H - 1)]
  /\ half = [t \in Tables |-> 0]
  /\ ptr = [t \in Tables |-> None]
  /\ prev = [t \in Tables |-> None]
  /\ used = [t \in Tables |-> [h \in Halves |-> 1]]
  /\ pc = "elsewhere"
  /\ buf = None
  /\ since = 0

Next ==
  \/ Tick
  \/ DacCompare \/ DacRemember \/ DacTarget \/ DacFilled
  \/ AdcRead \/ AdcProcessed

Spec == Init /\ [][Next]_vars

-----------------------------------------------------------------------------
(***************************************************************************)
(* Properties.                                                             *)
(***************************************************************************)
\* Every variable has its type.
TypeOK ==
  /\ phase \in [Tables -> 0..(H - 1)]
  /\ half \in [Tables -> Halves]
  /\ ptr \in [Tables -> Halves \cup {None}]
  /\ prev \in [Tables -> Halves \cup {None}]
  /\ used \in [Tables -> [Halves -> 0..2]]
  /\ pc \in {"elsewhere", "remember", "target", "fill", "adc", "process"}
  /\ buf \in Halves \cup {None}
  /\ since \in 0..P

\* The half the loop fills is never the half the DAC plays, and the half it reads never
\* the half the ADC writes, for the whole time the loop is at it and whatever the
\* interrupt did between the reads of the pointer.
NoTear ==
  /\ pc = "fill" => buf = Other(half["dac"])
  /\ pc = "process" => buf = Other(half["adc"])

\* No half is played twice or skipped, and no half of input is lost or read twice: when
\* the DMA comes back to a half the loop has been there once.
EachHalfOnce ==
  \A t \in Tables : \A h \in Halves :
    used[t][h] <= 1 /\ (half[t] = h => used[t][h] = 1)
=============================================================================
