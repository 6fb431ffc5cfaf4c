--------------------------- MODULE AudioDma_proofs ---------------------------
(***************************************************************************)
(* Proofs about AudioDma, for every length of a half and every speed of    *)
(* the loop that FastEnough admits.                                        *)
(*                                                                         *)
(* A half is owed from the moment the DMA leaves it until the loop is done *)
(* with it.  The argument is that a half that is owed is young: its age is *)
(* at most the time since the last read of the pointer, and so the DMA     *)
(* never comes to the end of the other half while one is owed.             *)
(***************************************************************************)
EXTENDS AudioDma, TLAPS

Working == {"remember", "target", "fill"}

Pending(t) == ptr[t] # prev[t]
OwedDac == Pending("dac") \/ pc \in {"target", "fill"}
OwedAdc == Pending("adc") \/ pc = "process"

\* The pointer names the half that the DMA does not work on.
PtrFree == \A t \in Tables : ptr[t] = None \/ ptr[t] = Other(half[t])

\* What the loop knows at each place.
PcKnows ==
  /\ pc = "remember" => ptr["dac"] # prev["dac"]
  /\ pc \in {"target", "fill"} => ptr["dac"] = prev["dac"]
  /\ pc \in Working => ptr["dac"] # None
  /\ pc = "fill" => buf = ptr["dac"]
  /\ pc = "process" => ptr["adc"] = prev["adc"] /\ buf = ptr["adc"] /\ buf # None
  /\ \A t \in Tables : ptr[t] # prev[t] => ptr[t] # None

\* A half that is owed has not been used, every other half once.
UsedRight ==
  /\ \A t \in Tables : used[t][half[t]] = 1
  /\ OwedDac => used["dac"][Other(half["dac"])] = 0
  /\ ~OwedDac => used["dac"][Other(half["dac"])] = 1
  /\ OwedAdc => used["adc"][Other(half["adc"])] = 0
  /\ ~OwedAdc => used["adc"][Other(half["adc"])] = 1

\* A half that is owed is young.
Young ==
  /\ pc # "elsewhere" => since <= F
  /\ pc \in Working => phase["dac"] + 1 <= P + since
  /\ (Pending("dac") /\ pc \notin Working) => phase["dac"] + 1 <= since
  /\ (OwedAdc /\ pc # "elsewhere") => phase["adc"] + 1 <= P + since
  /\ (OwedAdc /\ pc = "elsewhere") => phase["adc"] + 1 <= since

IInv == TypeOK /\ PtrFree /\ PcKnows /\ UsedRight /\ Young

-----------------------------------------------------------------------------
LEMMA InitIInv == Init => IInv
BY TicksAssumption, FastEnough
   DEF Init, IInv, TypeOK, PtrFree, PcKnows, UsedRight, Young, Pending, OwedDac, OwedAdc,
       Working, Tables, Halves, Other, None

\* The DMA never leaves a half while the other one is owed.
LEMMA EndsPaid ==
  ASSUME IInv, Tick
  PROVE  /\ Ends("dac") => ~OwedDac
         /\ Ends("adc") => ~OwedAdc
BY TicksAssumption, FastEnough
   DEF IInv, TypeOK, PcKnows, Young, Pending, OwedDac, OwedAdc, Working, Tables, Halves,
       Tick, Ends, None

LEMMA TickIInv ==
  ASSUME IInv, Tick
  PROVE  IInv'
<1>1. /\ Ends("dac") => ~OwedDac
      /\ Ends("adc") => ~OwedAdc
  BY EndsPaid
<1>2. TypeOK'
  BY TicksAssumption, FastEnough
     DEF IInv, TypeOK, Tick, Ends, Tables, Halves, Other, LeavesHalf, None
<1>3. PtrFree'
  BY DEF IInv, TypeOK, PtrFree, Tick, Tables, Halves, Other, LeavesHalf, None
<1>4. PcKnows'
  BY <1>1 DEF IInv, TypeOK, PtrFree, PcKnows, OwedDac, OwedAdc, Pending, Working, Tick,
              Tables, Halves, Other, LeavesHalf, None
<1>5. UsedRight'
  BY <1>1 DEF IInv, TypeOK, PtrFree, PcKnows, UsedRight, OwedDac, OwedAdc, Pending, Tick,
              Tables, Halves, Other, LeavesHalf, None
<1>6. Young'
  BY <1>1, TicksAssumption, FastEnough
     DEF IInv, TypeOK, PtrFree, PcKnows, Young, OwedDac, OwedAdc, Pending, Working, Tick,
         Ends, Tables, Halves, Other, LeavesHalf, None
<1> QED
  BY <1>2, <1>3, <1>4, <1>5, <1>6 DEF IInv

LEMMA DacCompareIInv ==
  ASSUME IInv, DacCompare
  PROVE  IInv'
BY TicksAssumption, FastEnough
   DEF IInv, TypeOK, PtrFree, PcKnows, UsedRight, Young, OwedDac, OwedAdc, Pending,
       Working, DacCompare, Tables, Halves, Other, None

LEMMA DacRememberIInv ==
  ASSUME IInv, DacRemember
  PROVE  IInv'
BY TicksAssumption, FastEnough
   DEF IInv, TypeOK, PtrFree, PcKnows, UsedRight, Young, OwedDac, OwedAdc, Pending,
       Working, DacRemember, Tables, Halves, Other, None

LEMMA DacTargetIInv ==
  ASSUME IInv, DacTarget
  PROVE  IInv'
BY TicksAssumption, FastEnough
   DEF IInv, TypeOK, PtrFree, PcKnows, UsedRight, Young, OwedDac, OwedAdc, Pending,
       Working, DacTarget, Tables, Halves, Other, None

LEMMA DacFilledIInv ==
  ASSUME IInv, DacFilled
  PROVE  IInv'
BY TicksAssumption, FastEnough
   DEF IInv, TypeOK, PtrFree, PcKnows, UsedRight, Young, OwedDac, OwedAdc, Pending,
       Working, DacFilled, Use, Tables, Halves, Other, None

LEMMA AdcReadIInv ==
  ASSUME IInv, AdcRead
  PROVE  IInv'
BY TicksAssumption, FastEnough
   DEF IInv, TypeOK, PtrFree, PcKnows, UsedRight, Young, OwedDac, OwedAdc, Pending,
       Working, AdcRead, Tables, Halves, Other, None

LEMMA AdcProcessedIInv ==
  ASSUME IInv, AdcProcessed
  PROVE  IInv'
BY TicksAssumption, FastEnough
   DEF IInv, TypeOK, PtrFree, PcKnows, UsedRight, Young, OwedDac, OwedAdc, Pending,
       Working, AdcProcessed, Use, Tables, Halves, Other, None

LEMMA NextIInv == IInv /\ [Next]_vars => IInv'
<1> SUFFICES ASSUME IInv, [Next]_vars PROVE IInv'
  OBVIOUS
<1>1. CASE UNCHANGED vars
  BY <1>1 DEF vars, IInv, TypeOK, PtrFree, PcKnows, UsedRight, Young, OwedDac, OwedAdc,
              Pending
<1> QED
  BY <1>1, TickIInv, DacCompareIInv, DacRememberIInv, DacTargetIInv, DacFilledIInv,
     AdcReadIInv, AdcProcessedIInv DEF Next

LEMMA IInvHolds == Spec => []IInv
BY InitIInv, NextIInv, PTL DEF Spec

-----------------------------------------------------------------------------
\* Every variable has its type, in every state of every run.
THEOREM TypeCorrect == Spec => []TypeOK
<1>1. IInv => TypeOK
  BY DEF IInv
<1> QED
  BY <1>1, IInvHolds, PTL

\* The loop never works on the half that the DMA works on, for every loop that is fast
\* enough.
THEOREM NeverTorn == Spec => []NoTear
<1>1. IInv => NoTear
  BY DEF IInv, TypeOK, PtrFree, PcKnows, NoTear, Working, Tables
<1> QED
  BY <1>1, IInvHolds, PTL

\* Every half is filled or read exactly once before the DMA comes back to it.
THEOREM HalvesOnce == Spec => []EachHalfOnce
<1>1. IInv => EachHalfOnce
  <2> SUFFICES ASSUME IInv, NEW t \in Tables, NEW h \in Halves
               PROVE  used[t][h] <= 1 /\ (half[t] = h => used[t][h] = 1)
    BY DEF EachHalfOnce
  <2>1. half[t] \in Halves /\ used[t][half[t]] = 1
    BY DEF IInv, TypeOK, UsedRight
  <2>2. used[t][Other(half[t])] \in {0, 1}
    BY DEF IInv, UsedRight, Tables
  <2>3. h = half[t] \/ h = Other(half[t])
    BY <2>1 DEF Halves, Other
  <2> QED
    BY <2>1, <2>2, <2>3
<1> QED
  BY <1>1, IInvHolds, PTL
=============================================================================
