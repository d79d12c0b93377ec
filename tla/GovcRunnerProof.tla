-------------------------- MODULE GovcRunnerProof --------------------------
(* Proofs about GovcRunner, for every capacity of the pipe, length of the   *)
(* output and number of calls.                                              *)
EXTENDS GovcRunner, TLAPS

(* Before the first call the invariant holds.                               *)
LEMMA InitInv == Init => IInv
  BY CapacityAssumption, BoundsAssumption DEF Init, IInv, TypeOK, Conservation,
     WriteEnd, TextIsWhole, OutputIsComplete, StdoutIsBack

(* One step of the caller, of govc or of the copying goroutine keeps it.    *)
LEMMA NextInv == IInv /\ [Next]_vars => IInv'
<1> SUFFICES ASSUME IInv, [Next]_vars PROVE IInv'
  OBVIOUS
<1> USE CapacityAssumption, BoundsAssumption DEF IInv, TypeOK, Conservation,
     WriteEnd, TextIsWhole, OutputIsComplete, StdoutIsBack, file
<1>1. CASE RunWithOutput
  <2>1. /\ pc' = "run" /\ writer' \in {"none", "open"} /\ copier' = "copying"
        /\ stdout' = "pipe" /\ result' = "none" /\ call' \in 0 .. MaxCalls
    BY <1>1 DEF RunWithOutput
  <2>2. /\ length' \in 0 .. MaxOutput /\ toPrint' = length'
        /\ lost' = 0 /\ pipe' = 0 /\ buf' = 0
    BY <1>1 DEF RunWithOutput
  <2>3. /\ toPrint' \in 0 .. length' /\ lost' \in 0 .. length'
        /\ buf' \in 0 .. length' /\ pipe' \in 0 .. Capacity
    BY <2>2
  <2>4. TypeOK'
    BY <2>1, <2>2, <2>3
  <2>5. Conservation'
    <3>1. length' \in Nat
      BY <2>2
    <3>2. \A n \in Nat : n + 0 + 0 + 0 = n
      OBVIOUS
    <3>3. QED
      BY <2>2, <3>1, <3>2
  <2>6. (WriteEnd /\ TextIsWhole /\ OutputIsComplete /\ StdoutIsBack)'
    BY <2>1, <2>2
  <2>7. QED
    BY <2>4, <2>5, <2>6
<1>2. CASE Print1
  <2>1. CASE writer = "none"
    BY <1>2, <2>1 DEF Print1
  <2>2. CASE writer # "none"
    BY <1>2, <2>2 DEF Print1
  <2>3. QED
    BY <2>1, <2>2
<1>3. CASE CommandEnds
  BY <1>3 DEF CommandEnds
<1>4. CASE Close
  BY <1>4 DEF Close
<1>5. CASE Select
  \* The text is offered after the end of the pipe, so none of it is missing.
  <2>1. lost = 0 /\ toPrint = 0
    BY <1>5 DEF Select
  <2>2. copier = "sendOut" => buf = length
    BY <2>1
  <2>3. QED
    BY <1>5, <2>1, <2>2 DEF Select
<1>6. CASE Read
  BY <1>6 DEF Read
<1>7. CASE ReadEnds
  BY <1>7 DEF ReadEnds
<1>8. CASE ReadFails
  BY <1>8 DEF ReadFails
<1>9. CASE UNCHANGED vars
  BY <1>9 DEF vars
<1>10. QED
  BY <1>1, <1>2, <1>3, <1>4, <1>5, <1>6, <1>7, <1>8, <1>9 DEF Next, Caller

(* The inductive invariant: nothing of the output is ever lost on the way.  *)
THEOREM Invariance == Spec => []IInv
  BY InitInv, NextInv, PTL DEF Spec

(* An output RunWithOutput returns is all that govc printed.                *)
THEOREM CompleteOutput == Spec => []OutputIsComplete
  BY Invariance, PTL DEF IInv

(* Whichever way a call ended, os.Stdout is the real one after it.          *)
THEOREM StdoutRestored == Spec => []StdoutIsBack
  BY Invariance, PTL DEF IInv

-----------------------------------------------------------------------------
(* Why a call ends: nobody is ever blocked unless the copy has failed, and  *)
(* no step is taken in vain.                                                *)

LEMMA Alive == Spec => []CopierAlive
<1>1. Init => CopierAlive
  BY DEF Init, CopierAlive, Running
<1>2. CopierAlive /\ [Next]_vars => CopierAlive'
  BY DEF CopierAlive, Running, Next, Caller, RunWithOutput, Print1, CommandEnds, Close, Select,
     Read, ReadEnds, ReadFails, vars
<1>. QED
  BY <1>1, <1>2, PTL DEF Spec

(* RunWithOutput waits for nobody who waits for it: with the goroutine at   *)
(* work, or its text offered, the caller, govc or the goroutine can move,   *)
(* whatever the pipe holds.  Only a copy that has failed stops a command    *)
(* that prints more than the pipe takes.                                    *)
THEOREM NobodyBlocks == Spec => []OnlyAFailedCopyBlocks
<1>1. IInv /\ CopierAlive => OnlyAFailedCopyBlocks
  BY CapacityAssumption DEF IInv, TypeOK, WriteEnd, TextIsWhole, CopierAlive,
     OnlyAFailedCopyBlocks, Running, CallerReady, CopierReady
<1>. QED
  BY <1>1, Invariance, Alive, PTL

(* A call is over after at most two steps for each byte that govc prints,   *)
(* and four: with NobodyBlocks, the argument why RunWithOutput returns.     *)
THEOREM Descends == Spec => EachStepCounts
<1>1. ASSUME IInv, Next, Running
      PROVE  Remaining' < Remaining
  <2> USE CapacityAssumption, BoundsAssumption DEF IInv, TypeOK, Running, Remaining, file
  <2>1. CASE Print1
    BY <1>1, <2>1 DEF Print1
  <2>2. CASE CommandEnds
    BY <1>1, <2>2 DEF CommandEnds
  <2>3. CASE Close
    BY <1>1, <2>3 DEF Close
  <2>4. CASE Select
    BY <1>1, <2>4 DEF Select
  <2>5. CASE Read \/ ReadEnds \/ ReadFails
    BY <1>1, <2>5 DEF Read, ReadEnds, ReadFails
  <2>6. ~RunWithOutput
    BY <1>1 DEF RunWithOutput
  <2>. QED
    BY <1>1, <2>1, <2>2, <2>3, <2>4, <2>5, <2>6 DEF Next, Caller
<1>2. IInv => Remaining <= 2 * length + 4
  <2> SUFFICES ASSUME IInv PROVE Remaining <= 2 * length + 4
    OBVIOUS
  <2>1. 2 * toPrint + pipe <= 2 * length
    BY BoundsAssumption, CapacityAssumption DEF IInv, TypeOK, Conservation
  <2>. QED
    BY <2>1, BoundsAssumption, CapacityAssumption DEF IInv, TypeOK, Remaining
<1>3. IInv /\ [Next]_vars
        => [Running => Remaining' < Remaining /\ Remaining <= 2 * length + 4]_vars
  BY <1>1, <1>2
<1>. QED
  BY <1>3, Invariance, PTL DEF Spec, EachStepCounts
=============================================================================
