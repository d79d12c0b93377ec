----------------------------- MODULE GovcRunner -----------------------------
(***************************************************************************)
(* GovcRunner.RunWithOutput: the output of a govc command, run inside this  *)
(* process, is captured by putting a pipe in the place of os.Stdout while   *)
(* the command runs.  A goroutine copies the pipe; the caller closes the    *)
(* write end afterwards and receives either the text or the copy's error on *)
(* one of two unbuffered channels.  Of the output only its length matters,  *)
(* a pipe being first in, first out.                                        *)
(***************************************************************************)
EXTENDS GovcBounds

VARIABLES
  pc,       \* of the caller
  call,     \* number of this call
  stdout,   \* what os.Stdout is: the real one, or this call's pipe
  toPrint,  \* what govc still prints
  lost,     \* what it printed to no file
  writer,   \* the write end: "none" (os.Pipe failed), "open", "closed"
  pipe,     \* bytes in the pipe
  buf,      \* what io.Copy has read
  length,   \* what this command prints in all
  copier,   \* the goroutine: "copying", "sendOut", "sendErr", "gone"
  result    \* of the call: "none", "output", "error"

file == <<writer, pipe, lost>>
vars == <<pc, call, stdout, toPrint, lost, writer, pipe, buf, length, copier, result>>

TypeOK ==
  /\ pc \in {"idle", "run", "close", "select", "returned"}
  /\ call \in 0 .. MaxCalls
  /\ stdout \in {"real", "pipe"}
  /\ length \in 0 .. MaxOutput
  /\ toPrint \in 0 .. length /\ lost \in 0 .. length /\ buf \in 0 .. length
  /\ writer \in {"none", "open", "closed"}
  /\ pipe \in 0 .. Capacity
  /\ copier \in {"copying", "sendOut", "sendErr", "gone"}
  /\ result \in {"none", "output", "error"}

Init ==
  /\ pc = "idle" /\ call = 0 /\ stdout = "real" /\ writer = "none"
  /\ toPrint = 0 /\ lost = 0 /\ pipe = 0 /\ buf = 0 /\ length = 0
  /\ copier = "gone" /\ result = "none"

-----------------------------------------------------------------------------
(* The caller.                                                              *)

(* os.Pipe, its error ignored, the swap, and the goroutine.  The goroutine   *)
(* of a call that returned Close's error may still be there; it shares      *)
(* nothing with this one's and is forgotten here.                           *)
RunWithOutput ==
  /\ pc \in {"idle", "returned"} /\ call < MaxCalls
  /\ pc' = "run" /\ call' = call + 1 /\ stdout' = "pipe"
  /\ writer' \in {"none", "open"}
  /\ length' \in 0 .. MaxOutput /\ toPrint' = length'
  /\ lost' = 0 /\ pipe' = 0 /\ buf' = 0 /\ copier' = "copying" /\ result' = "none"

(* govc prints; what it prints to a nil file is dropped with an error that  *)
(* it does not look at.                                                     *)
Print1 ==
  /\ pc = "run" /\ toPrint > 0
  /\ toPrint' = toPrint - 1
  /\ IF writer = "none"
       THEN lost' = lost + 1 /\ UNCHANGED pipe
       ELSE pipe < Capacity /\ pipe' = pipe + 1 /\ UNCHANGED lost
  /\ UNCHANGED <<pc, call, stdout, writer, buf, length, copier, result>>

CommandEnds ==
  /\ pc = "run" /\ toPrint = 0
  /\ pc' = "close"
  /\ UNCHANGED <<call, stdout, toPrint, file, buf, length, copier, result>>

(* w.Close, which may fail, and does on a nil file; stdout is put back      *)
(* before that error is returned.                                           *)
Close ==
  /\ pc = "close"
  /\ stdout' = "real"
  /\ writer' = IF writer = "open" THEN "closed" ELSE writer
  /\ \/ writer = "open" /\ pc' = "select" /\ UNCHANGED result
     \/ pc' = "returned" /\ result' = "error"
  /\ UNCHANGED <<call, toPrint, lost, pipe, buf, length, copier>>

Select ==
  /\ pc = "select" /\ copier \in {"sendOut", "sendErr"}
  /\ pc' = "returned" /\ copier' = "gone"
  /\ result' = IF copier = "sendOut" THEN "output" ELSE "error"
  /\ UNCHANGED <<call, stdout, toPrint, file, buf, length>>

Caller == RunWithOutput \/ Print1 \/ CommandEnds \/ Close \/ Select

-----------------------------------------------------------------------------
(* The goroutine.                                                           *)

(* Bug: the copy in the caller's own thread, after the command.             *)
ReadAfterClose ==
  /\ copier = "copying" /\ pipe > 0 /\ writer = "closed"
  /\ buf' = buf + pipe /\ pipe' = 0
  /\ UNCHANGED <<pc, call, stdout, toPrint, lost, writer, length, copier, result>>

Read ==
  /\ copier = "copying" /\ pipe > 0
  /\ buf' = buf + pipe /\ pipe' = 0
  /\ UNCHANGED <<pc, call, stdout, toPrint, lost, writer, length, copier, result>>

(* Bug: an empty pipe is taken for the end of the output.                   *)
ReadEndsWhenEmpty ==
  /\ copier = "copying" /\ pipe = 0 /\ writer # "none"
  /\ copier' = "sendOut"
  /\ UNCHANGED <<pc, call, stdout, toPrint, file, buf, length, result>>

ReadEnds ==
  /\ copier = "copying" /\ pipe = 0 /\ writer = "closed"
  /\ copier' = "sendOut"
  /\ UNCHANGED <<pc, call, stdout, toPrint, file, buf, length, result>>

(* A read may fail; on a nil file it always does.                           *)
ReadFails ==
  /\ copier = "copying"
  /\ copier' = "sendErr"
  /\ UNCHANGED <<pc, call, stdout, toPrint, file, buf, length, result>>

Copier == Read \/ ReadEnds \/ (writer = "none" /\ ReadFails)

Next == Caller \/ Read \/ ReadEnds \/ ReadFails

Spec == Init /\ [][Next]_vars

(* The two goroutines are scheduled, govc ends by itself; the next call is  *)
(* nobody's duty, and neither is a failing read.                            *)
FairSpec == Spec /\ WF_vars(Print1 \/ CommandEnds \/ Close \/ Select) /\ WF_vars(Copier)

-----------------------------------------------------------------------------
(* An output that is returned is all that govc printed.                     *)
OutputIsComplete == result = "output" => buf = length /\ lost = 0

(* Between two calls os.Stdout is the real one, whichever way the last one   *)
(* ended.                                                                   *)
StdoutIsBack == pc \in {"idle", "returned"} => stdout = "real"

(* A call returns however much govc prints, unless the copy failed.         *)
Returns == pc = "run" ~> (pc = "returned" \/ copier = "sendErr")

(* The steps under fairness, as their guards say when they can be taken.    *)
Running == pc \in {"run", "close", "select"}

CallerReady ==
  \/ pc = "run" /\ (toPrint > 0 => writer = "none" \/ pipe < Capacity)
  \/ pc = "close"
  \/ pc = "select" /\ copier \in {"sendOut", "sendErr"}

CopierReady == copier = "copying" /\ (pipe > 0 \/ writer # "open")

(* A call in which nobody can move is one whose copy has failed while govc  *)
(* still prints and the pipe is full.                                       *)
OnlyAFailedCopyBlocks ==
  Running /\ ~CallerReady /\ ~CopierReady =>
    pc = "run" /\ copier = "sendErr" /\ writer = "open" /\ toPrint > 0 /\ pipe = Capacity

(* What a call still has to do: each byte is printed and read, and the      *)
(* caller and the goroutine have their last steps.                          *)
Remaining ==
  2 * toPrint + pipe
  + (CASE pc = "run" -> 3 [] pc = "close" -> 2 [] pc = "select" -> 1 [] OTHER -> 0)
  + (IF copier = "copying" THEN 1 ELSE 0)

(* Every step of a running call brings its end nearer, and it has no more   *)
(* than a few more than two for each byte.                                  *)
EachStepCounts ==
  [][Running => /\ Remaining' < Remaining
                /\ Remaining <= 2 * length + 4]_vars

-----------------------------------------------------------------------------
(* Every byte govc meant to print is somewhere.                             *)
Conservation == toPrint + lost + pipe + buf = length

(* Where the caller is tells what the write end and stdout are.             *)
WriteEnd ==
  /\ lost > 0 => writer = "none"
  /\ pc \in {"run", "close"} => writer # "closed"
  /\ pc = "select" => writer = "closed" /\ stdout = "real"
  /\ pc \in {"close", "select", "returned"} => toPrint = 0
  /\ pc = "idle" => result = "none"

(* The goroutine offers its text only when nothing can follow it.           *)
TextIsWhole == copier = "sendOut" => writer = "closed" /\ pipe = 0

(* A call's goroutine is there until its channel has been read.             *)
CopierAlive == Running => copier # "gone"

(* The inductive invariant of the proofs.                                   *)
IInv == TypeOK /\ Conservation /\ WriteEnd /\ TextIsWhole
        /\ OutputIsComplete /\ StdoutIsBack
=============================================================================
