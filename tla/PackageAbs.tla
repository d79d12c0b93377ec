----------------------------- MODULE PackageAbs -----------------------------
(***************************************************************************)
(* What one `stembuild package` after another promises about the output     *)
(* path, whichever packager does the work and wherever it fails: a command  *)
(* writes only to a path it found free, it reports failure only while the   *)
(* path is as it was found, it reports success only with a delivery there,  *)
(* and its verdict is final.  Only a command that was cut off may leave     *)
(* something unfinished; the next command then refuses to touch it.         *)
(***************************************************************************)
CONSTANTS
  Unfinished,  \* what a command may have at the output path on the way
  Delivered    \* what it may leave there when it reports success

VARIABLES
  found,    \* what was at the output path when the command began
  output,   \* what is there now
  verdict   \* of the latest command

vars == <<found, output, verdict>>

Output  == {"none"} \union Unfinished \union Delivered
Verdict == {"running", "succeeded", "failed", "cutOff"}

TypeOK ==
  /\ found \in Output
  /\ output \in Output
  /\ verdict \in Verdict

Init ==
  /\ output \in Output
  /\ found = output
  /\ verdict = "running"

Write ==
  /\ verdict = "running"
  /\ found = "none"
  /\ output' \in Output
  /\ UNCHANGED <<found, verdict>>

Succeed ==
  /\ verdict = "running"
  /\ found = "none"
  /\ output' \in Delivered
  /\ verdict' = "succeeded"
  /\ UNCHANGED found

Fail ==
  /\ verdict = "running"
  /\ output = found
  /\ verdict' = "failed"
  /\ UNCHANGED <<found, output>>

CutOff ==
  /\ verdict = "running"
  /\ verdict' = "cutOff"
  /\ UNCHANGED <<found, output>>

(* The operator may clear the path before the next command.                *)
NextCommand ==
  /\ verdict # "running"
  /\ output' \in {output, "none"}
  /\ found' = output'
  /\ verdict' = "running"

Next == Write \/ Succeed \/ Fail \/ CutOff \/ NextCommand

Spec == Init /\ [][Next]_vars

-----------------------------------------------------------------------------
(* What a caller of `package` may rely on: a failure leaves the path as it  *)
(* was, a success leaves a delivery on a path that was free, and a file     *)
(* that was there before is there still, whatever happened.                 *)
Promise ==
  /\ verdict = "failed" => output = found
  /\ verdict = "succeeded" => found = "none" /\ output \in Delivered
  /\ found # "none" => output = found
=============================================================================
