---------------------------- MODULE ConstructAbs ----------------------------
(***************************************************************************)
(* What `stembuild construct` promises about the virtual machine, whatever *)
(* is lost between the workstation and the guest, and however often the    *)
(* command is repeated after a failure.  Seen from the command that is     *)
(* running, the machine goes through its stages in one order: provisioned, *)
(* restarted, being sealed, sealed (sysprepped and powered off for this    *)
(* command).  Two faults are not seen by the command.  The restart may not *)
(* take place, and sealing then starts on a machine on which earlier       *)
(* commands may still be at work; and the machine may be switched off by   *)
(* others, which to the command looks like the end of its own sealing.     *)
(***************************************************************************)
VARIABLES
  stage,       \* how far the guest is, for the latest command: see Stage
  outcome,     \* what the latest command has told its caller
  leftover,    \* sealing work of an earlier command is still going on
  unrestarted, \* the latest command's restart failed, and nobody was told
  cut          \* the machine has been switched off by others

vars == <<stage, outcome, leftover, unrestarted, cut>>

(* "off" is a machine that is off, but not sealed for the latest command.  *)
Stage   == {"provisioning", "restarted", "sealing", "sealed", "off"}
Outcome == {"running", "succeeded", "failed"}
Off     == {"sealed", "off"}

TypeOK ==
  /\ stage \in Stage
  /\ outcome \in Outcome
  /\ leftover \in BOOLEAN
  /\ unrestarted \in BOOLEAN
  /\ cut \in BOOLEAN

Init ==
  /\ stage = "provisioning"
  /\ outcome = "running"
  /\ leftover = FALSE
  /\ unrestarted = FALSE
  /\ cut = FALSE

(* The restart the setup script asks for, possibly after the command has   *)
(* given up on the script.  It has ended whatever else the guest was doing.*)
Restart ==
  /\ stage = "provisioning" /\ ~leftover
  /\ stage' = "restarted"
  /\ unrestarted' = FALSE
  /\ UNCHANGED <<outcome, leftover, cut>>

MissRestart ==
  /\ stage = "provisioning"
  /\ unrestarted' = TRUE
  /\ UNCHANGED <<stage, outcome, leftover, cut>>

StartSealing ==
  /\ stage = "restarted" \/ (stage = "provisioning" /\ unrestarted)
  /\ outcome = "running"
  /\ stage' = "sealing"
  /\ UNCHANGED <<outcome, leftover, unrestarted, cut>>

(* Sysprep ends by powering the machine off, watched or not.               *)
Seal ==
  /\ stage = "sealing"
  /\ stage' = "sealed"
  /\ leftover' = FALSE
  /\ UNCHANGED <<outcome, unrestarted, cut>>

(* An earlier command's sealing ends, and takes the machine away.          *)
SealLeftover ==
  /\ leftover
  /\ stage' = "off"
  /\ leftover' = FALSE
  /\ UNCHANGED <<outcome, unrestarted, cut>>

AbandonLeftover ==
  /\ leftover
  /\ leftover' = FALSE
  /\ UNCHANGED <<stage, outcome, unrestarted, cut>>

SwitchOff ==
  /\ stage \notin Off
  /\ stage' = "off"
  /\ leftover' = FALSE
  /\ cut' = TRUE
  /\ UNCHANGED <<outcome, unrestarted>>

Succeed ==
  /\ outcome = "running"
  /\ stage = "sealed" \/ (stage = "off" /\ (cut \/ unrestarted))
  /\ outcome' = "succeeded"
  /\ UNCHANGED <<stage, leftover, unrestarted, cut>>

Fail ==
  /\ outcome = "running"
  /\ outcome' = "failed"
  /\ UNCHANGED <<stage, leftover, unrestarted, cut>>

Retry ==
  /\ outcome = "failed"
  /\ outcome' = "running"
  /\ stage' = IF stage \in Off THEN "off" ELSE "provisioning"
  /\ leftover' \in {leftover, leftover \/ stage = "sealing"}
  /\ unrestarted' = FALSE
  /\ UNCHANGED cut

Next ==
  \/ Restart \/ MissRestart \/ StartSealing \/ Seal \/ SealLeftover
  \/ AbandonLeftover \/ SwitchOff \/ Succeed \/ Fail \/ Retry

Safety == Init /\ [][Next]_vars

(* A command whose machine is sealed says so: it does not wait forever.    *)
Returns == stage = "sealed" /\ outcome = "running" ~> outcome # "running"

Spec == Safety /\ Returns

-----------------------------------------------------------------------------
(* What the caller of the command may rely on.                             *)

(* Success is a machine sealed for this command, but for the two faults;   *)
(* and but for a missed restart no earlier command is at work on a machine *)
(* that has restarted, is being sealed or is sealed.                       *)
Promise ==
  /\ outcome = "succeeded" => stage = "sealed" \/ (stage = "off" /\ (cut \/ unrestarted))
  /\ stage \in {"restarted", "sealing"} => ~leftover \/ unrestarted
  /\ stage \in Off => ~leftover

(* No later command opens a machine again that was sealed: it stays off.   *)
SealedForGood == [][(stage \in Off) => (stage' \in Off)]_vars
=============================================================================
