---------------------------- MODULE GuestScripts ----------------------------
(* The two descriptions of the guest's scripts put side by side.  Provision  *)
(* has their functions one by one and knows no workstation; Construct has    *)
(* the workstation and sees the scripts as a few stages.  The places and     *)
(* facts of Provision are mapped to those stages, within one run.            *)
EXTENDS Provision

Installed == {"InstallWUCerts", "CreateVersionFile", "RestartComputer"}

SetupStage ==
  CASE pc \in SetupSteps \ Installed -> "installing"
    [] pc \in Installed              -> "installed"
    [] pc = "SetupFailed"            -> "exit1"
    [] pc = "Cut"                    -> "killed"
    [] OTHER                         -> "exit0"

PostStage ==
  CASE pc = "DisableServices"                                   -> "cell"
    [] pc \in {"SetFirewall", "DisableNetBIOS", "CleanUpVM"}    -> "cleanup"
    [] pc \in {"GenerateRandomPassword", "InvokeSysprep",
               "EnableLocalSecurityPolicy", "CreateUnattend"}   -> "sysprep"
    [] pc = "LastDism"                                          -> "dism"
    [] pc = "PostDone"                                          -> "exit0"
    [] pc = "PostFailed"                                        -> "exit2"
    [] pc = "ShutDown"                                          -> "shutdown"
    [] OTHER                                                    -> "none"

SysprepStage == CASE sysprep = "no"  -> "none"
                  [] sysprep = "off" -> "done"
                  [] OTHER           -> sysprep

GuestPower == IF sysprep = "off" THEN "off"
              ELSE IF pc = "Restarted" THEN "restarting" ELSE "on"

(* The scripts come over WinRM: until PostReboot.ps1 turns it off, it is on. *)
WinRMIsUp ==
  pc \in AfterServices \cup {"PostFailed"} => "winrmOff" \notin facts

WinRMIsAuto == "winrmAuto" \in facts

(* A restart counts once the guest is back, when PostReboot.ps1 has started. *)
HasRestarted  == PostStage # "none" /\ "restarted" \in facts
RestartFailed == "restarted" \in missed

(* Construct has each of these by run.                                       *)
TheRun           == 1..1
SetupByRun       == [r \in TheRun |-> SetupStage]
PostByRun        == [r \in TheRun |-> PostStage]
SysprepByRun     == [r \in TheRun |-> SysprepStage]
RebootedByRun    == [r \in TheRun |-> HasRestarted]
UnrestartedByRun == [r \in TheRun |-> RestartFailed]

(* The workstation does not move; it has uploaded what the scripts need.     *)
C == INSTANCE Construct WITH
  AbortAttempts <- 1, MaxRuns <- 1,
  run <- 1, pc <- "awaitPost", tries <- 0, said <- {},
  reason <- [r \in TheRun |-> "none"],
  files <- {"dir", "lgpo", "automation", "scripts"},
  enable <- [r \in TheRun |-> "exit0"],
  testReboot <- FALSE,
  power <- GuestPower,
  winrm <- WinRMIsUp,
  winrmAuto <- WinRMIsAuto,
  rebooted <- RebootedByRun,
  unrestarted <- UnrestartedByRun,
  setup <- SetupByRun,
  post <- PostByRun,
  sysprep <- SysprepByRun,
  cut <- FALSE

(* What the workstation is modelled with is what the scripts do: a function  *)
(* of a script, and the end of sysprep, is one of the guest's steps in       *)
(* Construct, with its effect on WinRM, the power and the exit codes, or     *)
(* nothing the workstation can see.  A Restart-Computer that fails ends      *)
(* Setup.ps1 as it does there, with success and no restart.  Starting a      *)
(* script, a power cut and another run are not the scripts' doing.           *)
ScriptsAreConstructs ==
  [][StartPostReboot \/ Cut \/ Rerun \/ C!Guest \/ UNCHANGED C!guest]_vars
=============================================================================
