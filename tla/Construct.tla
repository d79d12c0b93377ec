------------------------------ MODULE Construct ------------------------------
(***************************************************************************)
(* `stembuild construct`: VMConstruct.PrepareVM on the workstation, the     *)
(* WinRM calls it makes, and the guest machine they act on.                 *)
(*                                                                         *)
(* A WinRM command is one step of the workstation with three outcomes: it   *)
(* is not delivered, it is executed and answered, or it is executed and     *)
(* its answer is lost.  The two long scripts are started by one step and    *)
(* run on the guest by themselves, whether or not the connection survives.  *)
(* After a failure the operator may run the command again (up to MaxRuns    *)
(* times) on whatever the guest has become, scripts of the earlier run that *)
(* are still going included.                                                *)
(***************************************************************************)
EXTENDS Naturals

CONSTANTS
  AbortAttempts,  \* how often `shutdown /a` is tried (5 in the code)
  MaxRuns         \* how often the command is run on one machine (a bound)

ASSUME AbortAttemptsAssumption == AbortAttempts \in Nat \ {0}
ASSUME MaxRunsAssumption == MaxRuns \in Nat \ {0}

Runs == 1 .. MaxRuns

VARIABLES
  run,         \* the run of the command that is current
  pc,          \* the call PrepareVM is in
  tries,       \* failed attempts to abort the test reboot, this round
  said,        \* claims already printed through ConstructMessenger
  reason,      \* by run: class of the error returned, "none" without one
  power,       \* the guest as vCenter sees it; "restarting" spans a restart
  files,       \* artifacts present under C:\provision
  winrm,       \* the guest's WinRM service is up
  winrmAuto,   \* and comes up again after a restart
  enable,      \* by run: the Enable-WinRM program on the guest
  testReboot,  \* `shutdown /r /t 60` is pending on the guest
  rebooted,    \* by run: the guest has restarted since Setup.ps1 succeeded
  unrestarted, \* by run: it has not, since Setup.ps1's Restart-Computer failed
               \* unheard; once PostReboot.ps1 has started this is kept
  setup,       \* by run: Setup.ps1 on the guest
  post,        \* by run: PostReboot.ps1 on the guest
  sysprep,     \* by run: the sysprep.exe its PostReboot.ps1 launched
  cut          \* somebody or something else has powered the guest off

client == <<run, pc, tries, said, reason>>
guest  == <<power, files, winrm, winrmAuto, enable, testReboot, rebooted,
            unrestarted, setup, post, sysprep, cut>>
vars   == <<run, pc, tries, said, reason, power, files, winrm, winrmAuto, enable,
            testReboot, rebooted, unrestarted, setup, post, sysprep, cut>>

Artifact  == {"dir", "lgpo", "automation", "scripts"}
Milestone == {"rebootFinished", "postFinished"}
Reason    == {"none", "iaas", "winrm", "setup", "abort", "postReboot", "power"}
Phase     == {"createProvisionDir", "uploadLGPO", "uploadAutomation",
              "enableWinRM", "enableSleep", "enableCheck", "validate",
              "extractArchive", "logOutUsers", "runSetup", "awaitSetup",
              "rebootSleep", "rebootCheck", "abort",
              "runPost", "awaitPost", "offSleep", "offCheck", "done", "failed"}
EnableState  == {"none", "running", "exit0", "exit1", "killed"}
SetupRunning == {"installing", "installed"}
SetupState   == SetupRunning \union {"none", "exit0", "exit1", "killed"}
PostRunning  == {"cell", "cleanup", "sysprep", "dism"}
PostState    == PostRunning \union {"none", "exit0", "exit2", "killed", "shutdown"}
SysprepState == {"none", "running", "failed", "interrupted", "shutdown", "done"}

TypeOK ==
  /\ run \in Runs
  /\ pc \in Phase
  /\ tries \in 0 .. AbortAttempts
  /\ said \subseteq Milestone
  /\ reason \in [Runs -> Reason]
  /\ power \in {"on", "restarting", "off"}
  /\ files \subseteq Artifact
  /\ winrm \in BOOLEAN
  /\ winrmAuto \in BOOLEAN
  /\ enable \in [Runs -> EnableState]
  /\ testReboot \in BOOLEAN
  /\ rebooted \in [Runs -> BOOLEAN]
  /\ unrestarted \in [Runs -> BOOLEAN]
  /\ setup \in [Runs -> SetupState]
  /\ post \in [Runs -> PostState]
  /\ sysprep \in [Runs -> SysprepState]
  /\ cut \in BOOLEAN

(* A running Windows machine; construct's own EnableWinRM step exists       *)
(* because WinRM may or may not be configured on it.                        *)
Init ==
  /\ run = 1
  /\ pc = "createProvisionDir"
  /\ tries = 0
  /\ said = {}
  /\ reason = [r \in Runs |-> "none"]
  /\ power = "on"
  /\ files = {}
  /\ winrm \in BOOLEAN
  /\ winrmAuto = winrm
  /\ enable = [r \in Runs |-> "none"]
  /\ testReboot = FALSE
  /\ rebooted = [r \in Runs |-> FALSE]
  /\ unrestarted = [r \in Runs |-> FALSE]
  /\ setup = [r \in Runs |-> "none"]
  /\ post = [r \in Runs |-> "none"]
  /\ sysprep = [r \in Runs |-> "none"]
  /\ cut = FALSE

-----------------------------------------------------------------------------
(* PrepareVM: every failing call returns at once.                           *)

Terminated == pc \in {"done", "failed"}

Proceed(next) ==
  /\ pc' = next
  /\ UNCHANGED <<run, reason>>

ReturnError(r) ==
  /\ pc' = "failed"
  /\ reason' = [reason EXCEPT ![run] = r]
  /\ UNCHANGED run

Say(claim) == said' = said \union {claim}

Reachable == power = "on" /\ winrm

(* A vSphere guest operation that stores an artifact.  An error may be      *)
(* reported after the file got there.                                       *)
Store(artifact, needs, next) ==
  /\ \/ /\ power = "on" /\ needs \subseteq files
        /\ files' = files \union {artifact}
        /\ Proceed(next) \/ ReturnError("iaas")
     \/ UNCHANGED files /\ ReturnError("iaas")
  /\ UNCHANGED <<tries, said, power, winrm, winrmAuto, enable, testReboot,
                 rebooted, unrestarted, setup, post, sysprep, cut>>

CreateProvisionDirectory ==
  /\ pc = "createProvisionDir"
  /\ Store("dir", {}, "uploadLGPO")

UploadLGPO ==
  /\ pc = "uploadLGPO"
  /\ Store("lgpo", {"dir"}, "uploadAutomation")

UploadAutomation ==
  /\ pc = "uploadAutomation"
  /\ Store("automation", {"dir"}, "enableWinRM")

(* The answer with the process id may be lost.                              *)
StartProgramInGuest ==
  \/ /\ power = "on"
     /\ enable' = [enable EXCEPT ![run] = "running"]
     /\ Proceed("enableCheck") \/ ReturnError("iaas")
  \/ UNCHANGED enable /\ ReturnError("iaas")

EnableWinRM ==
  /\ pc = "enableWinRM"
  /\ StartProgramInGuest
  /\ UNCHANGED <<tries, said, power, files, winrm, winrmAuto, testReboot,
                 rebooted, unrestarted, setup, post, sysprep, cut>>

(* ExitCodeForProgramInGuest: a poll every 250 ms, without a timeout.       *)
EnableSleep ==
  /\ pc = "enableSleep"
  /\ Proceed("enableCheck")
  /\ UNCHANGED <<tries, said, guest>>

(* Bug: a program that is no longer listed is polled for again.             *)
ExitCodeOfVanished ==
  /\ pc = "enableCheck"
  /\ \/ power = "on" /\ enable[run] \in {"running", "killed"} /\ Proceed("enableSleep")
     \/ power = "on" /\ enable[run] = "exit0" /\ Proceed("validate")
     \/ ReturnError("iaas")
  /\ UNCHANGED <<tries, said, guest>>

ExitCodeOfEnable ==
  /\ pc = "enableCheck"
  /\ \/ power = "on" /\ enable[run] = "running" /\ Proceed("enableSleep")
     \/ power = "on" /\ enable[run] = "exit0" /\ Proceed("validate")
     \/ ReturnError("iaas")
  /\ UNCHANGED <<tries, said, guest>>

ValidateConnection ==
  /\ pc = "validate"
  /\ (Reachable /\ Proceed("extractArchive")) \/ ReturnError("winrm")
  /\ UNCHANGED <<tries, said, guest>>

ExtractArchive ==
  /\ pc = "extractArchive"
  /\ \/ /\ Reachable /\ "automation" \in files
        /\ files' = files \union {"scripts"}
        /\ Proceed("logOutUsers") \/ ReturnError("winrm")
     \/ UNCHANGED files /\ ReturnError("winrm")
  /\ UNCHANGED <<tries, said, power, winrm, winrmAuto, enable, testReboot,
                 rebooted, unrestarted, setup, post, sysprep, cut>>

LogOutUsers ==
  /\ pc = "logOutUsers"
  /\ (Reachable /\ Proceed("runSetup")) \/ ReturnError("winrm")
  /\ UNCHANGED <<tries, said, guest>>

ExecuteSetupScript ==
  /\ pc = "runSetup"
  /\ \/ /\ Reachable /\ "scripts" \in files
        /\ setup' = [setup EXCEPT ![run] = "installing"]
        /\ Proceed("awaitSetup")
     \/ UNCHANGED setup /\ ReturnError("setup")
  /\ UNCHANGED <<tries, said, power, files, winrm, winrmAuto, enable,
                 testReboot, rebooted, unrestarted, post, sysprep, cut>>

(* Bug: only an exit code is waited for, a broken connection goes unnoticed. *)
SetupReturnsOnlyWithCode ==
  /\ pc = "awaitSetup"
  /\ \/ setup[run] = "exit0" /\ Proceed("rebootSleep")
     \/ setup[run] = "exit1" /\ ReturnError("setup")
  /\ UNCHANGED <<tries, said, guest>>

(* Bug: whatever ends the call is taken for the restart of the guest.        *)
SetupReturnsErrorIgnored ==
  /\ pc = "awaitSetup"
  /\ Proceed("rebootSleep")
  /\ UNCHANGED <<tries, said, guest>>

(* The exit code arrives, or the connection breaks first: Setup.ps1 ends    *)
(* with Restart-Computer, so the two race.                                  *)
SetupReturns ==
  /\ pc = "awaitSetup"
  /\ (setup[run] = "exit0" /\ Proceed("rebootSleep")) \/ ReturnError("setup")
  /\ UNCHANGED <<tries, said, guest>>

-----------------------------------------------------------------------------
(* RebootWaiter and RebootChecker: poll by asking the guest to restart in   *)
(* 60 seconds.  The request is refused while a restart is under way or      *)
(* already scheduled; when it is accepted it has to be aborted.             *)

RebootSleep ==
  /\ pc = "rebootSleep"
  /\ Proceed("rebootCheck")
  /\ UNCHANGED <<tries, said, guest>>

TryReboot(answered) ==
  /\ pc = "rebootCheck"
  /\ Reachable
  /\ ~testReboot
  /\ testReboot' = TRUE
  /\ tries' = 0
  /\ Proceed(IF answered THEN "abort" ELSE "rebootSleep")
  /\ UNCHANGED <<said, power, files, winrm, winrmAuto, enable, rebooted,
                 unrestarted, setup, post, sysprep, cut>>

(* Bug: a guest that answers at all, if only to refuse, counts as back.     *)
TryRebootRefusedIsBack ==
  /\ pc = "rebootCheck"
  /\ \/ power # "off" /\ Proceed("runPost") /\ Say("rebootFinished")
     \/ Proceed("rebootSleep") /\ UNCHANGED said
  /\ UNCHANGED <<tries, guest>>

(* Any error, a refusal included, means "not yet": (false, nil).            *)
TryRebootRefused ==
  /\ pc = "rebootCheck"
  /\ Proceed("rebootSleep")
  /\ UNCHANGED <<tries, said, guest>>

AbortReboot ==
  /\ pc = "abort"
  /\ Reachable
  /\ testReboot
  /\ testReboot' = FALSE
  /\ Proceed("runPost")
  /\ Say("rebootFinished")
  /\ UNCHANGED <<tries, power, files, winrm, winrmAuto, enable, rebooted,
                 unrestarted, setup, post, sysprep, cut>>

(* Bug: the error of the last attempt is dropped.                           *)
AbortRebootErrsDropped ==
  /\ pc = "abort"
  /\ testReboot' \in IF Reachable THEN {testReboot, FALSE} ELSE {testReboot}
  /\ tries' = tries + 1
  /\ Proceed(IF tries' = AbortAttempts THEN "runPost" ELSE "abort")
  /\ UNCHANGED <<said, power, files, winrm, winrmAuto, enable, rebooted,
                 unrestarted, setup, post, sysprep, cut>>

(* Not delivered, refused because nothing is pending, or answer lost.       *)
AbortRebootErrs ==
  /\ pc = "abort"
  /\ testReboot' \in IF Reachable THEN {testReboot, FALSE} ELSE {testReboot}
  /\ tries' = tries + 1
  /\ IF tries' = AbortAttempts THEN ReturnError("abort") ELSE Proceed("abort")
  /\ UNCHANGED <<said, power, files, winrm, winrmAuto, enable, rebooted,
                 unrestarted, setup, post, sysprep, cut>>

-----------------------------------------------------------------------------
(* The post-reboot script and the wait for the power-off.                   *)

(* Bug: any error of the post-reboot script is a failure.                   *)
ConnectionEventFails ==
  /\ ReturnError("postReboot")
  /\ UNCHANGED said

(* An error that does not come from powershell is only a warning.           *)
ConnectionEvent ==
  /\ Proceed("offSleep")
  /\ Say("postFinished")

ExecutePostRebootScript ==
  /\ pc = "runPost"
  /\ \/ /\ Reachable
        /\ post' = [post EXCEPT ![run] = "cell"]
        /\ Proceed("awaitPost")
        /\ UNCHANGED said
     \/ UNCHANGED post /\ ConnectionEvent
  /\ UNCHANGED <<tries, power, files, winrm, winrmAuto, enable, testReboot,
                 rebooted, unrestarted, setup, sysprep, cut>>

PostRebootReturns ==
  /\ pc = "awaitPost"
  /\ \/ /\ post[run] = "exit0"
        /\ Proceed("offSleep")
        /\ Say("postFinished")
     \/ /\ post[run] = "exit2"
        /\ ReturnError("postReboot")
        /\ UNCHANGED said
     \/ ConnectionEvent
  /\ UNCHANGED <<tries, guest>>

OffSleep ==
  /\ pc = "offSleep"
  /\ Proceed("offCheck")
  /\ UNCHANGED <<tries, said, guest>>

(* Bug: the poll goes on while the guest is off, and ends while it is on.   *)
IsPoweredOffInverted ==
  /\ pc = "offCheck"
  /\ \/ power = "off" /\ Proceed("offSleep")
     \/ power # "off" /\ Proceed("done")
     \/ ReturnError("power")
  /\ UNCHANGED <<tries, said, guest>>

IsPoweredOff ==
  /\ pc = "offCheck"
  /\ \/ power = "off" /\ Proceed("done")
     \/ power # "off" /\ Proceed("offSleep")
     \/ ReturnError("power")
  /\ UNCHANGED <<tries, said, guest>>

(* The operator runs the command again.                                     *)
Rerun ==
  /\ pc = "failed"
  /\ run < MaxRuns
  /\ run' = run + 1
  /\ pc' = "createProvisionDir"
  /\ tries' = 0
  /\ said' = {}
  /\ UNCHANGED <<reason, guest>>

PrepareVM ==
  \/ CreateProvisionDirectory \/ UploadLGPO \/ UploadAutomation
  \/ EnableWinRM \/ EnableSleep \/ ExitCodeOfEnable
  \/ ValidateConnection \/ ExtractArchive \/ LogOutUsers
  \/ ExecuteSetupScript \/ SetupReturns
  \/ RebootSleep \/ TryReboot(TRUE) \/ TryReboot(FALSE) \/ TryRebootRefused
  \/ AbortReboot \/ AbortRebootErrs
  \/ ExecutePostRebootScript \/ PostRebootReturns
  \/ OffSleep \/ IsPoweredOff

-----------------------------------------------------------------------------
(* The guest.                                                               *)

EnableStops ==
  enable' = [r \in Runs |-> IF enable[r] = "running" THEN "killed" ELSE enable[r]]

(* Enable-WinRM logs the failures of the winrm commands it runs and still   *)
(* exits 0, so its success says nothing about the service.                  *)
EnableProgress(r) ==
  /\ enable[r] = "running" /\ power = "on"
  /\ winrm' \in {winrm, TRUE}
  /\ winrmAuto' \in {winrmAuto, winrm'}
  /\ UNCHANGED <<client, power, files, enable, testReboot, rebooted,
                 unrestarted, setup, post, sysprep, cut>>

EnableEnds(r) ==
  /\ enable[r] = "running" /\ power = "on"
  /\ enable' \in {[enable EXCEPT ![r] = "exit0"], [enable EXCEPT ![r] = "exit1"]}
  /\ UNCHANGED <<client, power, files, winrm, winrmAuto, testReboot, rebooted,
                 unrestarted, setup, post, sysprep, cut>>

SetupsStop ==
  [r \in Runs |-> IF setup[r] \in SetupRunning THEN "killed" ELSE setup[r]]

(* A restart ends every script; sysprep does not survive it either.         *)
RestartGuest ==
  /\ power' = "restarting"
  /\ EnableStops
  /\ post' = [r \in Runs |-> IF post[r] \in PostRunning THEN "killed" ELSE post[r]]
  /\ sysprep' = [r \in Runs |-> IF sysprep[r] = "running" THEN "interrupted"
                                ELSE sysprep[r]]

(* So does a power-off, which also cancels a scheduled restart.             *)
GuestGoesOff ==
  /\ power' = "off"
  /\ EnableStops
  /\ setup' = SetupsStop
  /\ post' = [r \in Runs |-> IF post[r] \in PostRunning THEN "shutdown" ELSE post[r]]
  /\ testReboot' = FALSE
  /\ UNCHANGED <<client, files, winrm, winrmAuto, rebooted, unrestarted>>

(* Bug: the startup type of WinRM is left as it was.                        *)
SetupInstallsManualWinRM(r) ==
  /\ setup[r] = "installing" /\ power = "on"
  /\ {"lgpo", "scripts"} \subseteq files
  /\ setup' = [setup EXCEPT ![r] = "installed"]
  /\ UNCHANGED <<client, power, files, winrm, winrmAuto, enable, testReboot,
                 rebooted, unrestarted, post, sysprep, cut>>

(* InstallCFFeatures makes WinRM start automatically.                       *)
SetupInstalls(r) ==
  /\ setup[r] = "installing" /\ power = "on"
  /\ {"lgpo", "scripts"} \subseteq files
  /\ setup' = [setup EXCEPT ![r] = "installed"]
  /\ winrmAuto' = TRUE
  /\ UNCHANGED <<client, power, files, winrm, enable, testReboot, rebooted,
                 unrestarted, post, sysprep, cut>>

SetupFails(r) ==
  /\ setup[r] \in SetupRunning /\ power = "on"
  /\ setup' = [setup EXCEPT ![r] = "exit1"]
  /\ UNCHANGED <<client, power, files, winrm, winrmAuto, enable, testReboot,
                 rebooted, unrestarted, post, sysprep, cut>>

(* Restart-Computer is the last command of ProvisionVM.                     *)
SetupRestarts(r) ==
  /\ setup[r] = "installed" /\ power = "on" /\ ~testReboot
  /\ setup' = [SetupsStop EXCEPT ![r] = "exit0"]
  /\ RestartGuest
  /\ UNCHANGED <<client, files, winrm, winrmAuto, testReboot, rebooted,
                 unrestarted, cut>>

(* Its error, as when another restart is scheduled already, is not          *)
(* terminating: Setup.ps1 ends with success on a guest that stays up.       *)
SetupDoesNotRestart(r) ==
  /\ setup[r] = "installed" /\ power = "on"
  /\ setup' = [setup EXCEPT ![r] = "exit0"]
  /\ unrestarted' = [unrestarted EXCEPT ![r] = ~testReboot]
  /\ UNCHANGED <<client, power, files, winrm, winrmAuto, enable, testReboot,
                 rebooted, post, sysprep, cut>>

TestRebootFires ==
  /\ testReboot /\ power = "on"
  /\ testReboot' = FALSE
  /\ setup' = SetupsStop
  /\ RestartGuest
  /\ UNCHANGED <<client, files, winrm, winrmAuto, rebooted, unrestarted, cut>>

BootCompletes ==
  /\ power = "restarting"
  /\ power' = "on"
  /\ winrm' = winrmAuto
  /\ rebooted' = [r \in Runs |-> rebooted[r] \/ setup[r] = "exit0"]
  /\ unrestarted' = [r \in Runs |-> unrestarted[r] /\ post[r] # "none"]
  /\ UNCHANGED <<client, files, winrmAuto, enable, testReboot, setup, post,
                 sysprep, cut>>

(* Protect-CFCell keeps WinRM from starting again; disable-service passes   *)
(* over a service it cannot configure.                                      *)
InstallCFCell(r) ==
  /\ post[r] = "cell" /\ power = "on"
  /\ post' = [post EXCEPT ![r] = "cleanup"]
  /\ winrmAuto' \in {winrmAuto, FALSE}
  /\ winrm' \in {winrm, FALSE}
  /\ UNCHANGED <<client, power, files, enable, testReboot, rebooted,
                 unrestarted, setup, sysprep, cut>>

CleanUpVM(r) ==
  /\ post[r] = "cleanup" /\ power = "on"
  /\ post' = [post EXCEPT ![r] = "sysprep"]
  /\ UNCHANGED <<client, power, files, winrm, winrmAuto, enable, testReboot,
                 rebooted, unrestarted, setup, sysprep, cut>>

(* Invoke-Sysprep launches sysprep.exe and does not wait for it.            *)
SysprepVM(r) ==
  /\ post[r] = "sysprep" /\ power = "on"
  /\ post' = [post EXCEPT ![r] = "dism"]
  /\ sysprep' = [sysprep EXCEPT ![r] = "running"]
  /\ UNCHANGED <<client, power, files, winrm, winrmAuto, enable, testReboot,
                 rebooted, unrestarted, setup, cut>>

PostRebootEnds(r) ==
  /\ post[r] = "dism" /\ power = "on"
  /\ post' = [post EXCEPT ![r] = "exit0"]
  /\ UNCHANGED <<client, power, files, winrm, winrmAuto, enable, testReboot,
                 rebooted, unrestarted, setup, sysprep, cut>>

(* An exception in any step, the Dism after sysprep included, is exit 2.    *)
PostRebootFails(r) ==
  /\ post[r] \in PostRunning /\ power = "on"
  /\ post' = [post EXCEPT ![r] = "exit2"]
  /\ IF post[r] = "cell"
       THEN winrmAuto' \in {winrmAuto, FALSE} /\ winrm' \in {winrm, FALSE}
       ELSE UNCHANGED <<winrm, winrmAuto>>
  /\ UNCHANGED <<client, power, files, enable, testReboot, rebooted,
                 unrestarted, setup, sysprep, cut>>

SysprepShutsDown(r) ==
  /\ sysprep[r] = "running" /\ power = "on"
  /\ GuestGoesOff
  /\ sysprep' = [q \in Runs |-> IF q = r THEN "done"
                                ELSE IF sysprep[q] = "running" THEN "shutdown"
                                ELSE sysprep[q]]
  /\ UNCHANGED cut

(* sysprep's exit code is read by nobody.                                   *)
SysprepFails(r) ==
  /\ sysprep[r] = "running" /\ power = "on"
  /\ sysprep' = [sysprep EXCEPT ![r] = "failed"]
  /\ UNCHANGED <<client, power, files, winrm, winrmAuto, enable, testReboot,
                 rebooted, unrestarted, setup, post, cut>>

(* Neither a script nor the command, but an operator, vCenter or a power    *)
(* failure; that somebody switches it on again is not modelled.             *)
PoweredOffByOthers ==
  /\ power # "off"
  /\ GuestGoesOff
  /\ sysprep' = [r \in Runs |-> IF sysprep[r] = "running" THEN "shutdown"
                                ELSE sysprep[r]]
  /\ cut' = TRUE

Guest ==
  \/ \E r \in Runs :
       \/ EnableProgress(r) \/ EnableEnds(r)
       \/ SetupInstalls(r) \/ SetupFails(r)
       \/ SetupRestarts(r) \/ SetupDoesNotRestart(r)
       \/ InstallCFCell(r) \/ CleanUpVM(r) \/ SysprepVM(r)
       \/ PostRebootEnds(r) \/ PostRebootFails(r)
       \/ SysprepShutsDown(r) \/ SysprepFails(r)
  \/ BootCompletes \/ TestRebootFires \/ PoweredOffByOthers

Next == PrepareVM \/ Rerun \/ Guest

Spec == Init /\ [][Next]_vars

(* The workstation keeps running, the Enable-WinRM program it waits for     *)
(* ends, a restart completes, and a WinRM request is not lost every time.   *)
Fairness ==
  /\ WF_vars(PrepareVM)
  /\ WF_vars(EnableEnds(run))
  /\ WF_vars(BootCompletes)
  /\ WF_vars(TestRebootFires)
  /\ SF_vars(TryReboot(TRUE))

FairSpec == Spec /\ Fairness

-----------------------------------------------------------------------------
(* Correctness.                                                             *)

(* "The reboot has finished." is printed only after the guest has restarted  *)
(* since this run's Setup.ps1 succeeded - unless Restart-Computer failed and *)
(* nobody heard of it: the checker cannot see that restart, it only sees     *)
(* whether the guest accepts one of its own.                                 *)
RebootFinishedIsTrue ==
  "rebootFinished" \in said => rebooted[run] \/ unrestarted[run]

(* A test reboot pending on the guest is one the reboot check is still       *)
(* dealing with, or one some run has reported it could not abort: no lost    *)
(* answer leaves one behind for a later script to die of.                    *)
TestRebootOwned ==
  testReboot => \/ pc \in {"rebootSleep", "rebootCheck", "abort"}
                \/ \E r \in 1 .. run : reason[r] = "abort"

(* Neither PostReboot.ps1 nor sysprep is cut short by a restart stembuild    *)
(* asked for, unless the operator has started another run meanwhile, or the  *)
(* script was started on a guest that had not restarted: there the setup     *)
(* script of an earlier run may still be alive, and restart it.              *)
PostRebootUndisturbed ==
  \A r \in Runs : post[r] = "killed" \/ sysprep[r] = "interrupted"
                    => run > r \/ unrestarted[r]

(* Success means a guest that is off because the sysprep of this very run    *)
(* generalized it, even when the connection to the post-reboot script was    *)
(* lost at any point and however many runs came before.  The poll asks for   *)
(* no more than the power state, so there are two exceptions: the guest was  *)
(* powered off by others, or it was the sysprep of an earlier run, alive     *)
(* because the guest has not restarted since this run's setup.               *)
SuccessIsSealed ==
  pc = "done" =>
    /\ power = "off"
    /\ \/ sysprep[run] = "done"
       \/ cut
       \/ unrestarted[run] /\ \E r \in Runs : sysprep[r] = "done"

(* "failure in post-reboot script" is reported only for a script of that run *)
(* that did fail; broken connections never turn into that verdict.           *)
PostFailureIsReal ==
  \A r \in Runs : reason[r] = "postReboot" => post[r] = "exit2"

(* Every start of PostReboot.ps1 happens on a machine that is up and has no  *)
(* restart scheduled.  Unless Setup.ps1 could not restart it, the machine    *)
(* has restarted since then, and no script of an earlier run, and no sysprep,*)
(* is still at work on it.                                                   *)
PostRebootStartsClean ==
  [][\A r \in Runs : post[r] = "none" /\ post'[r] # "none" =>
        /\ power = "on" /\ ~testReboot
        /\ \/ unrestarted[r]
           \/ /\ rebooted[r]
              /\ \A q \in Runs : /\ setup[q] \notin SetupRunning
                                 /\ post[q] \notin PostRunning
                                 /\ sysprep[q] # "running"]_vars

(* From the start of PostReboot.ps1 on, nothing turns WinRM on again, neither *)
(* now nor for the next start: no Enable-WinRM program whose end nobody saw,  *)
(* no setup script of an earlier run and no restart undoes Protect-CFCell.    *)
(* (They can where none of them died, on a guest that did not restart.)       *)
WinRMStaysOff ==
  [][post[run] # "none" /\ ~unrestarted[run]
       => (winrm' => winrm) /\ (winrmAuto' => winrmAuto)]_vars

(* The poll for the end of Enable-WinRM ends, whatever becomes of the guest. *)
EnableWaitEnds == pc = "enableSleep" ~> pc \in {"validate", "failed"}

(* The reboot poll, which has no timeout, ends although its own restarts     *)
(* keep taking the guest down whenever an answer to `shutdown /r` is lost.   *)
(* It need not where an earlier run had got as far as PostReboot.ps1, which  *)
(* may disable WinRM between this run's setup and the restart, and it does   *)
(* not when others power the guest off.                                      *)
RebootWaitEnds ==
  pc = "rebootSleep" /\ (\A r \in Runs : post[r] = "none")
    ~> pc \in {"runPost", "failed"} \/ cut

-----------------------------------------------------------------------------
(* The inductive strengthening of the invariants above.                     *)

Quiet ==
  \A r \in Runs : /\ enable[r] # "running"
                  /\ setup[r] \notin SetupRunning
                  /\ post[r] \notin PostRunning
                  /\ sysprep[r] # "running"

(* Runs that have not begun have left no trace.                             *)
FutureUntouched ==
  \A r \in Runs : r > run =>
    /\ reason[r] = "none" /\ enable[r] = "none"
    /\ setup[r] = "none" /\ post[r] = "none"
    /\ ~rebooted[r] /\ ~unrestarted[r]

(* What PrepareVM's position says about this run's scripts.                 *)
Progress ==
  /\ pc \in {"createProvisionDir", "uploadLGPO", "uploadAutomation", "enableWinRM",
             "enableSleep", "enableCheck", "validate", "extractArchive", "logOutUsers", "runSetup"}
       => setup[run] = "none" /\ post[run] = "none"
  /\ pc \in {"awaitSetup", "rebootSleep", "rebootCheck", "abort", "runPost"}
       => post[run] = "none"
  /\ pc \in {"rebootSleep", "rebootCheck", "abort", "runPost", "awaitPost",
             "offSleep", "offCheck", "done"}
       => setup[run] = "exit0"
  /\ pc # "failed" => reason[run] = "none"
  /\ pc = "abort" => tries < AbortAttempts

(* A guest that is not up runs nothing and has nothing scheduled.           *)
StoppedIsQuiet == power # "on" => Quiet /\ ~testReboot

SetupBeforeRestart ==
  \A r \in Runs : /\ rebooted[r] \/ unrestarted[r] => setup[r] = "exit0"
                  /\ rebooted[r] /\ unrestarted[r] => post[r] # "none"

(* Between this run's setup and its post-reboot script: once the guest is   *)
(* going down or can accept a restart, everything older has died.           *)
QuietAfterSetup ==
  setup[run] = "exit0" /\ post[run] = "none" /\ ~unrestarted[run]
      /\ ~(power = "on" /\ testReboot)
    => Quiet /\ (power = "on" => rebooted[run])

QuietWhileAborting ==
  pc \in {"abort", "runPost"} /\ ~unrestarted[run] => Quiet /\ rebooted[run]

(* From the successful abort on, nothing can restart the guest.             *)
NoRestartAhead ==
  /\ pc \in {"runPost", "awaitPost", "offSleep", "offCheck", "done"} => ~testReboot
  /\ post[run] # "none" =>
       /\ ~testReboot
       /\ rebooted[run] \/ unrestarted[run]
  /\ post[run] # "none" /\ ~unrestarted[run] =>
       /\ power # "restarting"
       /\ \A r \in Runs : /\ enable[r] # "running"
                          /\ setup[r] \notin SetupRunning
                          /\ r # run => /\ post[r] \notin PostRunning
                                        /\ sysprep[r] # "running"

(* What has powered the guest off, and whose sysprep it was while the       *)
(* command waits for that.                                                  *)
OffHasReason ==
  /\ power = "off" => cut \/ \E r \in Runs : sysprep[r] = "done"
  /\ power # "off" => \A r \in Runs : sysprep[r] # "done"
  /\ power = "off" /\ pc \in {"runPost", "awaitPost", "offSleep", "offCheck", "done"}
       => cut \/ unrestarted[run] \/ sysprep[run] = "done"

SysprepHasOwner == \A r \in Runs : sysprep[r] # "none" => post[r] # "none"

IInv ==
  /\ TypeOK
  /\ RebootFinishedIsTrue
  /\ TestRebootOwned
  /\ PostRebootUndisturbed
  /\ SuccessIsSealed
  /\ PostFailureIsReal
  /\ FutureUntouched
  /\ Progress
  /\ SetupBeforeRestart
  /\ StoppedIsQuiet
  /\ QuietAfterSetup
  /\ QuietWhileAborting
  /\ NoRestartAhead
  /\ OffHasReason
  /\ SysprepHasOwner

-----------------------------------------------------------------------------
(* What the reboot poll relies on, besides IInv, in order to end: a setup   *)
(* script found WinRM up and leaves it so; nothing but a post-reboot script *)
(* turns it off.                                                            *)
WinRMAfterSetup ==
  (\A r \in Runs : post[r] = "none") =>
    \A r \in Runs : /\ setup[r] \in SetupRunning \union {"exit0"} => winrm
                    /\ setup[r] \in {"installed", "exit0"} => winrmAuto

(* The conditions the fairness above comes down to: where these hold, and   *)
(* only there, the step can be taken.                                       *)
EnableReady  == enable[run] = "running" /\ power = "on"
RestartReady == testReboot /\ power = "on"
TryReady     == pc = "rebootCheck" /\ Reachable /\ ~testReboot

GuardsAreExact ==
  /\ ENABLED PrepareVM          <=> ~Terminated
  /\ ENABLED EnableEnds(run)    <=> EnableReady
  /\ ENABLED BootCompletes      <=> power = "restarting"
  /\ ENABLED TestRebootFires    <=> RestartReady
  /\ ENABLED TryReboot(TRUE)    <=> TryReady

-----------------------------------------------------------------------------
(* The machine and the command as ConstructAbs sees them.                   *)
GuestStage == IF power = "off" THEN IF sysprep[run] = "done" THEN "sealed" ELSE "off"
              ELSE IF post[run] # "none" THEN "sealing"
              ELSE IF rebooted[run] THEN "restarted" ELSE "provisioning"

Verdict == IF pc = "done" THEN "succeeded"
           ELSE IF pc = "failed" THEN "failed" ELSE "running"

Leftover == \E r \in Runs : /\ r # run
                            /\ post[r] \in PostRunning \/ sysprep[r] = "running"

Abs == INSTANCE ConstructAbs WITH
  stage <- GuestStage, outcome <- Verdict, leftover <- Leftover,
  unrestarted <- unrestarted[run]

(* PrepareVM keeps the promises of ConstructAbs.                             *)
AbsSafety == Abs!Safety
AbsSpec   == Abs!Spec
=============================================================================
