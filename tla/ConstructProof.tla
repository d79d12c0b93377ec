--------------------------- MODULE ConstructProof ---------------------------
(***************************************************************************)
(* The invariants of Construct for every number of runs and of attempts,    *)
(* and the refinement of ConstructAbs, proved with TLAPS.                   *)
(***************************************************************************)
EXTENDS Construct, TLAPS

USE MaxRunsAssumption, AbortAttemptsAssumption
    DEF Runs, Phase, Reason, Artifact, Milestone, SetupRunning, SetupState,
        PostRunning, PostState, SysprepState, EnableState

LEMMA InitInv == Init => IInv
<1> SUFFICES ASSUME Init PROVE IInv
  OBVIOUS
<1> USE DEF Init
<1>1. TypeOK
  <2>1. winrm \in BOOLEAN /\ winrmAuto \in BOOLEAN
    BY Zenon
  <2>2. run \in Runs /\ tries \in 0 .. AbortAttempts /\ pc \in Phase
    OBVIOUS
  <2>3. said \subseteq Milestone /\ files \subseteq Artifact
    OBVIOUS
  <2>4. rebooted \in [Runs -> BOOLEAN] /\ unrestarted \in [Runs -> BOOLEAN]
        /\ cut \in BOOLEAN
    BY Zenon
  <2>5. reason \in [Runs -> Reason] /\ setup \in [Runs -> SetupState]
        /\ post \in [Runs -> PostState]
    OBVIOUS
  <2>6. power \in {"on", "restarting", "off"} /\ sysprep \in [Runs -> SysprepState]
        /\ testReboot \in BOOLEAN
    OBVIOUS
  <2>. QED
    BY <2>1, <2>2, <2>3, <2>4, <2>5, <2>6 DEF TypeOK
<1>2. /\ RebootFinishedIsTrue /\ TestRebootOwned /\ PostRebootUndisturbed
      /\ SuccessIsSealed /\ PostFailureIsReal /\ OffHasReason /\ StoppedIsQuiet /\ SetupBeforeRestart /\ SysprepHasOwner
  BY DEF RebootFinishedIsTrue, TestRebootOwned, PostRebootUndisturbed,
         SuccessIsSealed, PostFailureIsReal, OffHasReason, StoppedIsQuiet, SetupBeforeRestart, Quiet, SysprepHasOwner
<1>3. FutureUntouched /\ Progress /\ QuietAfterSetup /\ QuietWhileAborting
      /\ NoRestartAhead
  BY DEF FutureUntouched, Progress, QuietAfterSetup, QuietWhileAborting,
         NoRestartAhead
<1>. QED
  BY <1>1, <1>2, <1>3 DEF IInv

Early == {"createProvisionDir", "uploadLGPO", "uploadAutomation", "enableWinRM",
          "enableSleep", "enableCheck", "validate", "extractArchive", "logOutUsers",
          "runSetup"}

(* What the steps of PrepareVM before the setup script may change.          *)
Preparing ==
  /\ UNCHANGED <<tries, said, power, testReboot, rebooted, unrestarted, setup,
                 post, sysprep, cut>>
  /\ files' \subseteq Artifact
  /\ winrm' \in BOOLEAN
  /\ winrmAuto' \in BOOLEAN
  /\ \/ enable' = enable
     \/ /\ pc = "enableWinRM" /\ power = "on"
        /\ enable' = [enable EXCEPT ![run] = "running"]

LEMMA EarlyStep ==
  ASSUME IInv, Preparing, NEW next \in Early, pc \in Early, Proceed(next)
  PROVE  IInv'
<1> USE DEF Preparing, Proceed, Early
<1>1. TypeOK'
  BY DEF IInv, TypeOK
<1>2. /\ RebootFinishedIsTrue' /\ TestRebootOwned' /\ PostRebootUndisturbed'
      /\ SuccessIsSealed' /\ PostFailureIsReal' /\ OffHasReason' /\ StoppedIsQuiet' /\ SetupBeforeRestart' /\ SysprepHasOwner'
  BY DEF IInv, RebootFinishedIsTrue, TestRebootOwned, PostRebootUndisturbed,
         SuccessIsSealed, PostFailureIsReal, OffHasReason, StoppedIsQuiet, SetupBeforeRestart, Quiet, SysprepHasOwner
<1>3. FutureUntouched' /\ Progress' /\ QuietAfterSetup' /\ QuietWhileAborting'
      /\ NoRestartAhead'
  BY DEF IInv, TypeOK, FutureUntouched, Progress, QuietAfterSetup, QuietWhileAborting,
         NoRestartAhead, Quiet
<1>. QED
  BY <1>1, <1>2, <1>3 DEF IInv

(* An error returned anywhere but in the reboot check.                      *)
LEMMA ErrorStep ==
  ASSUME IInv, Preparing, NEW e \in Reason \ {"none"}, ReturnError(e),
         pc \notin {"rebootSleep", "rebootCheck", "abort", "done", "failed"},
         e = "postReboot" => post[run] = "exit2"
  PROVE  IInv'
<1> USE DEF Preparing, ReturnError
<1>1. TypeOK'
  BY DEF IInv, TypeOK
<1>2. RebootFinishedIsTrue' /\ PostRebootUndisturbed' /\ SuccessIsSealed'
      /\ OffHasReason' /\ StoppedIsQuiet' /\ SetupBeforeRestart' /\ SysprepHasOwner'
  BY DEF IInv, RebootFinishedIsTrue, PostRebootUndisturbed, SuccessIsSealed,
         OffHasReason, StoppedIsQuiet, SetupBeforeRestart, Quiet, SysprepHasOwner
<1>3. TestRebootOwned'
  BY DEF IInv, TypeOK, TestRebootOwned, Progress
<1>4. PostFailureIsReal'
  BY DEF IInv, TypeOK, PostFailureIsReal
<1>5. FutureUntouched'
  BY DEF IInv, TypeOK, FutureUntouched
<1>6. Progress' /\ QuietAfterSetup' /\ QuietWhileAborting' /\ NoRestartAhead'
  BY DEF IInv, Progress, QuietAfterSetup, QuietWhileAborting, NoRestartAhead, Quiet
<1>. QED
  BY <1>1, <1>2, <1>3, <1>4, <1>5, <1>6 DEF IInv

LEMMA StoreInv ==
  ASSUME IInv, NEW artifact \in Artifact, NEW needs, NEW next \in Early,
         Store(artifact, needs, next), pc \in Early
  PROVE  IInv'
<1>1. Preparing
  BY DEF Store, Preparing, IInv, TypeOK
<1>2. CASE Proceed(next)
  BY <1>1, <1>2, EarlyStep
<1>3. CASE ReturnError("iaas")
  BY <1>1, <1>3, ErrorStep DEF Early
<1>. QED
  BY <1>2, <1>3 DEF Store

LEMMA PreparationInv ==
  ASSUME IInv,
         \/ CreateProvisionDirectory \/ UploadLGPO \/ UploadAutomation
         \/ EnableWinRM \/ EnableSleep \/ ExitCodeOfEnable
         \/ ValidateConnection \/ ExtractArchive \/ LogOutUsers
  PROVE  IInv'
<1>1. CASE CreateProvisionDirectory
  BY <1>1, StoreInv DEF CreateProvisionDirectory, Early
<1>2. CASE UploadLGPO
  BY <1>2, StoreInv DEF UploadLGPO, Early
<1>3. CASE UploadAutomation
  BY <1>3, StoreInv DEF UploadAutomation, Early
<1>4. CASE EnableWinRM
  <2>1. Preparing
    BY <1>4 DEF EnableWinRM, StartProgramInGuest, Preparing, IInv, TypeOK
  <2>. QED
    BY <1>4, <2>1, EarlyStep, ErrorStep DEF EnableWinRM, StartProgramInGuest, Early
<1>8. CASE EnableSleep
  <2>1. Preparing
    BY <1>8 DEF EnableSleep, Preparing, guest, IInv, TypeOK
  <2>. QED
    BY <1>8, <2>1, EarlyStep DEF EnableSleep, Early
<1>9. CASE ExitCodeOfEnable
  <2>1. Preparing
    BY <1>9 DEF ExitCodeOfEnable, Preparing, guest, IInv, TypeOK
  <2>. QED
    BY <1>9, <2>1, EarlyStep, ErrorStep DEF ExitCodeOfEnable, Early
<1>5. CASE ValidateConnection
  <2>1. Preparing
    BY <1>5 DEF ValidateConnection, Preparing, guest, IInv, TypeOK
  <2>. QED
    BY <1>5, <2>1, EarlyStep, ErrorStep DEF ValidateConnection, Early
<1>6. CASE ExtractArchive
  <2>1. Preparing
    BY <1>6 DEF ExtractArchive, Preparing, IInv, TypeOK
  <2>. QED
    BY <1>6, <2>1, EarlyStep, ErrorStep DEF ExtractArchive, Early
<1>7. CASE LogOutUsers
  <2>1. Preparing
    BY <1>7 DEF LogOutUsers, Preparing, guest, IInv, TypeOK
  <2>. QED
    BY <1>7, <2>1, EarlyStep, ErrorStep DEF LogOutUsers, Early
<1>. QED
  BY <1>1, <1>2, <1>3, <1>4, <1>5, <1>6, <1>7, <1>8, <1>9

LEMMA SetupInv ==
  ASSUME IInv, ExecuteSetupScript \/ SetupReturns
  PROVE  IInv'
<1>1. CASE ExecuteSetupScript
  <2>1. CASE ReturnError("setup") /\ UNCHANGED setup
    <3>1. Preparing
      BY <1>1, <2>1 DEF ExecuteSetupScript, Preparing, IInv, TypeOK
    <3>. QED
      BY <1>1, <2>1, <3>1, ErrorStep DEF ExecuteSetupScript
  <2>2. CASE Proceed("awaitSetup") /\ setup' = [setup EXCEPT ![run] = "installing"]
    <3> USE <1>1, <2>2 DEF ExecuteSetupScript, Proceed
    <3>1. TypeOK'
      BY DEF IInv, TypeOK
    <3>2. /\ RebootFinishedIsTrue' /\ TestRebootOwned' /\ PostRebootUndisturbed'
          /\ SuccessIsSealed' /\ PostFailureIsReal' /\ OffHasReason' /\ SysprepHasOwner'
      BY DEF IInv, RebootFinishedIsTrue, TestRebootOwned, PostRebootUndisturbed,
             SuccessIsSealed, PostFailureIsReal, OffHasReason, SysprepHasOwner
    <3>3. setup[run] = "none" /\ power = "on"
      BY DEF IInv, Progress, Reachable, ReturnError
    <3>4. SetupBeforeRestart' /\ StoppedIsQuiet'
      BY <3>3 DEF IInv, TypeOK, StoppedIsQuiet, SetupBeforeRestart
    <3>5. /\ FutureUntouched' /\ Progress' /\ QuietAfterSetup' /\ QuietWhileAborting'
          /\ NoRestartAhead'
      BY DEF IInv, TypeOK, FutureUntouched, Progress, QuietAfterSetup,
             QuietWhileAborting, NoRestartAhead, Quiet
    <3>. QED
      BY <3>1, <3>2, <3>4, <3>5 DEF IInv
  <2>. QED
    BY <1>1, <2>1, <2>2 DEF ExecuteSetupScript
<1>2. CASE SetupReturns
  <2>1. Preparing
    BY <1>2 DEF SetupReturns, Preparing, guest, IInv, TypeOK
  <2>2. CASE ReturnError("setup")
    BY <1>2, <2>1, <2>2, ErrorStep DEF SetupReturns
  <2>3. CASE setup[run] = "exit0" /\ Proceed("rebootSleep")
    <3> USE <1>2, <2>1, <2>3 DEF SetupReturns, Proceed, Preparing
    <3>1. TypeOK'
      BY DEF IInv, TypeOK
    <3>2. /\ RebootFinishedIsTrue' /\ TestRebootOwned' /\ PostRebootUndisturbed'
          /\ SuccessIsSealed' /\ PostFailureIsReal' /\ OffHasReason' /\ StoppedIsQuiet' /\ SetupBeforeRestart' /\ SysprepHasOwner'
      BY DEF IInv, RebootFinishedIsTrue, TestRebootOwned, PostRebootUndisturbed,
             SuccessIsSealed, PostFailureIsReal, OffHasReason, StoppedIsQuiet, SetupBeforeRestart, Quiet, SysprepHasOwner
    <3>3. /\ FutureUntouched' /\ Progress' /\ QuietAfterSetup' /\ QuietWhileAborting'
          /\ NoRestartAhead'
      BY DEF IInv, FutureUntouched, Progress, QuietAfterSetup, QuietWhileAborting,
             NoRestartAhead, Quiet
    <3>. QED
      BY <3>1, <3>2, <3>3 DEF IInv
  <2>. QED
    BY <1>2, <2>2, <2>3 DEF SetupReturns
<1>. QED
  BY <1>1, <1>2

LEMMA RebootCheckInv ==
  ASSUME IInv,
         \/ RebootSleep \/ TryReboot(TRUE) \/ TryReboot(FALSE) \/ TryRebootRefused
         \/ AbortReboot
  PROVE  IInv'
<1>1. CASE RebootSleep
  <2> USE <1>1 DEF RebootSleep, Proceed, guest
  <2>1. TypeOK'
    BY DEF IInv, TypeOK
  <2>2. /\ RebootFinishedIsTrue' /\ TestRebootOwned' /\ PostRebootUndisturbed'
        /\ SuccessIsSealed' /\ PostFailureIsReal' /\ OffHasReason' /\ StoppedIsQuiet' /\ SetupBeforeRestart' /\ SysprepHasOwner'
    BY DEF IInv, RebootFinishedIsTrue, TestRebootOwned, PostRebootUndisturbed,
           SuccessIsSealed, PostFailureIsReal, OffHasReason, StoppedIsQuiet, SetupBeforeRestart, Quiet, SysprepHasOwner
  <2>3. /\ FutureUntouched' /\ Progress' /\ QuietAfterSetup' /\ QuietWhileAborting'
        /\ NoRestartAhead'
    BY DEF IInv, TypeOK, FutureUntouched, Progress, QuietAfterSetup,
           QuietWhileAborting, NoRestartAhead, Quiet
  <2>. QED
    BY <2>1, <2>2, <2>3 DEF IInv
<1>2. CASE TryReboot(TRUE) \/ TryReboot(FALSE)
  <2>0. /\ pc = "rebootCheck" /\ pc' \in {"abort", "rebootSleep"}
        /\ power = "on" /\ winrm /\ testReboot = FALSE /\ testReboot' = TRUE
        /\ tries' = 0
        /\ UNCHANGED <<run, reason, said, power, files, winrm, winrmAuto,
                       enable, rebooted, unrestarted, setup, post, sysprep, cut>>
    <3>1. testReboot = FALSE
      BY <1>2, Zenon DEF TryReboot, IInv, TypeOK
    <3>. QED
      BY <1>2, <3>1 DEF TryReboot, Proceed, Reachable
  <2> USE <2>0
  <2>1. TypeOK'
    BY DEF IInv, TypeOK
  <2>2. /\ RebootFinishedIsTrue' /\ TestRebootOwned' /\ PostRebootUndisturbed'
        /\ SuccessIsSealed' /\ PostFailureIsReal' /\ OffHasReason' /\ StoppedIsQuiet' /\ SetupBeforeRestart' /\ SysprepHasOwner'
    BY DEF IInv, RebootFinishedIsTrue, TestRebootOwned, PostRebootUndisturbed,
           SuccessIsSealed, PostFailureIsReal, OffHasReason, StoppedIsQuiet, SetupBeforeRestart, Quiet, SysprepHasOwner
  <2>3. /\ FutureUntouched' /\ Progress' /\ QuietAfterSetup' /\ QuietWhileAborting'
        /\ NoRestartAhead'
    BY DEF IInv, TypeOK, FutureUntouched, Progress, QuietAfterSetup,
           QuietWhileAborting, NoRestartAhead, Quiet
  <2>. QED
    BY <2>1, <2>2, <2>3 DEF IInv
<1>3. CASE TryRebootRefused
  <2> USE <1>3 DEF TryRebootRefused, Proceed, guest
  <2>1. TypeOK'
    BY DEF IInv, TypeOK
  <2>2. /\ RebootFinishedIsTrue' /\ TestRebootOwned' /\ PostRebootUndisturbed'
        /\ SuccessIsSealed' /\ PostFailureIsReal' /\ OffHasReason' /\ StoppedIsQuiet' /\ SetupBeforeRestart' /\ SysprepHasOwner'
    BY DEF IInv, RebootFinishedIsTrue, TestRebootOwned, PostRebootUndisturbed,
           SuccessIsSealed, PostFailureIsReal, OffHasReason, StoppedIsQuiet, SetupBeforeRestart, Quiet, SysprepHasOwner
  <2>3. /\ FutureUntouched' /\ Progress' /\ QuietAfterSetup' /\ QuietWhileAborting'
        /\ NoRestartAhead'
    BY DEF IInv, TypeOK, FutureUntouched, Progress, QuietAfterSetup,
           QuietWhileAborting, NoRestartAhead, Quiet
  <2>. QED
    BY <2>1, <2>2, <2>3 DEF IInv
<1>4. CASE AbortReboot
  <2> USE <1>4 DEF AbortReboot, Proceed, Say
  <2>1. TypeOK'
    BY DEF IInv, TypeOK
  <2>2. /\ RebootFinishedIsTrue' /\ TestRebootOwned' /\ PostRebootUndisturbed'
        /\ SuccessIsSealed' /\ PostFailureIsReal' /\ OffHasReason' /\ StoppedIsQuiet' /\ SetupBeforeRestart' /\ SysprepHasOwner'
    BY DEF IInv, RebootFinishedIsTrue, TestRebootOwned, PostRebootUndisturbed,
           SuccessIsSealed, PostFailureIsReal, OffHasReason, StoppedIsQuiet, SetupBeforeRestart, Quiet, SysprepHasOwner,
           QuietWhileAborting
  <2>3. /\ FutureUntouched' /\ Progress' /\ QuietAfterSetup' /\ QuietWhileAborting'
        /\ NoRestartAhead'
    BY DEF IInv, TypeOK, FutureUntouched, Progress, QuietAfterSetup,
           QuietWhileAborting, NoRestartAhead, Quiet
  <2>. QED
    BY <2>1, <2>2, <2>3 DEF IInv
<1>. QED
  BY <1>1, <1>2, <1>3, <1>4

LEMMA AbortRebootErrsInv == IInv /\ AbortRebootErrs => IInv'
<1> SUFFICES ASSUME IInv, AbortRebootErrs PROVE IInv'
  OBVIOUS
<1>0. /\ pc = "abort" /\ tries' = tries + 1 /\ tries < AbortAttempts
      /\ testReboot' \in BOOLEAN /\ (testReboot' => testReboot)
      /\ UNCHANGED <<said, power, files, winrm, winrmAuto, enable, rebooted,
                     unrestarted, setup, post, sysprep, cut>>
  <2>1. testReboot' \in {testReboot, FALSE}
    BY Zenon DEF AbortRebootErrs
  <2>2. testReboot \in BOOLEAN
    BY DEF IInv, TypeOK
  <2>3. testReboot' \in BOOLEAN /\ (testReboot' => testReboot)
    <3>1. CASE testReboot' = testReboot
      BY <2>2, <3>1, Zenon
    <3>2. CASE testReboot' = FALSE
      BY <3>2, Zenon
    <3>. QED
      BY <2>1, <3>1, <3>2, Zenon
  <2>. QED
    BY <2>3 DEF AbortRebootErrs, IInv, Progress
<1>1. CASE ReturnError("abort")
  <2> USE <1>0, <1>1 DEF ReturnError, Reachable
  <2>1. TypeOK'
    BY DEF IInv, TypeOK
  <2>2. /\ RebootFinishedIsTrue' /\ TestRebootOwned' /\ PostRebootUndisturbed'
        /\ SuccessIsSealed' /\ PostFailureIsReal' /\ OffHasReason' /\ StoppedIsQuiet' /\ SetupBeforeRestart' /\ SysprepHasOwner'
    BY DEF IInv, RebootFinishedIsTrue, TestRebootOwned, PostRebootUndisturbed,
           SuccessIsSealed, PostFailureIsReal, OffHasReason, StoppedIsQuiet, SetupBeforeRestart, Quiet, SysprepHasOwner, TypeOK
  <2>3. /\ FutureUntouched' /\ Progress' /\ QuietAfterSetup' /\ QuietWhileAborting'
        /\ NoRestartAhead'
    BY DEF IInv, TypeOK, FutureUntouched, Progress, QuietAfterSetup,
           QuietWhileAborting, NoRestartAhead, Quiet
  <2>. QED
    BY <2>1, <2>2, <2>3 DEF IInv
<1>2. CASE tries + 1 # AbortAttempts /\ Proceed("abort")
  <2> USE <1>0, <1>2 DEF Proceed, Reachable
  <2>1. TypeOK'
    BY DEF IInv, TypeOK
  <2>2. /\ RebootFinishedIsTrue' /\ TestRebootOwned' /\ PostRebootUndisturbed'
        /\ SuccessIsSealed' /\ PostFailureIsReal' /\ OffHasReason' /\ StoppedIsQuiet' /\ SetupBeforeRestart' /\ SysprepHasOwner'
    BY DEF IInv, RebootFinishedIsTrue, TestRebootOwned, PostRebootUndisturbed,
           SuccessIsSealed, PostFailureIsReal, OffHasReason, StoppedIsQuiet, SetupBeforeRestart, Quiet, SysprepHasOwner
  <2>3. /\ FutureUntouched' /\ Progress' /\ QuietAfterSetup' /\ QuietWhileAborting'
        /\ NoRestartAhead'
    BY DEF IInv, TypeOK, FutureUntouched, Progress, QuietAfterSetup,
           QuietWhileAborting, NoRestartAhead, Quiet
  <2>. QED
    BY <2>1, <2>2, <2>3 DEF IInv
<1>. QED
  BY <1>0, <1>1, <1>2 DEF AbortRebootErrs

LEMMA PostRebootInv ==
  ASSUME IInv, ExecutePostRebootScript \/ PostRebootReturns
  PROVE  IInv'
<1>1. CASE ExecutePostRebootScript /\ Reachable /\ Proceed("awaitPost")
           /\ post' = [post EXCEPT ![run] = "cell"] /\ UNCHANGED said
  <2> USE <1>1 DEF ExecutePostRebootScript, Proceed
  <2>1. TypeOK'
    BY DEF IInv, TypeOK
  <2>2. /\ RebootFinishedIsTrue' /\ TestRebootOwned' /\ PostRebootUndisturbed'
        /\ SuccessIsSealed' /\ PostFailureIsReal' /\ OffHasReason' /\ StoppedIsQuiet' /\ SetupBeforeRestart' /\ SysprepHasOwner'
    BY DEF IInv, RebootFinishedIsTrue, TestRebootOwned, PostRebootUndisturbed,
           SuccessIsSealed, PostFailureIsReal, OffHasReason, StoppedIsQuiet, SetupBeforeRestart, Quiet, Reachable, SysprepHasOwner, TypeOK,
           Progress
  <2>3. /\ FutureUntouched' /\ Progress' /\ QuietAfterSetup' /\ QuietWhileAborting'
        /\ NoRestartAhead'
    BY DEF IInv, TypeOK, FutureUntouched, Progress, QuietAfterSetup,
           QuietWhileAborting, NoRestartAhead, Quiet, Reachable
  <2>. QED
    BY <2>1, <2>2, <2>3 DEF IInv
<1>2. CASE ExecutePostRebootScript /\ UNCHANGED post /\ ConnectionEvent
  <2> USE <1>2 DEF ExecutePostRebootScript, ConnectionEvent, Proceed, Say
  <2>1. TypeOK'
    BY DEF IInv, TypeOK
  <2>2. /\ RebootFinishedIsTrue' /\ TestRebootOwned' /\ PostRebootUndisturbed'
        /\ SuccessIsSealed' /\ PostFailureIsReal' /\ OffHasReason' /\ StoppedIsQuiet' /\ SetupBeforeRestart' /\ SysprepHasOwner'
    BY DEF IInv, RebootFinishedIsTrue, TestRebootOwned, PostRebootUndisturbed,
           SuccessIsSealed, PostFailureIsReal, OffHasReason, StoppedIsQuiet, SetupBeforeRestart, Quiet, SysprepHasOwner
  <2>3. /\ FutureUntouched' /\ Progress' /\ QuietAfterSetup' /\ QuietWhileAborting'
        /\ NoRestartAhead'
    BY DEF IInv, TypeOK, FutureUntouched, Progress, QuietAfterSetup,
           QuietWhileAborting, NoRestartAhead, Quiet
  <2>. QED
    BY <2>1, <2>2, <2>3 DEF IInv
<1>3. CASE PostRebootReturns /\ Proceed("offSleep") /\ Say("postFinished")
  <2> USE <1>3 DEF PostRebootReturns, Proceed, Say, guest
  <2>1. TypeOK'
    BY DEF IInv, TypeOK
  <2>2. /\ RebootFinishedIsTrue' /\ TestRebootOwned' /\ PostRebootUndisturbed'
        /\ SuccessIsSealed' /\ PostFailureIsReal' /\ OffHasReason' /\ StoppedIsQuiet' /\ SetupBeforeRestart' /\ SysprepHasOwner'
    BY DEF IInv, RebootFinishedIsTrue, TestRebootOwned, PostRebootUndisturbed,
           SuccessIsSealed, PostFailureIsReal, OffHasReason, StoppedIsQuiet, SetupBeforeRestart, Quiet, SysprepHasOwner
  <2>3. /\ FutureUntouched' /\ Progress' /\ QuietAfterSetup' /\ QuietWhileAborting'
        /\ NoRestartAhead'
    BY DEF IInv, TypeOK, FutureUntouched, Progress, QuietAfterSetup,
           QuietWhileAborting, NoRestartAhead, Quiet
  <2>. QED
    BY <2>1, <2>2, <2>3 DEF IInv
<1>4. CASE /\ PostRebootReturns /\ post[run] = "exit2"
           /\ ReturnError("postReboot") /\ UNCHANGED said
  <2>1. Preparing
    BY <1>4 DEF PostRebootReturns, Preparing, guest, IInv, TypeOK
  <2>. QED
    BY <1>4, <2>1, ErrorStep DEF PostRebootReturns
<1>. QED
  BY <1>1, <1>2, <1>3, <1>4
     DEF ExecutePostRebootScript, PostRebootReturns, ConnectionEvent

LEMMA PowerOffWaitInv ==
  ASSUME IInv, OffSleep \/ IsPoweredOff \/ Rerun
  PROVE  IInv'
<1>1. CASE OffSleep
  <2> USE <1>1 DEF OffSleep, Proceed, guest
  <2>1. TypeOK'
    BY DEF IInv, TypeOK
  <2>2. /\ RebootFinishedIsTrue' /\ TestRebootOwned' /\ PostRebootUndisturbed'
        /\ SuccessIsSealed' /\ PostFailureIsReal' /\ OffHasReason' /\ StoppedIsQuiet' /\ SetupBeforeRestart' /\ SysprepHasOwner'
    BY DEF IInv, RebootFinishedIsTrue, TestRebootOwned, PostRebootUndisturbed,
           SuccessIsSealed, PostFailureIsReal, OffHasReason, StoppedIsQuiet, SetupBeforeRestart, Quiet, SysprepHasOwner
  <2>3. /\ FutureUntouched' /\ Progress' /\ QuietAfterSetup' /\ QuietWhileAborting'
        /\ NoRestartAhead'
    BY DEF IInv, TypeOK, FutureUntouched, Progress, QuietAfterSetup,
           QuietWhileAborting, NoRestartAhead, Quiet
  <2>. QED
    BY <2>1, <2>2, <2>3 DEF IInv
<1>2. CASE IsPoweredOff
  <2>1. CASE ReturnError("power")
    <3>1. Preparing
      BY <1>2 DEF IsPoweredOff, Preparing, guest, IInv, TypeOK
    <3>. QED
      BY <1>2, <2>1, <3>1, ErrorStep DEF IsPoweredOff
  <2>2. CASE \/ power = "off" /\ Proceed("done")
             \/ power # "off" /\ Proceed("offSleep")
    <3> USE <1>2, <2>2 DEF IsPoweredOff, Proceed, guest
    <3>1. TypeOK'
      BY DEF IInv, TypeOK
    <3>2. /\ RebootFinishedIsTrue' /\ TestRebootOwned' /\ PostRebootUndisturbed'
          /\ SuccessIsSealed' /\ PostFailureIsReal' /\ OffHasReason' /\ StoppedIsQuiet' /\ SetupBeforeRestart' /\ SysprepHasOwner'
      BY DEF IInv, RebootFinishedIsTrue, TestRebootOwned, PostRebootUndisturbed,
             SuccessIsSealed, PostFailureIsReal, OffHasReason, StoppedIsQuiet, SetupBeforeRestart, Quiet, SysprepHasOwner
    <3>3. /\ FutureUntouched' /\ Progress' /\ QuietAfterSetup' /\ QuietWhileAborting'
          /\ NoRestartAhead'
      BY DEF IInv, TypeOK, FutureUntouched, Progress, QuietAfterSetup,
             QuietWhileAborting, NoRestartAhead, Quiet
    <3>. QED
      BY <3>1, <3>2, <3>3 DEF IInv
  <2>. QED
    BY <1>2, <2>1, <2>2 DEF IsPoweredOff
<1>3. CASE Rerun
  <2> USE <1>3 DEF Rerun, guest
  <2>1. TypeOK'
    BY DEF IInv, TypeOK
  <2>2. /\ RebootFinishedIsTrue' /\ TestRebootOwned' /\ PostRebootUndisturbed'
        /\ SuccessIsSealed' /\ PostFailureIsReal' /\ OffHasReason' /\ StoppedIsQuiet' /\ SetupBeforeRestart' /\ SysprepHasOwner'
    BY DEF IInv, RebootFinishedIsTrue, TestRebootOwned, PostRebootUndisturbed,
           SuccessIsSealed, PostFailureIsReal, OffHasReason, StoppedIsQuiet, SetupBeforeRestart, Quiet, SysprepHasOwner, TypeOK
  <2>3. /\ FutureUntouched' /\ Progress' /\ QuietAfterSetup' /\ QuietWhileAborting'
        /\ NoRestartAhead'
    BY DEF IInv, TypeOK, FutureUntouched, Progress, QuietAfterSetup,
           QuietWhileAborting, NoRestartAhead, Quiet
  <2>. QED
    BY <2>1, <2>2, <2>3 DEF IInv
<1>. QED
  BY <1>1, <1>2, <1>3

(* A restart still ahead of a guest that has restarted finds no post-reboot *)
(* script of this run, and cuts short only work of an earlier one.          *)
LEMMA RestartIsEarly ==
  ASSUME IInv, testReboot \/ \E r \in Runs : setup[r] \in SetupRunning
  PROVE  /\ post[run] = "none" \/ unrestarted[run]
         /\ \A r \in Runs : post[r] \in PostRunning \/ sysprep[r] = "running"
                            => run > r \/ unrestarted[r]
<1>1. post[run] = "none" \/ unrestarted[run]
  BY DEF IInv, TypeOK, NoRestartAhead
<1>2. ASSUME NEW r \in Runs, post[r] # "none" PROVE run > r \/ unrestarted[r]
  BY <1>1, <1>2 DEF IInv, TypeOK, FutureUntouched
<1>3. \A r \in Runs : post[r] \in PostRunning \/ sysprep[r] = "running" => post[r] # "none"
  BY DEF IInv, SysprepHasOwner
<1>. QED
  BY <1>1, <1>2, <1>3

LEMMA RestartGuestInv ==
  ASSUME IInv, RestartGuest, power = "on",
         testReboot \/ \E r \in Runs : setup[r] \in SetupRunning,
         testReboot' = FALSE,
         setup' \in [Runs -> SetupState],
         \A r \in Runs : \/ setup[r] \notin SetupRunning /\ setup'[r] = setup[r]
                         \/ setup[r] \in SetupRunning /\ setup'[r] \in {"exit0", "killed"},
         UNCHANGED <<client, files, winrm, winrmAuto, rebooted, unrestarted, cut>>
  PROVE  IInv'
<1> USE DEF RestartGuest, EnableStops, client
<1>1. TypeOK'
  BY DEF IInv, TypeOK
<1>2. /\ RebootFinishedIsTrue' /\ TestRebootOwned' /\ PostRebootUndisturbed'
      /\ SuccessIsSealed' /\ PostFailureIsReal' /\ OffHasReason' /\ StoppedIsQuiet' /\ SetupBeforeRestart' /\ SysprepHasOwner'
  BY RestartIsEarly DEF IInv, TypeOK, RebootFinishedIsTrue, TestRebootOwned, PostRebootUndisturbed,
         SuccessIsSealed, PostFailureIsReal, OffHasReason, StoppedIsQuiet, SetupBeforeRestart, Quiet, SysprepHasOwner
<1>3. /\ FutureUntouched' /\ Progress' /\ QuietAfterSetup' /\ QuietWhileAborting'
      /\ NoRestartAhead'
  BY DEF IInv, TypeOK, FutureUntouched, Progress, QuietAfterSetup,
         QuietWhileAborting, NoRestartAhead, Quiet
<1>. QED
  BY <1>1, <1>2, <1>3 DEF IInv

LEMMA RestartInv ==
  ASSUME IInv, TestRebootFires \/ \E r \in Runs : SetupRestarts(r)
  PROVE  IInv'
<1>1. CASE TestRebootFires
  <2>1. /\ setup' \in [Runs -> SetupState]
        /\ \A r \in Runs :
             \/ setup[r] \notin SetupRunning /\ setup'[r] = setup[r]
             \/ setup[r] \in SetupRunning /\ setup'[r] \in {"exit0", "killed"}
    BY <1>1 DEF TestRebootFires, SetupsStop, IInv, TypeOK
  <2>. QED
    BY <1>1, <2>1, RestartGuestInv DEF TestRebootFires
<1>2. ASSUME NEW r \in Runs, SetupRestarts(r) PROVE IInv'
  <2>1. /\ setup' \in [Runs -> SetupState]
        /\ \A q \in Runs :
             \/ setup[q] \notin SetupRunning /\ setup'[q] = setup[q]
             \/ setup[q] \in SetupRunning /\ setup'[q] \in {"exit0", "killed"}
    BY <1>2 DEF SetupRestarts, SetupsStop, IInv, TypeOK
  <2>2. testReboot' = FALSE
    BY <1>2, Zenon DEF SetupRestarts, IInv, TypeOK
  <2>. QED
    BY <1>2, <2>1, <2>2, RestartGuestInv DEF SetupRestarts
<1>. QED
  BY <1>1, <1>2

(* A setup script whose restart fails leaves everything alive, but it is    *)
(* the run that is now marked as unrestarted, or a test reboot is pending.  *)
LEMMA NoRestartInv ==
  ASSUME IInv, NEW r \in Runs, SetupDoesNotRestart(r)
  PROVE  IInv'
<1>0. /\ setup[r] = "installed" /\ ~rebooted[r] /\ ~unrestarted[r]
      /\ setup' = [setup EXCEPT ![r] = "exit0"]
      /\ \A q \in Runs \ {r} : unrestarted'[q] = unrestarted[q]
      /\ testReboot \/ unrestarted'[r]
      /\ unrestarted' \in [Runs -> BOOLEAN]
  <2>1. (~testReboot) \in BOOLEAN
    BY Zenon DEF IInv, TypeOK
  <2>. QED
    BY <2>1 DEF SetupDoesNotRestart, IInv, TypeOK, SetupBeforeRestart
<1>1. /\ r = run => post[run] = "none" /\ "rebootFinished" \notin said
      /\ r = run => pc \notin {"rebootSleep", "rebootCheck", "abort", "runPost",
                              "awaitPost", "offSleep", "offCheck", "done"}
  BY <1>0 DEF IInv, NoRestartAhead, RebootFinishedIsTrue, Progress
<1>2. (post[r] # "killed" /\ sysprep[r] # "interrupted") \/ run > r
  BY <1>0 DEF IInv, PostRebootUndisturbed
<1> USE <1>0, <1>1, <1>2 DEF SetupDoesNotRestart, client
<1>3. TypeOK'
  BY DEF IInv, TypeOK
<1>4. /\ RebootFinishedIsTrue' /\ TestRebootOwned' /\ PostRebootUndisturbed'
      /\ SuccessIsSealed' /\ PostFailureIsReal' /\ OffHasReason' /\ StoppedIsQuiet'
      /\ SetupBeforeRestart' /\ SysprepHasOwner'
  BY DEF IInv, TypeOK, RebootFinishedIsTrue, TestRebootOwned, PostRebootUndisturbed,
         SuccessIsSealed, PostFailureIsReal, OffHasReason, StoppedIsQuiet,
         SetupBeforeRestart, Quiet, SysprepHasOwner
<1>5. FutureUntouched'
  BY DEF IInv, TypeOK, FutureUntouched
<1>6. /\ Progress' /\ QuietAfterSetup' /\ QuietWhileAborting' /\ NoRestartAhead'
  BY DEF IInv, TypeOK, Progress, QuietAfterSetup,
         QuietWhileAborting, NoRestartAhead, Quiet
<1>. QED
  BY <1>3, <1>4, <1>5, <1>6 DEF IInv

(* A script that is on its way, before or after the restart, disturbs none  *)
(* of the invariants.                                                       *)
LEMMA SetupStepInv ==
  ASSUME IInv, power = "on", NEW r \in Runs, setup[r] \in SetupRunning,
         NEW s \in {"installed", "exit1"}, setup' = [setup EXCEPT ![r] = s],
         winrmAuto' \in BOOLEAN,
         UNCHANGED <<client, power, files, winrm, enable, testReboot, rebooted,
                     unrestarted, post, sysprep, cut>>
  PROVE  IInv'
<1> USE DEF client
<1>1. TypeOK'
  BY DEF IInv, TypeOK
<1>2. /\ RebootFinishedIsTrue' /\ TestRebootOwned' /\ PostRebootUndisturbed'
      /\ SuccessIsSealed' /\ PostFailureIsReal' /\ OffHasReason' /\ StoppedIsQuiet' /\ SetupBeforeRestart' /\ SysprepHasOwner'
  BY DEF IInv, RebootFinishedIsTrue, TestRebootOwned, PostRebootUndisturbed,
         SuccessIsSealed, PostFailureIsReal, OffHasReason, StoppedIsQuiet, SetupBeforeRestart, Quiet, SysprepHasOwner
<1>3. /\ FutureUntouched' /\ Progress' /\ QuietAfterSetup' /\ QuietWhileAborting'
      /\ NoRestartAhead'
  BY DEF IInv, TypeOK, FutureUntouched, Progress, QuietAfterSetup,
         QuietWhileAborting, NoRestartAhead, Quiet
<1>. QED
  BY <1>1, <1>2, <1>3 DEF IInv

LEMMA PostStepInv ==
  ASSUME IInv, power = "on", NEW r \in Runs, post[r] \in PostRunning,
         NEW s \in {"cleanup", "sysprep", "dism", "exit0", "exit2"},
         post' = [post EXCEPT ![r] = s],
         sysprep' \in {sysprep, [sysprep EXCEPT ![r] = "running"]},
         winrm' \in BOOLEAN, winrmAuto' \in BOOLEAN,
         UNCHANGED <<client, power, files, enable, testReboot, rebooted,
                     unrestarted, setup, cut>>
  PROVE  IInv'
<1>0. sysprep' \in [Runs -> SysprepState]
  BY DEF IInv, TypeOK
<1> USE <1>0 DEF client
<1>1. TypeOK'
  BY DEF IInv, TypeOK
<1>2. /\ RebootFinishedIsTrue' /\ TestRebootOwned' /\ PostRebootUndisturbed'
      /\ SuccessIsSealed' /\ PostFailureIsReal' /\ OffHasReason' /\ StoppedIsQuiet' /\ SetupBeforeRestart' /\ SysprepHasOwner'
  BY DEF IInv, RebootFinishedIsTrue, TestRebootOwned, PostRebootUndisturbed,
         SuccessIsSealed, PostFailureIsReal, OffHasReason, StoppedIsQuiet, SetupBeforeRestart, Quiet, SysprepHasOwner, TypeOK,
         FutureUntouched
<1>3. /\ FutureUntouched' /\ Progress' /\ QuietAfterSetup' /\ QuietWhileAborting'
      /\ NoRestartAhead'
  BY DEF IInv, TypeOK, FutureUntouched, Progress, QuietAfterSetup,
         QuietWhileAborting, NoRestartAhead, Quiet
<1>. QED
  BY <1>1, <1>2, <1>3 DEF IInv

(* Enable-WinRM at work, and its end.                                       *)
LEMMA EnableStepInv ==
  ASSUME IInv, NEW r \in Runs, EnableProgress(r) \/ EnableEnds(r)
  PROVE  IInv'
<1>0. /\ power = "on" /\ enable[r] = "running"
      /\ winrm' \in BOOLEAN /\ winrmAuto' \in BOOLEAN
      /\ enable' \in {enable, [enable EXCEPT ![r] = "exit0"],
                     [enable EXCEPT ![r] = "exit1"]}
      /\ UNCHANGED <<client, power, files, testReboot, rebooted, unrestarted,
                     setup, post, sysprep, cut>>
  BY DEF EnableProgress, EnableEnds, IInv, TypeOK
<1> USE <1>0 DEF client
<1>1. TypeOK'
  BY DEF IInv, TypeOK
<1>2. /\ RebootFinishedIsTrue' /\ TestRebootOwned' /\ PostRebootUndisturbed'
      /\ SuccessIsSealed' /\ PostFailureIsReal' /\ OffHasReason' /\ StoppedIsQuiet' /\ SetupBeforeRestart' /\ SysprepHasOwner'
  BY DEF IInv, RebootFinishedIsTrue, TestRebootOwned, PostRebootUndisturbed,
         SuccessIsSealed, PostFailureIsReal, OffHasReason, StoppedIsQuiet, SetupBeforeRestart, Quiet, SysprepHasOwner
<1>3. FutureUntouched'
  BY DEF IInv, TypeOK, FutureUntouched
<1>4. Progress' /\ QuietAfterSetup' /\ QuietWhileAborting' /\ NoRestartAhead'
  BY DEF IInv, TypeOK, Progress, QuietAfterSetup,
         QuietWhileAborting, NoRestartAhead, Quiet
<1>. QED
  BY <1>1, <1>2, <1>3, <1>4 DEF IInv

LEMMA ScriptInv ==
  ASSUME IInv, NEW r \in Runs,
         \/ EnableProgress(r) \/ EnableEnds(r)
         \/ SetupInstalls(r) \/ SetupFails(r)
         \/ InstallCFCell(r) \/ CleanUpVM(r) \/ SysprepVM(r)
         \/ PostRebootEnds(r) \/ PostRebootFails(r)
  PROVE  IInv'
<1>1. winrm \in BOOLEAN /\ winrmAuto \in BOOLEAN
  BY DEF IInv, TypeOK
<1>2. CASE SetupInstalls(r) \/ SetupFails(r)
  BY <1>1, <1>2, SetupStepInv DEF SetupInstalls, SetupFails
<1>3. CASE InstallCFCell(r)
  <2>1. winrm' \in BOOLEAN /\ winrmAuto' \in BOOLEAN
    BY <1>1, <1>3 DEF InstallCFCell
  <2>. QED
    BY <1>3, <2>1, PostStepInv DEF InstallCFCell
<1>4. CASE CleanUpVM(r) \/ SysprepVM(r) \/ PostRebootEnds(r)
  BY <1>1, <1>4, PostStepInv DEF CleanUpVM, SysprepVM, PostRebootEnds
<1>5. CASE PostRebootFails(r)
  <2>1. winrm' \in BOOLEAN /\ winrmAuto' \in BOOLEAN
    BY <1>1, <1>5 DEF PostRebootFails
  <2>. QED
    BY <1>5, <2>1, PostStepInv DEF PostRebootFails
<1>. QED
  BY <1>2, <1>3, <1>4, <1>5, EnableStepInv

LEMMA BootInv == IInv /\ BootCompletes => IInv'
<1> SUFFICES ASSUME IInv, BootCompletes PROVE IInv'
  OBVIOUS
<1>0. /\ winrm' \in BOOLEAN /\ rebooted' \in [Runs -> BOOLEAN]
      /\ unrestarted' \in [Runs -> BOOLEAN]
      /\ Quiet /\ power = "restarting"
  BY DEF BootCompletes, IInv, TypeOK, StoppedIsQuiet
<1>1. \A r \in Runs : /\ rebooted'[r] <=> rebooted[r] \/ setup[r] = "exit0"
                      /\ unrestarted'[r] <=> unrestarted[r] /\ post[r] # "none"
  BY DEF BootCompletes
<1>2. testReboot = FALSE /\ testReboot' = FALSE
  BY <1>0, Zenon DEF BootCompletes, IInv, StoppedIsQuiet, TypeOK
<1> USE <1>0, <1>1, <1>2 DEF client
<1>a. UNCHANGED <<client, files, winrmAuto, enable, testReboot, setup, post, sysprep,
                  cut>> /\ power' = "on"
  BY DEF BootCompletes
<1> USE <1>a
<1>3. TypeOK'
  BY DEF IInv, TypeOK
<1>4. /\ RebootFinishedIsTrue' /\ TestRebootOwned' /\ PostRebootUndisturbed'
      /\ SuccessIsSealed' /\ PostFailureIsReal' /\ OffHasReason' /\ StoppedIsQuiet'
      /\ SetupBeforeRestart' /\ SysprepHasOwner'
  BY DEF IInv, TypeOK, RebootFinishedIsTrue, TestRebootOwned, PostRebootUndisturbed,
         SuccessIsSealed, PostFailureIsReal, OffHasReason, StoppedIsQuiet,
         SetupBeforeRestart, Quiet, SysprepHasOwner
<1>5. /\ FutureUntouched' /\ Progress' /\ QuietAfterSetup' /\ QuietWhileAborting'
      /\ NoRestartAhead'
  BY DEF IInv, TypeOK, FutureUntouched, Progress, QuietAfterSetup,
         QuietWhileAborting, NoRestartAhead, Quiet
<1>. QED
  BY <1>3, <1>4, <1>5 DEF IInv

(* While a command waits for the power-off, on a guest that has restarted   *)
(* since its setup, only its own sysprep can be running.                    *)
LEMMA OwnSysprep ==
  ASSUME IInv, ~unrestarted[run], NEW r \in Runs, sysprep[r] = "running",
         pc \in {"runPost", "awaitPost", "offSleep", "offCheck", "done"}
  PROVE  r = run
<1>1. setup[run] = "exit0" /\ ~testReboot
  BY DEF IInv, Progress, NoRestartAhead
<1>2. post[run] # "none"
  BY <1>1 DEF IInv, QuietAfterSetup, Quiet
<1>. QED
  BY <1>2 DEF IInv, NoRestartAhead

LEMMA GoesOffInv ==
  ASSUME IInv, power # "off", GuestGoesOff,
         \/ /\ \E r \in Runs : sysprep[r] = "running" /\ sysprep'[r] = "done"
            /\ cut' = cut
         \/ cut' = TRUE,
         sysprep' \in [Runs -> SysprepState],
         \A r \in Runs : \/ sysprep[r] # "running" /\ sysprep'[r] = sysprep[r]
                         \/ sysprep[r] = "running" /\ sysprep'[r] \in {"done", "shutdown"}
  PROVE  IInv'
<1>0. /\ testReboot' = FALSE /\ power' = "off" /\ cut' \in BOOLEAN
      /\ UNCHANGED <<client, files, winrm, winrmAuto, rebooted, unrestarted>>
      /\ setup' \in [Runs -> SetupState] /\ post' \in [Runs -> PostState]
      /\ enable' \in [Runs -> EnableState]
      /\ \A r \in Runs : /\ setup'[r] \notin SetupRunning
                         /\ post'[r] \notin PostRunning
                         /\ enable'[r] # "running"
                         /\ setup[r] \notin SetupRunning => setup'[r] = setup[r]
                         /\ setup[r] \in SetupRunning => setup'[r] = "killed"
                         /\ post[r] \notin PostRunning => post'[r] = post[r]
                         /\ post[r] \in PostRunning => post'[r] = "shutdown"
                         /\ enable[r] # "running" => enable'[r] = enable[r]
  BY DEF GuestGoesOff, EnableStops, SetupsStop, IInv, TypeOK
<1>1. pc \in {"runPost", "awaitPost", "offSleep", "offCheck", "done"}
        => cut' \/ unrestarted[run] \/ sysprep'[run] = "done"
  BY OwnSysprep
<1> USE <1>0, <1>1 DEF client
<1>2. TypeOK'
  BY DEF IInv, TypeOK
<1>3. RebootFinishedIsTrue' /\ TestRebootOwned'
  BY DEF IInv, RebootFinishedIsTrue, TestRebootOwned
<1>4. PostRebootUndisturbed'
  BY DEF IInv, PostRebootUndisturbed
<1>5. PostFailureIsReal'
  BY DEF IInv, PostFailureIsReal, PostRunning
<1>6. SetupBeforeRestart'
  <2>1. \A r \in Runs : /\ setup[r] = "exit0" => setup'[r] = "exit0"
                        /\ post[r] # "none" => post'[r] # "none"
    BY DEF SetupRunning, PostRunning
  <2>. QED
    BY <2>1 DEF IInv, SetupBeforeRestart
<1>7. SysprepHasOwner'
  BY DEF IInv, SysprepHasOwner, PostRunning
<1>8. Quiet' /\ StoppedIsQuiet'
  BY DEF Quiet, StoppedIsQuiet
<1>9. OffHasReason'
  BY DEF OffHasReason
<1>10. SuccessIsSealed'
  BY DEF IInv, OffHasReason, SuccessIsSealed
<1>11. FutureUntouched'
  <2>1. \A r \in Runs : /\ enable[r] = "none" => enable'[r] = "none"
                        /\ setup[r] = "none" => setup'[r] = "none"
                        /\ post[r] = "none" => post'[r] = "none"
    BY DEF SetupRunning, PostRunning
  <2>. QED
    BY <2>1 DEF IInv, FutureUntouched
<1>12. Progress'
  BY DEF IInv, TypeOK, Progress, SetupRunning, PostRunning
<1>13. QuietAfterSetup'
  BY <1>8 DEF QuietAfterSetup
<1>14. QuietWhileAborting'
  BY <1>8 DEF IInv, QuietWhileAborting
<1>15. NoRestartAhead'
  BY <1>8 DEF IInv, TypeOK, NoRestartAhead, Quiet
<1>. QED
  BY <1>2, <1>3, <1>8, <1>9, <1>10, <1>15, <1>4, <1>5, <1>6, <1>7, <1>11, <1>12,
     <1>13, <1>14 DEF IInv

LEMMA OffInv ==
  ASSUME IInv, PoweredOffByOthers \/ \E r \in Runs : SysprepShutsDown(r)
  PROVE  IInv'
<1>1. CASE PoweredOffByOthers
  <2>1. /\ sysprep' \in [Runs -> SysprepState]
        /\ \A r \in Runs :
             \/ sysprep[r] # "running" /\ sysprep'[r] = sysprep[r]
             \/ sysprep[r] = "running" /\ sysprep'[r] \in {"done", "shutdown"}
    BY <1>1 DEF PoweredOffByOthers, IInv, TypeOK
  <2>. QED
    BY <1>1, <2>1, GoesOffInv DEF PoweredOffByOthers
<1>2. ASSUME NEW r \in Runs, SysprepShutsDown(r) PROVE IInv'
  <2>1. /\ sysprep' \in [Runs -> SysprepState]
        /\ sysprep[r] = "running" /\ sysprep'[r] = "done"
        /\ \A q \in Runs :
             \/ sysprep[q] # "running" /\ sysprep'[q] = sysprep[q]
             \/ sysprep[q] = "running" /\ sysprep'[q] \in {"done", "shutdown"}
    BY <1>2 DEF SysprepShutsDown, IInv, TypeOK
  <2>. QED
    BY <1>2, <2>1, GoesOffInv DEF SysprepShutsDown
<1>. QED
  BY <1>1, <1>2

LEMMA SysprepFailsInv ==
  ASSUME IInv, NEW r \in Runs, SysprepFails(r)
  PROVE  IInv'
<1> USE DEF SysprepFails, client
<1>1. TypeOK'
  BY DEF IInv, TypeOK
<1>2. /\ RebootFinishedIsTrue' /\ TestRebootOwned' /\ PostRebootUndisturbed'
      /\ SuccessIsSealed' /\ PostFailureIsReal' /\ OffHasReason' /\ StoppedIsQuiet'
      /\ SetupBeforeRestart' /\ SysprepHasOwner'
  BY DEF IInv, TypeOK, RebootFinishedIsTrue, TestRebootOwned, PostRebootUndisturbed,
         SuccessIsSealed, PostFailureIsReal, OffHasReason, StoppedIsQuiet,
         SetupBeforeRestart, Quiet, SysprepHasOwner
<1>3. /\ FutureUntouched' /\ Progress' /\ QuietAfterSetup' /\ QuietWhileAborting'
      /\ NoRestartAhead'
  BY DEF IInv, TypeOK, FutureUntouched, Progress, QuietAfterSetup,
         QuietWhileAborting, NoRestartAhead, Quiet
<1>. QED
  BY <1>1, <1>2, <1>3 DEF IInv

LEMMA StutterInv == IInv /\ UNCHANGED vars => IInv'
<1> SUFFICES ASSUME IInv, UNCHANGED vars PROVE IInv'
  OBVIOUS
<1> USE DEF vars
<1>1. TypeOK'
  BY DEF IInv, TypeOK
<1>2. /\ RebootFinishedIsTrue' /\ TestRebootOwned' /\ PostRebootUndisturbed'
      /\ SuccessIsSealed' /\ PostFailureIsReal' /\ OffHasReason' /\ StoppedIsQuiet' /\ SetupBeforeRestart' /\ SysprepHasOwner'
  BY DEF IInv, RebootFinishedIsTrue, TestRebootOwned, PostRebootUndisturbed,
         SuccessIsSealed, PostFailureIsReal, OffHasReason, StoppedIsQuiet, SetupBeforeRestart, Quiet, SysprepHasOwner
<1>3. /\ FutureUntouched' /\ Progress' /\ QuietAfterSetup' /\ QuietWhileAborting'
      /\ NoRestartAhead'
  BY DEF IInv, TypeOK, FutureUntouched, Progress, QuietAfterSetup,
         QuietWhileAborting, NoRestartAhead, Quiet
<1>. QED
  BY <1>1, <1>2, <1>3 DEF IInv

LEMMA NextInv == IInv /\ [Next]_vars => IInv'
<1> SUFFICES ASSUME IInv, [Next]_vars PROVE IInv'
  OBVIOUS
<1>1. CASE PrepareVM
  BY <1>1, PreparationInv, SetupInv, RebootCheckInv, AbortRebootErrsInv,
     PostRebootInv, PowerOffWaitInv DEF PrepareVM
<1>2. CASE Rerun
  BY <1>2, PowerOffWaitInv
<1>3. CASE Guest
  BY <1>3, ScriptInv, RestartInv, NoRestartInv, BootInv, OffInv, SysprepFailsInv
     DEF Guest
<1>4. CASE UNCHANGED vars
  BY <1>4, StutterInv
<1>. QED
  BY <1>1, <1>2, <1>3, <1>4 DEF Next

(* The inductive invariant holds for every number of runs and of attempts.  *)
THEOREM Invariance == Spec => []IInv
<1>. QED
  BY InitInv, NextInv, PTL DEF Spec

(* Every variable keeps its type; the counter of abort attempts its bound.  *)
THEOREM TypeCorrect == Spec => []TypeOK
<1>1. IInv => TypeOK
  BY DEF IInv
<1>. QED
  BY <1>1, Invariance, PTL

(* PrepareVM reports the end of the reboot only after the guest has         *)
(* restarted since Setup.ps1 succeeded (winrm_rebootchecker.go), or when    *)
(* Setup.ps1 could not restart it and did not say so.                       *)
THEOREM RebootFinished == Spec => []RebootFinishedIsTrue
<1>1. IInv => RebootFinishedIsTrue
  BY DEF IInv
<1>. QED
  BY <1>1, Invariance, PTL

(* No test reboot is left pending without having been reported, whatever    *)
(* answers are lost.                                                        *)
THEOREM TestRebootIsOwned == Spec => []TestRebootOwned
<1>1. IInv => TestRebootOwned
  BY DEF IInv
<1>. QED
  BY <1>1, Invariance, PTL

(* The reboot check never cuts its own run's PostReboot.ps1 or sysprep      *)
(* short; on a guest that has restarted after the setup nothing else        *)
(* stembuild asked for does.                                                *)
THEOREM Undisturbed == Spec => []PostRebootUndisturbed
<1>1. IInv => PostRebootUndisturbed
  BY DEF IInv
<1>. QED
  BY <1>1, Invariance, PTL

(* A successful construct leaves a machine that its own sysprep powered     *)
(* off, short of a power-off by others and of a missed restart.             *)
THEOREM Sealed == Spec => []SuccessIsSealed
<1>1. IInv => SuccessIsSealed
  BY DEF IInv
<1>. QED
  BY <1>1, Invariance, PTL

(* A failure of the post-reboot script is reported only when it failed.     *)
THEOREM PostFailure == Spec => []PostFailureIsReal
<1>1. IInv => PostFailureIsReal
  BY DEF IInv
<1>. QED
  BY <1>1, Invariance, PTL

-----------------------------------------------------------------------------
(* The only step that takes a run's post-reboot script out of "none".       *)
LEMMA StartsOnlyByExecute ==
  ASSUME TypeOK, [Next]_vars, NEW r \in Runs, post[r] = "none", post'[r] # "none"
  PROVE  ExecutePostRebootScript /\ Reachable /\ r = run
<1>1. CASE PrepareVM
  BY <1>1 DEF PrepareVM, CreateProvisionDirectory, UploadLGPO, UploadAutomation,
     Store, EnableWinRM, EnableSleep, ExitCodeOfEnable, ValidateConnection,
     ExtractArchive, LogOutUsers, ExecuteSetupScript, SetupReturns, RebootSleep,
     TryReboot, TryRebootRefused, AbortReboot, AbortRebootErrs,
     ExecutePostRebootScript, PostRebootReturns, OffSleep, IsPoweredOff, guest, TypeOK
<1>2. CASE Rerun
  BY <1>2 DEF Rerun, guest
<1>3. CASE Guest
  <2>1. ASSUME NEW q \in Runs,
               \/ EnableProgress(q) \/ EnableEnds(q) \/ SetupInstalls(q) \/ SetupFails(q)
        PROVE  FALSE
    BY <2>1 DEF EnableProgress, EnableEnds, SetupInstalls, SetupFails
  <2>2. ASSUME NEW q \in Runs, SetupRestarts(q) PROVE FALSE
    BY <2>2 DEF SetupRestarts, RestartGuest, TypeOK
  <2>3. ASSUME NEW q \in Runs, InstallCFCell(q) \/ CleanUpVM(q) \/ SysprepVM(q)
        PROVE  FALSE
    BY <2>3 DEF InstallCFCell, CleanUpVM, SysprepVM, TypeOK
  <2>4. ASSUME NEW q \in Runs, PostRebootEnds(q) \/ PostRebootFails(q) PROVE FALSE
    BY <2>4 DEF PostRebootEnds, PostRebootFails, PostRunning, TypeOK
  <2>5. ASSUME NEW q \in Runs, SetupDoesNotRestart(q) \/ SysprepFails(q) PROVE FALSE
    BY <2>5 DEF SetupDoesNotRestart, SysprepFails
  <2>6. ASSUME NEW q \in Runs, SysprepShutsDown(q) PROVE FALSE
    BY <2>6 DEF SysprepShutsDown, GuestGoesOff, TypeOK
  <2>7. CASE BootCompletes
    BY <2>7 DEF BootCompletes
  <2>8. CASE TestRebootFires \/ PoweredOffByOthers
    BY <2>8 DEF TestRebootFires, RestartGuest, PoweredOffByOthers, GuestGoesOff, TypeOK
  <2>. QED
    BY <1>3, <2>1, <2>2, <2>3, <2>4, <2>5, <2>6, <2>7, <2>8, Zenon DEF Guest
<1>4. CASE UNCHANGED vars
  BY <1>4 DEF vars
<1>. QED
  BY <1>1, <1>2, <1>3, <1>4 DEF Next

(* PostReboot.ps1 starts only on a machine that is up and has no restart    *)
(* pending; that has restarted since the run's setup and on which nothing   *)
(* older is still at work, unless the setup could not restart it.           *)
THEOREM StartsClean == Spec => PostRebootStartsClean
<1> DEFINE Clean(r) == /\ power = "on" /\ ~testReboot
                       /\ \/ unrestarted[r]
                          \/ /\ rebooted[r]
                             /\ \A q \in Runs : /\ setup[q] \notin SetupRunning
                                                /\ post[q] \notin PostRunning
                                                /\ sysprep[q] # "running"
<1>1. IInv /\ [Next]_vars
        => [\A r \in Runs : post[r] = "none" /\ post'[r] # "none" => Clean(r)]_vars
  <2> SUFFICES ASSUME IInv, [Next]_vars, NEW r \in Runs,
                      post[r] = "none", post'[r] # "none"
               PROVE  Clean(r)
    OBVIOUS
  <2>1. ExecutePostRebootScript /\ Reachable /\ r = run
    BY StartsOnlyByExecute DEF IInv
  <2>. QED
    BY <2>1 DEF ExecutePostRebootScript, Reachable, IInv, QuietWhileAborting,
                NoRestartAhead, Quiet
<1>. QED
  BY <1>1, Invariance, PTL DEF Spec, PostRebootStartsClean

(* The steps of the guest that turn WinRM on are all behind a machine on    *)
(* which this run's PostReboot.ps1 has started.                             *)
LEMMA WinRMStep ==
  ASSUME IInv, [Next]_vars, post[run] # "none", ~unrestarted[run]
  PROVE  (winrm' => winrm) /\ (winrmAuto' => winrmAuto)
<1>0. /\ power # "restarting" /\ pc # "enableWinRM"
      /\ \A r \in Runs : enable[r] # "running" /\ setup[r] \notin SetupRunning
  BY DEF IInv, TypeOK, NoRestartAhead, Progress
<1>1. CASE PrepareVM
  <2>1. UNCHANGED <<winrm, winrmAuto>>
    BY <1>0, <1>1 DEF PrepareVM, CreateProvisionDirectory, UploadLGPO, UploadAutomation,
       Store, EnableWinRM, EnableSleep, ExitCodeOfEnable, ValidateConnection,
       ExtractArchive, LogOutUsers, ExecuteSetupScript, SetupReturns, RebootSleep,
       TryReboot, TryRebootRefused, AbortReboot, AbortRebootErrs,
       ExecutePostRebootScript, PostRebootReturns, OffSleep, IsPoweredOff, guest
  <2>. QED
    BY <2>1
<1>2. CASE Rerun
  BY <1>2 DEF Rerun, guest
<1>3. CASE Guest
  <2>1. ASSUME NEW r \in Runs, InstallCFCell(r) \/ PostRebootFails(r)
        PROVE  (winrm' => winrm) /\ (winrmAuto' => winrmAuto)
    BY <2>1, Zenon DEF InstallCFCell, PostRebootFails
  <2>2. ASSUME NEW r \in Runs,
               \/ EnableProgress(r) \/ EnableEnds(r) \/ SetupInstalls(r)
               \/ SetupFails(r) \/ SetupRestarts(r) \/ SetupDoesNotRestart(r)
               \/ CleanUpVM(r) \/ SysprepVM(r) \/ PostRebootEnds(r)
               \/ SysprepShutsDown(r) \/ SysprepFails(r)
        PROVE  UNCHANGED <<winrm, winrmAuto>>
    BY <1>0, <2>2 DEF EnableProgress, EnableEnds, SetupInstalls, SetupFails,
       SetupRestarts, SetupDoesNotRestart, CleanUpVM, SysprepVM, PostRebootEnds,
       SysprepShutsDown, GuestGoesOff, SysprepFails
  <2>3. CASE BootCompletes \/ TestRebootFires \/ PoweredOffByOthers
    <3>1. UNCHANGED <<winrm, winrmAuto>>
      BY <1>0, <2>3 DEF BootCompletes, TestRebootFires, PoweredOffByOthers, GuestGoesOff
    <3>. QED
      BY <3>1
  <2>. QED
    BY <1>3, <2>1, <2>2, <2>3 DEF Guest
<1>4. CASE UNCHANGED vars
  BY <1>4 DEF vars
<1>. QED
  BY <1>1, <1>2, <1>3, <1>4 DEF Next

(* What Protect-CFCell turns off stays off: no program or script that an    *)
(* earlier failure left behind turns WinRM on again once PostReboot.ps1 of  *)
(* the current run has started on a guest that has restarted.               *)
THEOREM WinRMIsOff == Spec => WinRMStaysOff
<1>1. IInv /\ [Next]_vars
        => [post[run] # "none" /\ ~unrestarted[run]
              => (winrm' => winrm) /\ (winrmAuto' => winrmAuto)]_vars
  BY WinRMStep
<1>. QED
  BY <1>1, Invariance, PTL DEF Spec, WinRMStaysOff

-----------------------------------------------------------------------------
(* What the reboot poll relies on in order to end.                          *)

LEMMA WinRMInit == Init => WinRMAfterSetup
BY DEF Init, WinRMAfterSetup

(* The workstation changes neither WinRM nor a setup script but by starting *)
(* one, over WinRM.                                                         *)
LEMMA WinRMPrepare ==
  ASSUME IInv, WinRMAfterSetup, PrepareVM
  PROVE  WinRMAfterSetup'
<1>1. UNCHANGED <<winrm, winrmAuto>>
  BY DEF PrepareVM, CreateProvisionDirectory, UploadLGPO, UploadAutomation,
     Store, EnableWinRM, EnableSleep, ExitCodeOfEnable, ValidateConnection,
     ExtractArchive, LogOutUsers, ExecuteSetupScript, SetupReturns, RebootSleep,
     TryReboot, TryRebootRefused, AbortReboot, AbortRebootErrs,
     ExecutePostRebootScript, PostRebootReturns, OffSleep, IsPoweredOff, guest
<1>2. CASE ExecuteSetupScript
  BY <1>1, <1>2 DEF ExecuteSetupScript, Reachable, WinRMAfterSetup, IInv, TypeOK
<1>3. CASE ~ExecuteSetupScript
  <2>1. setup' = setup
    BY <1>3 DEF PrepareVM, CreateProvisionDirectory, UploadLGPO, UploadAutomation,
       Store, EnableWinRM, EnableSleep, ExitCodeOfEnable, ValidateConnection,
       ExtractArchive, LogOutUsers, SetupReturns, RebootSleep,
       TryReboot, TryRebootRefused, AbortReboot, AbortRebootErrs,
       ExecutePostRebootScript, PostRebootReturns, OffSleep, IsPoweredOff, guest
  <2>2. \A r \in Runs : post'[r] = "none" => post[r] = "none"
    BY StartsOnlyByExecute, <1>3 DEF PrepareVM, CreateProvisionDirectory, UploadLGPO,
       UploadAutomation,
       Store, EnableWinRM, EnableSleep, ExitCodeOfEnable, ValidateConnection,
       ExtractArchive, LogOutUsers, SetupReturns, RebootSleep,
       TryReboot, TryRebootRefused, AbortReboot, AbortRebootErrs,
       ExecutePostRebootScript, PostRebootReturns, OffSleep, IsPoweredOff, guest,
       IInv, TypeOK
  <2>. QED
    BY <1>1, <2>1, <2>2 DEF WinRMAfterSetup
<1>. QED
  BY <1>2, <1>3

LEMMA WinRMScripts ==
  ASSUME IInv, WinRMAfterSetup, NEW r \in Runs,
         \/ EnableProgress(r) \/ EnableEnds(r)
         \/ SetupInstalls(r) \/ SetupFails(r)
         \/ SetupRestarts(r) \/ SetupDoesNotRestart(r)
         \/ InstallCFCell(r) \/ CleanUpVM(r) \/ SysprepVM(r)
         \/ PostRebootEnds(r) \/ PostRebootFails(r)
         \/ SysprepShutsDown(r) \/ SysprepFails(r)
  PROVE  WinRMAfterSetup'
<1>1. CASE EnableProgress(r)
  <2>1. (winrm => winrm') /\ (winrm /\ winrmAuto => winrmAuto')
    <3>1. winrm' \in {winrm, TRUE} /\ winrmAuto' \in {winrmAuto, winrm'}
      BY <1>1 DEF EnableProgress
    <3>2. winrm => winrm'
      BY <3>1, Zenon
    <3>3. winrm /\ winrmAuto => winrmAuto'
      BY <3>1, <3>2, Zenon
    <3>. QED
      BY <3>2, <3>3
  <2>. QED
    BY <1>1, <2>1 DEF EnableProgress, WinRMAfterSetup
<1>2. CASE EnableEnds(r) \/ SysprepFails(r)
  BY <1>2 DEF EnableEnds, SysprepFails, WinRMAfterSetup
<1>3. CASE SetupInstalls(r) \/ SetupFails(r) \/ SetupDoesNotRestart(r)
  BY <1>3 DEF SetupInstalls, SetupFails, SetupDoesNotRestart, WinRMAfterSetup, IInv, TypeOK
<1>4. CASE SetupRestarts(r)
  BY <1>4 DEF SetupRestarts, SetupsStop, RestartGuest, WinRMAfterSetup, IInv, TypeOK
<1>5. CASE \/ InstallCFCell(r) \/ CleanUpVM(r) \/ SysprepVM(r)
           \/ PostRebootEnds(r) \/ PostRebootFails(r)
  <2>1. post' \in {[post EXCEPT ![r] = s] : s \in PostState \ {"none"}}
    BY <1>5 DEF InstallCFCell, CleanUpVM, SysprepVM, PostRebootEnds, PostRebootFails
  <2>2. post'[r] # "none"
    BY <2>1 DEF IInv, TypeOK
  <2>. QED
    BY <2>2 DEF WinRMAfterSetup
<1>6. CASE SysprepShutsDown(r)
  BY <1>6 DEF SysprepShutsDown, GuestGoesOff, SetupsStop, WinRMAfterSetup, IInv, TypeOK
<1>. QED
  BY <1>1, <1>2, <1>3, <1>4, <1>5, <1>6

LEMMA WinRMNext == IInv /\ WinRMAfterSetup /\ [Next]_vars => WinRMAfterSetup'
<1> SUFFICES ASSUME IInv, WinRMAfterSetup, [Next]_vars PROVE WinRMAfterSetup'
  OBVIOUS
<1>1. CASE UNCHANGED vars \/ Rerun
  BY <1>1 DEF vars, Rerun, guest, WinRMAfterSetup
<1>2. CASE BootCompletes
  <2>1. \A r \in Runs : setup[r] \notin SetupRunning
    BY <1>2 DEF BootCompletes, IInv, StoppedIsQuiet, Quiet
  <2>. QED
    BY <1>2, <2>1 DEF BootCompletes, WinRMAfterSetup, IInv, TypeOK
<1>3. CASE TestRebootFires
  BY <1>3 DEF TestRebootFires, SetupsStop, RestartGuest, WinRMAfterSetup, IInv, TypeOK
<1>4. CASE PoweredOffByOthers
  BY <1>4 DEF PoweredOffByOthers, GuestGoesOff, SetupsStop, WinRMAfterSetup, IInv, TypeOK
<1>. QED
  BY <1>1, <1>2, <1>3, <1>4, WinRMPrepare, WinRMScripts DEF Next, Guest

(* As long as no run has got to its post-reboot script, a guest whose setup *)
(* succeeded has WinRM up, and gets it back with every restart: this is     *)
(* what the reboot poll, which has no timeout, lives on.                    *)
THEOREM WinRMInvariance == Spec => []WinRMAfterSetup
<1>. QED
  BY WinRMInit, WinRMNext, Invariance, PTL DEF Spec

-----------------------------------------------------------------------------
(* Construct implements the safety part of ConstructAbs.                    *)

LEMMA AbsInit == Init => Abs!Init
<1> SUFFICES ASSUME Init PROVE Abs!Init
  OBVIOUS
<1>1. run \in Runs
  BY DEF Init
<1>2. /\ rebooted[run] = FALSE /\ unrestarted[run] = FALSE /\ cut = FALSE
  BY <1>1, Zenon DEF Init
<1>3. GuestStage = "provisioning" /\ Verdict = "running"
  BY <1>1, <1>2 DEF Init, GuestStage, Verdict
<1>4. Leftover = FALSE
  <2>1. ~Leftover
    BY DEF Init, Leftover
  <2>2. Leftover \in BOOLEAN
    BY Zenon DEF Leftover
  <2>. QED
    BY <2>1, <2>2, Zenon
<1>. QED
  BY <1>2, <1>3, <1>4, Zenon DEF Abs!Init

LEMMA AbsBooleans ==
  ASSUME IInv, IInv'
  PROVE  /\ Leftover \in BOOLEAN /\ Leftover' \in BOOLEAN
         /\ unrestarted[run] \in BOOLEAN /\ unrestarted'[run'] \in BOOLEAN
         /\ cut \in BOOLEAN /\ cut' \in BOOLEAN
<1>1. Leftover \in BOOLEAN /\ Leftover' \in BOOLEAN
  BY Zenon DEF Leftover
<1>2. /\ run \in Runs /\ unrestarted \in [Runs -> BOOLEAN] /\ cut \in BOOLEAN
      /\ run' \in Runs /\ unrestarted' \in [Runs -> BOOLEAN] /\ cut' \in BOOLEAN
  BY DEF IInv, TypeOK
<1>. QED
  BY <1>1, <1>2, Zenon

(* Where the guest is left alone, the abstract step is the verdict.         *)
LEMMA ClientStep ==
  ASSUME UNCHANGED <<run, power, post, rebooted, unrestarted, sysprep, cut>>,
         pc \notin {"done", "failed"},
         pc' \notin {"done", "failed"} \/ pc' = "failed"
  PROVE  Abs!Next \/ UNCHANGED Abs!vars
<1>1. GuestStage' = GuestStage
  BY DEF GuestStage
<1>2. Leftover' = Leftover /\ unrestarted'[run'] = unrestarted[run] /\ cut' = cut
  BY Zenon DEF Leftover
<1>3. CASE pc' = "failed"
  <2>1. Verdict = "running" /\ Verdict' = "failed"
    BY <1>3 DEF Verdict
  <2>. QED
    BY <1>1, <1>2, <2>1, Zenon DEF Abs!Next, Abs!Fail
<1>4. CASE pc' \notin {"done", "failed"}
  <2>1. Verdict' = Verdict
    BY <1>4 DEF Verdict
  <2>. QED
    BY <1>1, <1>2, <2>1, Zenon DEF Abs!vars
<1>. QED
  BY <1>3, <1>4

LEMMA PrepareVMImplements ==
  ASSUME IInv, PrepareVM
  PROVE  Abs!Next \/ UNCHANGED Abs!vars
<1>0. pc \notin {"done", "failed"}
  BY DEF PrepareVM, CreateProvisionDirectory, UploadLGPO, UploadAutomation,
     EnableWinRM, EnableSleep, ExitCodeOfEnable, ValidateConnection, ExtractArchive,
     LogOutUsers, ExecuteSetupScript, SetupReturns, RebootSleep, TryReboot,
     TryRebootRefused,
     AbortReboot, AbortRebootErrs, ExecutePostRebootScript, PostRebootReturns,
     OffSleep, IsPoweredOff
<1>1. CASE ExecutePostRebootScript /\ UNCHANGED run /\ pc' = "awaitPost"
           /\ Reachable /\ post' = [post EXCEPT ![run] = "cell"]
  <2>1. /\ post[run] = "none" /\ post'[run] = "cell" /\ power = "on" /\ power' = "on"
        /\ rebooted[run] \/ unrestarted[run]
        /\ pc = "runPost" /\ \A r \in Runs \ {run} : post'[r] = post[r]
    BY <1>1 DEF ExecutePostRebootScript, Reachable, IInv, TypeOK, Progress,
                QuietWhileAborting
  <2>2. /\ \/ GuestStage = "restarted"
           \/ GuestStage = "provisioning" /\ unrestarted[run]
        /\ GuestStage' = "sealing"
    BY <1>1, <2>1 DEF GuestStage
  <2>3. Verdict = "running" /\ Verdict' = "running"
    BY <1>1, <2>1 DEF Verdict
  <2>4. UNCHANGED <<sysprep, unrestarted, cut, run>>
    BY <1>1 DEF ExecutePostRebootScript
  <2>5. Leftover' <=> Leftover
    BY <2>1, <2>4 DEF Leftover
  <2>6. Leftover' = Leftover
    <3>1. Leftover \in BOOLEAN /\ Leftover' \in BOOLEAN
      BY Zenon DEF Leftover
    <3>. QED
      BY <2>5, <3>1, Zenon
  <2>. QED
    BY <2>2, <2>3, <2>4, <2>6, Zenon DEF Abs!Next, Abs!StartSealing
<1>2. CASE IsPoweredOff /\ power = "off" /\ Proceed("done")
  <2>1. \/ GuestStage = "sealed"
        \/ GuestStage = "off" /\ (cut \/ unrestarted[run])
    BY <1>2 DEF IsPoweredOff, GuestStage, IInv, OffHasReason
  <2>2. Verdict = "running" /\ Verdict' = "succeeded" /\ GuestStage' = GuestStage
    BY <1>2, <1>0 DEF IsPoweredOff, Proceed, Verdict, GuestStage, guest
  <2>3. Leftover' = Leftover /\ unrestarted'[run'] = unrestarted[run] /\ cut' = cut
    BY <1>2, Zenon DEF IsPoweredOff, Proceed, Leftover, guest
  <2>. QED
    BY <2>1, <2>2, <2>3, Zenon DEF Abs!Next, Abs!Succeed
<1>3. CASE /\ UNCHANGED <<run, power, post, rebooted, unrestarted, sysprep, cut>>
           /\ pc' \notin {"done", "failed"} \/ pc' = "failed"
  BY <1>0, <1>3, ClientStep
<1>4. CASE \/ CreateProvisionDirectory \/ UploadLGPO \/ UploadAutomation
           \/ EnableWinRM \/ EnableSleep \/ ExitCodeOfEnable
           \/ ValidateConnection \/ ExtractArchive \/ LogOutUsers
           \/ ExecuteSetupScript \/ SetupReturns
  BY <1>3, <1>4 DEF CreateProvisionDirectory, UploadLGPO, UploadAutomation, Store,
     EnableWinRM, StartProgramInGuest, EnableSleep, ExitCodeOfEnable,
     ValidateConnection, ExtractArchive, LogOutUsers, ExecuteSetupScript,
     SetupReturns, Proceed, ReturnError, guest
<1>5. CASE \/ RebootSleep \/ TryReboot(TRUE) \/ TryReboot(FALSE)
           \/ TryRebootRefused \/ AbortReboot \/ AbortRebootErrs
  BY <1>3, <1>5 DEF RebootSleep, TryReboot, TryRebootRefused, AbortReboot,
     AbortRebootErrs, Proceed, ReturnError, guest
<1>6. CASE ExecutePostRebootScript \/ PostRebootReturns \/ OffSleep \/ IsPoweredOff
  BY <1>1, <1>2, <1>3, <1>6 DEF ExecutePostRebootScript, PostRebootReturns,
     ConnectionEvent, OffSleep, IsPoweredOff, Proceed, ReturnError, guest
<1>. QED
  BY <1>4, <1>5, <1>6 DEF PrepareVM

(* What this run's scripts still do is leftover work for the next one.      *)
LEMMA RerunImplements ==
  ASSUME IInv, IInv', Rerun
  PROVE  Abs!Next
<1>1. Verdict = "failed" /\ Verdict' = "running"
  BY DEF Rerun, Verdict
<1>2. /\ run' \in Runs /\ run' = run + 1
      /\ UNCHANGED <<power, post, sysprep, unrestarted, cut>>
      /\ post[run'] = "none" /\ sysprep[run'] = "none" /\ ~rebooted'[run']
      /\ ~unrestarted'[run']
  BY DEF Rerun, guest, IInv, TypeOK, FutureUntouched, SysprepHasOwner
<1>3. GuestStage' = IF GuestStage \in Abs!Off THEN "off" ELSE "provisioning"
  BY <1>2 DEF GuestStage, Abs!Off
<1>4. unrestarted'[run'] = FALSE /\ cut' = cut
  BY <1>2, AbsBooleans, Zenon
<1>5. Leftover' <=> Leftover \/ post[run] \in PostRunning \/ sysprep[run] = "running"
  BY <1>2 DEF Leftover, IInv, TypeOK
<1>6. post[run] \in PostRunning \/ sysprep[run] = "running" => GuestStage = "sealing"
  BY DEF GuestStage, IInv, TypeOK, StoppedIsQuiet, Quiet, SysprepHasOwner
<1>7. Leftover' \in {Leftover, Leftover \/ GuestStage = "sealing"}
  <2>1. CASE post[run] \in PostRunning \/ sysprep[run] = "running"
    BY <1>5, <1>6, <2>1, AbsBooleans, Zenon
  <2>2. CASE ~(post[run] \in PostRunning \/ sysprep[run] = "running")
    BY <1>5, <2>2, AbsBooleans, Zenon
  <2>. QED
    BY <2>1, <2>2
<1>. QED
  BY <1>1, <1>3, <1>4, <1>7, Zenon DEF Abs!Next, Abs!Retry

(* A step of the guest that moves no stage at most ends leftover work.      *)
LEMMA GuestStutter ==
  ASSUME IInv, IInv', GuestStage' = GuestStage, UNCHANGED <<pc, cut>>,
         unrestarted'[run'] <=> unrestarted[run], Leftover' => Leftover
  PROVE  Abs!Next \/ UNCHANGED Abs!vars
<1>1. Verdict' = Verdict
  BY DEF Verdict
<1>2. unrestarted'[run'] = unrestarted[run]
  BY AbsBooleans
<1>3. CASE Leftover' <=> Leftover
  BY <1>1, <1>2, <1>3, AbsBooleans, Zenon DEF Abs!vars
<1>4. CASE Leftover /\ ~Leftover'
  BY <1>1, <1>2, <1>4, AbsBooleans, Zenon DEF Abs!Next, Abs!AbandonLeftover
<1>. QED
  BY <1>3, <1>4

LEMMA ScriptImplements ==
  ASSUME IInv, IInv', NEW r \in Runs,
         \/ EnableProgress(r) \/ EnableEnds(r)
         \/ SetupInstalls(r) \/ SetupFails(r)
         \/ InstallCFCell(r) \/ CleanUpVM(r) \/ SysprepVM(r)
         \/ PostRebootEnds(r) \/ PostRebootFails(r) \/ SysprepFails(r)
  PROVE  Abs!Next \/ UNCHANGED Abs!vars
<1>1. UNCHANGED <<run, pc, power, rebooted, unrestarted, cut>>
  BY DEF EnableProgress, EnableEnds, SetupInstalls, SetupFails, InstallCFCell,
     CleanUpVM, SysprepVM, PostRebootEnds, PostRebootFails, SysprepFails, client
<1>2. run \in Runs
  BY DEF IInv, TypeOK
<1>3. \A q \in Runs : /\ post'[q] = "none" <=> post[q] = "none"
                      /\ sysprep'[q] = "done" <=> sysprep[q] = "done"
                      /\ sysprep'[q] = "running"
                           => sysprep[q] = "running" \/ post[q] \in PostRunning
                      /\ post'[q] \in PostRunning => post[q] \in PostRunning
  <2>1. CASE EnableProgress(r) \/ EnableEnds(r) \/ SetupInstalls(r) \/ SetupFails(r)
    BY <2>1 DEF EnableProgress, EnableEnds, SetupInstalls, SetupFails
  <2>2. CASE InstallCFCell(r)
    BY <2>2 DEF InstallCFCell, PostRunning, IInv, TypeOK
  <2>3. CASE CleanUpVM(r)
    BY <2>3 DEF CleanUpVM, PostRunning, IInv, TypeOK
  <2>4. CASE PostRebootEnds(r)
    BY <2>4 DEF PostRebootEnds, PostRunning, IInv, TypeOK
  <2>5. CASE PostRebootFails(r)
    BY <2>5 DEF PostRebootFails, PostRunning, IInv, TypeOK
  <2>6. CASE SysprepVM(r)
    BY <2>6 DEF SysprepVM, PostRunning, IInv, TypeOK, OffHasReason
  <2>7. CASE SysprepFails(r)
    BY <2>7 DEF SysprepFails, IInv, TypeOK
  <2>. QED
    BY <2>1, <2>2, <2>3, <2>4, <2>5, <2>6, <2>7
<1>4. /\ post'[run'] = "none" <=> post[run] = "none"
      /\ sysprep'[run'] = "done" <=> sysprep[run] = "done"
  <2>1. run' = run
    BY <1>1
  <2>2. /\ post'[run] = "none" <=> post[run] = "none"
        /\ sysprep'[run] = "done" <=> sysprep[run] = "done"
    BY <1>2, <1>3, Zenon
  <2>. QED
    BY <2>1, <2>2, Zenon
<1>5. GuestStage' = GuestStage
  <2>1. CASE post[run] = "none"
    BY <1>1, <1>4, <2>1 DEF GuestStage
  <2>2. CASE post[run] # "none"
    BY <1>1, <1>4, <2>2 DEF GuestStage
  <2>. QED
    BY <2>1, <2>2
<1>6. Leftover' => Leftover
  <2> SUFFICES ASSUME NEW q \in Runs, q # run',
                      post'[q] \in PostRunning \/ sysprep'[q] = "running"
               PROVE  Leftover
    BY Zenon DEF Leftover
  <2>1. q # run
    BY <1>1
  <2>2. post[q] \in PostRunning \/ sysprep[q] = "running"
    BY <1>3
  <2>. QED
    BY <2>1, <2>2, Zenon DEF Leftover
<1>. QED
  BY <1>1, <1>5, <1>6, GuestStutter

LEMMA RestartImplements ==
  ASSUME IInv, IInv', TestRebootFires \/ \E r \in Runs : SetupRestarts(r)
  PROVE  Abs!Next \/ UNCHANGED Abs!vars
<1>1. /\ UNCHANGED <<run, pc, rebooted, unrestarted, cut>> /\ RestartGuest
      /\ power = "on" /\ power' = "restarting"
  BY DEF TestRebootFires, SetupRestarts, RestartGuest, client
<1>2. /\ post'[run] = "none" <=> post[run] = "none"
      /\ ~Leftover'
  BY <1>1 DEF RestartGuest, Leftover, IInv, TypeOK
<1>3. GuestStage' = GuestStage
  BY <1>1, <1>2 DEF GuestStage
<1>. QED
  BY <1>1, <1>2, <1>3, GuestStutter

LEMMA NoRestartImplements ==
  ASSUME IInv, IInv', NEW r \in Runs, SetupDoesNotRestart(r)
  PROVE  Abs!Next \/ UNCHANGED Abs!vars
<1>1. /\ UNCHANGED <<run, pc, power, post, rebooted, sysprep, cut>> /\ power = "on"
      /\ setup[r] = "installed"
      /\ unrestarted' = [unrestarted EXCEPT ![r] = ~testReboot]
  BY DEF SetupDoesNotRestart, client
<1>2. GuestStage' = GuestStage /\ Verdict' = Verdict
  BY <1>1 DEF GuestStage, Verdict
<1>3. Leftover' = Leftover
  BY <1>1, Zenon DEF Leftover
<1>4. CASE unrestarted'[run'] <=> unrestarted[run]
  BY <1>1, <1>2, <1>3, <1>4, GuestStutter
<1>5. CASE ~(unrestarted'[run'] <=> unrestarted[run])
  <2>1. r = run
    BY <1>1, <1>5 DEF IInv, TypeOK
  <2>2. post[run] = "none" /\ ~rebooted[run] /\ ~unrestarted[run]
    BY <1>1, <2>1 DEF IInv, TypeOK, SetupBeforeRestart, NoRestartAhead
  <2>3. unrestarted'[run'] = TRUE
    BY <1>5, <2>2, AbsBooleans, Zenon
  <2>4. GuestStage = "provisioning"
    BY <1>1, <2>2 DEF GuestStage
  <2>. QED
    BY <1>1, <1>2, <1>3, <2>3, <2>4, Zenon DEF Abs!Next, Abs!MissRestart
<1>. QED
  BY <1>4, <1>5

LEMMA BootImplements ==
  ASSUME IInv, IInv', BootCompletes
  PROVE  Abs!Next \/ UNCHANGED Abs!vars
<1>1. /\ UNCHANGED <<run, pc, post, sysprep, cut>> /\ power # "off" /\ power' # "off"
      /\ run \in Runs /\ Quiet
      /\ rebooted'[run] <=> rebooted[run] \/ setup[run] = "exit0"
      /\ unrestarted'[run] <=> unrestarted[run] /\ post[run] # "none"
  BY DEF BootCompletes, client, IInv, TypeOK, StoppedIsQuiet
<1>2. Verdict' = Verdict
  BY <1>1 DEF Verdict
<1>3. ~Leftover /\ ~Leftover'
  BY <1>1 DEF Leftover, Quiet
<1>4. CASE rebooted[run] \/ setup[run] # "exit0" \/ post[run] # "none"
  <2>1. GuestStage' = GuestStage
    BY <1>1, <1>4 DEF GuestStage
  <2>2. unrestarted'[run'] <=> unrestarted[run]
    BY <1>1, <1>4 DEF IInv, SetupBeforeRestart
  <2>. QED
    BY <1>1, <1>3, <2>1, <2>2, GuestStutter
<1>5. CASE ~rebooted[run] /\ setup[run] = "exit0" /\ post[run] = "none"
  <2>1. GuestStage = "provisioning" /\ GuestStage' = "restarted"
    BY <1>1, <1>5 DEF GuestStage
  <2>2. unrestarted'[run'] = FALSE
    BY <1>1, <1>5, AbsBooleans, Zenon
  <2>. QED
    BY <1>1, <1>2, <1>3, <2>1, <2>2, AbsBooleans, Zenon DEF Abs!Next, Abs!Restart
<1>. QED
  BY <1>4, <1>5

LEMMA OffImplements ==
  ASSUME IInv, IInv', PoweredOffByOthers \/ \E r \in Runs : SysprepShutsDown(r)
  PROVE  Abs!Next \/ UNCHANGED Abs!vars
<1>1. /\ UNCHANGED <<run, pc, unrestarted>> /\ power # "off" /\ power' = "off"
      /\ run \in Runs
  BY DEF PoweredOffByOthers, SysprepShutsDown, GuestGoesOff, client, IInv, TypeOK
<1>2. Verdict' = Verdict /\ GuestStage \notin Abs!Off /\ unrestarted'[run'] = unrestarted[run]
  BY <1>1 DEF Verdict, GuestStage, Abs!Off
<1>3. Leftover' = FALSE
  <2>1. ~Leftover'
    BY <1>1 DEF Leftover, IInv, StoppedIsQuiet, Quiet
  <2>. QED
    BY <2>1, AbsBooleans, Zenon
<1>4. sysprep[run] # "done"
  BY <1>1 DEF IInv, OffHasReason
<1>5. CASE PoweredOffByOthers
  <2>1. cut' = TRUE /\ sysprep'[run] # "done"
    BY <1>1, <1>4, <1>5 DEF PoweredOffByOthers, IInv, TypeOK
  <2>2. GuestStage' = "off"
    BY <1>1, <2>1 DEF GuestStage
  <2>. QED
    BY <1>2, <1>3, <2>1, <2>2, Zenon DEF Abs!Next, Abs!SwitchOff
<1>6. ASSUME SysprepShutsDown(run) PROVE Abs!Next
  <2>1. /\ sysprep[run] = "running" /\ sysprep'[run] = "done" /\ cut' = cut
    BY <1>1, <1>6 DEF SysprepShutsDown, IInv, TypeOK
  <2>2. GuestStage = "sealing" /\ GuestStage' = "sealed"
    BY <1>1, <2>1 DEF GuestStage, IInv, SysprepHasOwner
  <2>. QED
    BY <1>2, <1>3, <2>1, <2>2, Zenon DEF Abs!Next, Abs!Seal
<1>7. ASSUME NEW r \in Runs, r # run, SysprepShutsDown(r) PROVE Abs!Next
  <2>1. /\ sysprep[r] = "running" /\ sysprep'[run] # "done" /\ cut' = cut
    BY <1>1, <1>4, <1>7 DEF SysprepShutsDown, IInv, TypeOK
  <2>2. Leftover /\ GuestStage' = "off"
    BY <1>1, <1>7, <2>1 DEF GuestStage, Leftover
  <2>. QED
    BY <1>2, <1>3, <2>1, <2>2, Zenon DEF Abs!Next, Abs!SealLeftover
<1>. QED
  BY <1>5, <1>6, <1>7

LEMMA StepImplements == IInv /\ IInv' /\ [Next]_vars => [Abs!Next]_(Abs!vars)
<1> SUFFICES ASSUME IInv, IInv', [Next]_vars PROVE Abs!Next \/ UNCHANGED Abs!vars
  OBVIOUS
<1>1. CASE UNCHANGED vars
  <2>1. GuestStage' = GuestStage /\ Verdict' = Verdict
    BY <1>1 DEF GuestStage, Verdict, vars
  <2>2. Leftover' = Leftover /\ unrestarted'[run'] = unrestarted[run] /\ cut' = cut
    BY <1>1, Zenon DEF Leftover, vars
  <2>. QED
    BY <2>1, <2>2, Zenon DEF Abs!vars
<1>2. CASE Guest
  BY <1>2, ScriptImplements, RestartImplements, NoRestartImplements, BootImplements,
     OffImplements DEF Guest
<1>. QED
  BY <1>1, <1>2, PrepareVMImplements, RerunImplements DEF Next

(* Whatever is lost and however often the command is run again, construct   *)
(* keeps the promises of ConstructAbs: sealing starts only after the        *)
(* restart, or where that failed unheard; success means sealed for this     *)
(* run, or one of the two faults; a verdict is final.                       *)
THEOREM Refinement == Spec => AbsSafety
<1>. QED
  BY AbsInit, StepImplements, Invariance, PTL DEF Spec, AbsSafety, Abs!Safety

-----------------------------------------------------------------------------
(* The waits end.  Fairness is stated with the conditions GuardsAreExact    *)
(* shows to be those under which the step can be taken.                     *)

PrepareKeepsGoing == []<>Terminated \/ []<><<PrepareVM>>_vars
EnableKeepsGoing  == []<>~EnableReady \/ []<><<EnableEnds(run)>>_vars
RestartsComplete  == []<>(power # "restarting") \/ []<><<BootCompletes>>_vars
TestRebootsFire   == []<>~RestartReady \/ []<><<TestRebootFires>>_vars
TriesGetThrough   == <>[]~TryReady \/ []<><<TryReboot(TRUE)>>_vars

(* The one step PrepareVM takes in a phase.                                 *)
LEMMA PhaseStep ==
  ASSUME PrepareVM
  PROVE  /\ pc = "enableSleep" => EnableSleep
         /\ pc = "enableCheck" => ExitCodeOfEnable
         /\ pc = "rebootSleep" => RebootSleep
         /\ pc = "rebootCheck" => TryReboot(TRUE) \/ TryReboot(FALSE) \/ TryRebootRefused
         /\ pc = "abort" => AbortReboot \/ AbortRebootErrs
BY DEF PrepareVM, CreateProvisionDirectory, UploadLGPO, UploadAutomation, EnableWinRM,
   EnableSleep, ExitCodeOfEnable, ValidateConnection, ExtractArchive, LogOutUsers,
   ExecuteSetupScript, SetupReturns, RebootSleep, TryReboot, TryRebootRefused, AbortReboot,
   AbortRebootErrs, ExecutePostRebootScript, PostRebootReturns, OffSleep, IsPoweredOff

(* While a command is running, only its own steps move it.                  *)
LEMMA OnlyPrepareMoves ==
  ASSUME [Next]_vars, ~Terminated
  PROVE  PrepareVM \/ (UNCHANGED client /\ (Guest \/ UNCHANGED vars))
<1>1. ~Rerun
  BY DEF Rerun, Terminated
<1>2. ASSUME NEW r \in Runs,
             \/ EnableProgress(r) \/ EnableEnds(r)
             \/ SetupInstalls(r) \/ SetupFails(r)
             \/ SetupRestarts(r) \/ SetupDoesNotRestart(r)
             \/ InstallCFCell(r) \/ CleanUpVM(r) \/ SysprepVM(r)
             \/ PostRebootEnds(r) \/ PostRebootFails(r)
             \/ SysprepShutsDown(r) \/ SysprepFails(r)
      PROVE  UNCHANGED client
  BY <1>2 DEF EnableProgress, EnableEnds, SetupInstalls, SetupFails, SetupRestarts,
     SetupDoesNotRestart, InstallCFCell, CleanUpVM, SysprepVM, PostRebootEnds,
     PostRebootFails, SysprepShutsDown, GuestGoesOff, SysprepFails, client
<1>3. BootCompletes \/ TestRebootFires \/ PoweredOffByOthers => UNCHANGED client
  BY Zenon DEF BootCompletes, TestRebootFires, PoweredOffByOthers, GuestGoesOff, client
<1>. QED
  BY <1>1, <1>2, <1>3 DEF Next, Guest, vars, client

-----------------------------------------------------------------------------
(* Waiting for Enable-WinRM.                                                *)

Watching(phase) == pc = phase /\ enable[run] = "running"
Ended(phase)    == pc = phase /\ enable[run] # "running"
EnableSeen      == pc \in {"validate", "failed"}

(* The guest never starts an Enable-WinRM program by itself.                *)
LEMMA EnableOnlyEnds ==
  ASSUME TypeOK, Guest \/ UNCHANGED vars, enable[run] # "running", UNCHANGED client
  PROVE  enable'[run] # "running"
<1>1. ASSUME NEW r \in Runs, EnableEnds(r) PROVE enable'[run] # "running"
  BY <1>1 DEF EnableEnds, TypeOK
<1>2. ASSUME NEW r \in Runs,
             \/ EnableProgress(r)
             \/ SetupInstalls(r) \/ SetupFails(r) \/ SetupDoesNotRestart(r)
             \/ InstallCFCell(r) \/ CleanUpVM(r) \/ SysprepVM(r)
             \/ PostRebootEnds(r) \/ PostRebootFails(r) \/ SysprepFails(r)
      PROVE  enable' = enable
  BY <1>2 DEF EnableProgress, SetupInstalls, SetupFails, SetupDoesNotRestart,
     InstallCFCell, CleanUpVM, SysprepVM, PostRebootEnds, PostRebootFails, SysprepFails
<1>3. ASSUME EnableStops \/ enable' = enable PROVE enable'[run] # "running"
  BY <1>3 DEF EnableStops, TypeOK
<1>4. ASSUME NEW r \in Runs, SetupRestarts(r) \/ SysprepShutsDown(r) PROVE EnableStops
  BY <1>4 DEF SetupRestarts, RestartGuest, SysprepShutsDown, GuestGoesOff
<1>5. CASE BootCompletes \/ TestRebootFires \/ PoweredOffByOthers
  BY <1>3, <1>5 DEF BootCompletes, TestRebootFires, RestartGuest, PoweredOffByOthers,
     GuestGoesOff
<1>6. CASE UNCHANGED vars
  BY <1>6 DEF vars, client
<1>. QED
  BY <1>1, <1>2, <1>3, <1>4, <1>5, <1>6 DEF Guest, client

LEMMA WatchStep ==
  ASSUME IInv, [Next]_vars, NEW phase \in {"enableSleep", "enableCheck"}, pc = phase
  PROVE  /\ \/ \E next \in {"enableSleep", "enableCheck"} : Watching(next)' \/ Ended(next)'
            \/ EnableSeen'
         /\ Ended(phase) => \/ Ended(phase)' /\ ~PrepareVM
                            \/ phase = "enableSleep" /\ Ended("enableCheck")'
                            \/ phase = "enableCheck" /\ EnableSeen'
<1>0. TypeOK /\ ~Terminated
  BY DEF IInv, Terminated
<1>1. CASE PrepareVM
  <2>1. EnableSleep \/ ExitCodeOfEnable
    BY <1>1, PhaseStep
  <2>2. enable' = enable
    BY <2>1 DEF EnableSleep, ExitCodeOfEnable, guest
  <2>3. CASE EnableSleep
    BY <1>0, <2>2, <2>3 DEF EnableSleep, Proceed, Watching, Ended
  <2>4. CASE ExitCodeOfEnable
    BY <1>0, <2>2, <2>4 DEF ExitCodeOfEnable, Proceed, ReturnError, Watching, Ended,
       EnableSeen
  <2>. QED
    BY <2>1, <2>3, <2>4
<1>2. CASE ~PrepareVM
  <2>1. UNCHANGED client /\ (Guest \/ UNCHANGED vars)
    BY <1>0, <1>2, OnlyPrepareMoves
  <2>2. pc' = pc /\ run' = run
    BY <2>1 DEF client
  <2>3. Ended(phase) => Ended(phase)'
    BY <1>0, <2>1, <2>2, EnableOnlyEnds DEF Ended
  <2>4. Watching(phase)' \/ Ended(phase)'
    BY <2>2 DEF Watching, Ended
  <2>. QED
    BY <1>2, <2>3, <2>4
<1>. QED
  BY <1>1, <1>2

(* The poll for the end of Enable-WinRM ends for any number of runs: the     *)
(* program ends, or dies with the guest, or is not listed any more.          *)
THEOREM EnableWait ==
  Spec /\ PrepareKeepsGoing /\ EnableKeepsGoing => EnableWaitEnds
<1> DEFINE Watched == Watching("enableSleep") \/ Watching("enableCheck")
<1> DEFINE Over == Ended("enableSleep") \/ Ended("enableCheck")
<1>1. IInv /\ Watched /\ [Next]_vars => (Watched \/ Over \/ EnableSeen)'
  BY WatchStep DEF Watching
<1>2. IInv /\ Watched => EnableReady
  BY DEF Watching, EnableReady, IInv, TypeOK, StoppedIsQuiet, Quiet
<1>3. IInv /\ Watched /\ <<EnableEnds(run)>>_vars => ~Watched'
  BY DEF IInv, TypeOK, Watching, EnableEnds, client
<1>4. IInv /\ Ended("enableSleep") /\ [Next]_vars
        => Ended("enableSleep")' \/ Ended("enableCheck")'
  BY WatchStep DEF Ended
<1>5. IInv /\ Ended("enableSleep") /\ [Next]_vars /\ <<PrepareVM>>_vars
        => Ended("enableCheck")'
  BY WatchStep DEF Ended
<1>6. IInv /\ Ended("enableCheck") /\ [Next]_vars => Ended("enableCheck")' \/ EnableSeen'
  BY WatchStep DEF Ended
<1>7. IInv /\ Ended("enableCheck") /\ [Next]_vars /\ <<PrepareVM>>_vars => EnableSeen'
  BY WatchStep DEF Ended
<1>8. Over => ~Terminated
  BY DEF Ended, Terminated
<1>9. pc = "enableSleep" => Watching("enableSleep") \/ Ended("enableSleep")
  BY DEF Watching, Ended
<1>10. EnableSeen <=> pc \in {"validate", "failed"}
  BY DEF EnableSeen
<1>11. Watched <=> Watching("enableSleep") \/ Watching("enableCheck")
  OBVIOUS
<1>12. Over <=> Ended("enableSleep") \/ Ended("enableCheck")
  OBVIOUS
<1> HIDE DEF Watched, Over
<1>. QED
  BY <1>1, <1>2, <1>3, <1>4, <1>5, <1>6, <1>7, <1>8, <1>9, <1>10, <1>11, <1>12,
     Invariance, PTL
     DEF Spec, PrepareKeepsGoing, EnableKeepsGoing, EnableWaitEnds

-----------------------------------------------------------------------------
(* A command whose guest is off comes back: the liveness of ConstructAbs.   *)

OffAt(phase) == power = "off" /\ pc = phase

(* Nothing switches the guest on again.                                     *)
LEMMA OffIsFinal ==
  ASSUME [Next]_vars, power = "off"
  PROVE  power' = "off"
<1>1. CASE PrepareVM
  BY <1>1 DEF PrepareVM, CreateProvisionDirectory, UploadLGPO, UploadAutomation, Store,
     EnableWinRM, EnableSleep, ExitCodeOfEnable, ValidateConnection, ExtractArchive,
     LogOutUsers, ExecuteSetupScript, SetupReturns, RebootSleep, TryReboot,
     TryRebootRefused, AbortReboot, AbortRebootErrs, ExecutePostRebootScript,
     PostRebootReturns, OffSleep, IsPoweredOff, guest
<1>2. CASE Guest
  BY <1>2 DEF Guest, EnableProgress, EnableEnds, SetupInstalls, SetupFails, SetupRestarts,
     SetupDoesNotRestart, InstallCFCell, CleanUpVM, SysprepVM, PostRebootEnds,
     PostRebootFails, BootCompletes, TestRebootFires, SysprepShutsDown, SysprepFails,
     PoweredOffByOthers
<1>3. CASE Rerun \/ UNCHANGED vars
  BY <1>3 DEF Rerun, guest, vars
<1>. QED
  BY <1>1, <1>2, <1>3 DEF Next

(* A command that waits for its post-reboot script or for the power-off of  *)
(* a guest that is off has at most three steps to go.                       *)
LEMMA OffStep ==
  ASSUME [Next]_vars, power = "off"
  PROVE  /\ OffAt("offCheck")  => (OffAt("offCheck")' /\ ~PrepareVM) \/ Terminated'
         /\ OffAt("offSleep")  => (OffAt("offSleep")' /\ ~PrepareVM) \/ OffAt("offCheck")'
         /\ OffAt("awaitPost") => \/ OffAt("awaitPost")' /\ ~PrepareVM
                                  \/ OffAt("offSleep")' \/ Terminated'
<1>0. power' = "off"
  BY OffIsFinal
<1> SUFFICES ASSUME pc \in {"awaitPost", "offSleep", "offCheck"}
             PROVE  /\ pc = "offCheck"  => (pc' = pc /\ ~PrepareVM) \/ Terminated'
                    /\ pc = "offSleep"  => (pc' = pc /\ ~PrepareVM) \/ pc' = "offCheck"
                    /\ pc = "awaitPost" => \/ pc' = pc /\ ~PrepareVM
                                           \/ pc' = "offSleep" \/ Terminated'
  BY <1>0 DEF OffAt
<1>1. CASE PrepareVM
  <2>1. PostRebootReturns \/ OffSleep \/ IsPoweredOff
    BY <1>1 DEF PrepareVM, CreateProvisionDirectory, UploadLGPO, UploadAutomation,
       EnableWinRM, EnableSleep, ExitCodeOfEnable, ValidateConnection, ExtractArchive,
       LogOutUsers, ExecuteSetupScript, SetupReturns, RebootSleep, TryReboot,
       TryRebootRefused, AbortReboot, AbortRebootErrs, ExecutePostRebootScript
  <2>. QED
    BY <2>1 DEF PostRebootReturns, ConnectionEvent, OffSleep, IsPoweredOff, Proceed,
       ReturnError, Terminated
<1>2. CASE ~PrepareVM
  <2>1. ~Terminated
    BY DEF Terminated
  <2>. QED
    BY <1>2, <2>1, OnlyPrepareMoves DEF client
<1>. QED
  BY <1>1, <1>2

(* A command that still runs when its machine has been sealed ends: no poll  *)
(* goes on for a guest that is off, although none has a timeout.             *)
THEOREM SealedCommandReturns == Spec /\ PrepareKeepsGoing => Abs!Returns
<1> DEFINE Last == OffAt("offCheck")
<1> DEFINE Other == OffAt("offSleep")
<1> DEFINE First == OffAt("awaitPost")
<1>1. Verdict # "running" <=> Terminated
  BY DEF Verdict, Terminated
<1>2. IInv /\ GuestStage = "sealed" /\ Verdict = "running" => Last \/ Other \/ First
  <2> SUFFICES ASSUME IInv, GuestStage = "sealed", Verdict = "running"
               PROVE  Last \/ Other \/ First
    OBVIOUS
  <2>1. power = "off" /\ sysprep[run] = "done" /\ pc \notin {"done", "failed"}
    BY DEF GuestStage, Verdict
  <2>2. post[run] # "none"
    BY <2>1 DEF IInv, TypeOK, SysprepHasOwner
  <2>. QED
    BY <2>1, <2>2 DEF IInv, TypeOK, Progress, OffAt
<1>3. Last \/ Other \/ First => ~Terminated
  BY DEF OffAt, Terminated
<1>4. [Next]_vars /\ First => First' \/ Other' \/ Terminated'
  BY OffStep DEF OffAt
<1>5. <<PrepareVM>>_vars /\ First => Other' \/ Terminated'
  BY OffStep DEF OffAt, Next
<1>6. [Next]_vars /\ Other => Other' \/ Last'
  BY OffStep DEF OffAt
<1>7. <<PrepareVM>>_vars /\ Other => Last'
  BY OffStep DEF OffAt, Next
<1>8. [Next]_vars /\ Last => Last' \/ Terminated'
  BY OffStep DEF OffAt
<1>9. <<PrepareVM>>_vars /\ Last => Terminated'
  BY OffStep DEF OffAt, Next
<1> HIDE DEF Last, Other, First
<1>. QED
  BY <1>1, <1>2, <1>3, <1>4, <1>5, <1>6, <1>7, <1>8, <1>9, Invariance, PTL
     DEF Spec, PrepareKeepsGoing, Abs!Returns

(* Construct implements ConstructAbs, its promise to come back included.     *)
THEOREM FullRefinement == Spec /\ PrepareKeepsGoing => AbsSpec
<1>. QED
  BY Refinement, SealedCommandReturns, PTL DEF AbsSpec, AbsSafety, Abs!Spec

(* What ConstructAbs says is enough for the promises to its caller.          *)
LEMMA AbsKeepsPromise == AbsSafety => []Abs!Promise /\ Abs!SealedForGood
<1>1. Abs!Init => Abs!Promise
  BY DEF Abs!Init, Abs!Promise, Abs!Off
<1>2. Abs!Promise /\ [Abs!Next]_(Abs!vars) => Abs!Promise'
  <2> SUFFICES ASSUME Abs!Promise, [Abs!Next]_(Abs!vars) PROVE Abs!Promise'
    OBVIOUS
  <2> USE DEF Abs!Promise, Abs!Off
  <2>1. CASE Abs!Restart
    BY <2>1 DEF Abs!Restart
  <2>2. CASE Abs!MissRestart
    BY <2>2 DEF Abs!MissRestart
  <2>3. CASE Abs!StartSealing
    BY <2>3 DEF Abs!StartSealing
  <2>4. CASE Abs!Seal
    BY <2>4 DEF Abs!Seal
  <2>5. CASE Abs!SealLeftover
    BY <2>5 DEF Abs!SealLeftover
  <2>6. CASE Abs!AbandonLeftover
    BY <2>6 DEF Abs!AbandonLeftover
  <2>7. CASE Abs!SwitchOff
    BY <2>7 DEF Abs!SwitchOff
  <2>8. CASE Abs!Succeed
    BY <2>8 DEF Abs!Succeed
  <2>9. CASE Abs!Fail
    BY <2>9 DEF Abs!Fail
  <2>10. CASE Abs!Retry
    BY <2>10 DEF Abs!Retry
  <2>11. CASE UNCHANGED Abs!vars
    BY <2>11 DEF Abs!vars
  <2>. QED
    BY <2>1, <2>2, <2>3, <2>4, <2>5, <2>6, <2>7, <2>8, <2>9, <2>10, <2>11 DEF Abs!Next
<1>3. [Abs!Next]_(Abs!vars)
        => [(GuestStage \in Abs!Off) => (GuestStage' \in Abs!Off)]_(Abs!vars)
  <2> SUFFICES ASSUME Abs!Next, GuestStage \in Abs!Off PROVE GuestStage' \in Abs!Off
    OBVIOUS
  <2>. QED
    BY DEF Abs!Next, Abs!Restart, Abs!MissRestart, Abs!StartSealing, Abs!Seal,
       Abs!SealLeftover, Abs!AbandonLeftover, Abs!SwitchOff, Abs!Fail, Abs!Succeed,
       Abs!Retry, Abs!Off
<1>. QED
  BY <1>1, <1>2, <1>3, PTL DEF AbsSafety, Abs!Safety, Abs!SealedForGood

(* So construct succeeds only with a machine sealed for this very command,   *)
(* or one of the two faults; none of an earlier command is at work on a      *)
(* machine that has restarted; and what is off stays off however often the   *)
(* command is run on it again.                                               *)
THEOREM AbsPromise == Spec => []Abs!Promise /\ Abs!SealedForGood
<1>. QED
  BY Refinement, AbsKeepsPromise, PTL

-----------------------------------------------------------------------------
(* Waiting for the restart.  The poll's own restarts, and that of an older   *)
(* setup script where the guest has not restarted, come and go until one     *)
(* request is accepted and its answer arrives; then the abort has at most    *)
(* AbortAttempts rounds.                                                     *)

Fresh == \A r \in Runs : post[r] = "none"
Calm  == \A r \in Runs : setup[r] \notin SetupRunning

PollDown    == Fresh /\ pc \in {"rebootSleep", "rebootCheck"} /\ power = "restarting"
PollPending == Fresh /\ pc \in {"rebootSleep", "rebootCheck"} /\ RestartReady
PollSleep   == Fresh /\ pc = "rebootSleep" /\ power = "on" /\ ~testReboot
PollTry     == Fresh /\ TryReady
Aborting(k) == pc = "abort" /\ tries = k

(* What a step of the guest, or no step, may do to a polled guest.          *)
LEMMA PolledGuest ==
  ASSUME IInv, Guest \/ UNCHANGED vars, UNCHANGED client, Fresh,
         pc \in {"rebootSleep", "rebootCheck"}
  PROVE  /\ Fresh' /\ (Calm => Calm')
         /\ \/ cut'
            \/ /\ power = "restarting" => power' \in {"restarting", "on"} /\ ~testReboot'
               /\ RestartReady => RestartReady' \/ power' = "restarting"
               /\ power = "on" /\ ~testReboot
                    => ~testReboot' /\ (power' = "on" \/ (power' = "restarting" /\ ~Calm))
<1> DEFINE Kept == UNCHANGED <<power, testReboot>> /\ Fresh' /\ (Calm => Calm')
<1>1. power = "restarting" => ~testReboot
  BY DEF IInv, StoppedIsQuiet
<1>2. Kept => /\ power = "restarting" => power' \in {"restarting", "on"} /\ ~testReboot'
              /\ RestartReady => RestartReady' \/ power' = "restarting"
              /\ power = "on" /\ ~testReboot
                   => ~testReboot' /\ (power' = "on" \/ (power' = "restarting" /\ ~Calm))
  <2> SUFFICES ASSUME Kept
               PROVE  /\ power = "restarting" => power' = "restarting" /\ ~testReboot'
                      /\ RestartReady => RestartReady'
                      /\ power = "on" /\ ~testReboot => ~testReboot' /\ power' = "on"
    OBVIOUS
  <2>. QED
    BY <1>1, Zenon DEF RestartReady
<1>3. ASSUME NEW r \in Runs,
             \/ EnableProgress(r) \/ EnableEnds(r)
             \/ SetupInstalls(r) \/ SetupFails(r) \/ SetupDoesNotRestart(r)
             \/ SysprepFails(r)
      PROVE  Kept
  BY <1>3 DEF EnableProgress, EnableEnds, SetupInstalls, SetupFails, SetupDoesNotRestart,
     SysprepFails, Fresh, Calm, IInv, TypeOK, SetupRunning
<1>4. ASSUME NEW r \in Runs,
             \/ InstallCFCell(r) \/ CleanUpVM(r) \/ SysprepVM(r)
             \/ PostRebootEnds(r) \/ PostRebootFails(r) \/ SysprepShutsDown(r)
      PROVE  FALSE
  BY <1>4 DEF InstallCFCell, CleanUpVM, SysprepVM, PostRebootEnds, PostRebootFails,
     SysprepShutsDown, PostRunning, Fresh, IInv, SysprepHasOwner
<1>5. ASSUME RestartGuest
      PROVE  Fresh' /\ power' = "restarting"
  BY <1>5 DEF RestartGuest, Fresh, PostRunning
<1>6. ASSUME NEW r \in Runs, SetupRestarts(r)
      PROVE  /\ power = "on" /\ ~testReboot /\ ~testReboot' /\ ~Calm
             /\ power' = "restarting" /\ Fresh'
  BY <1>5, <1>6 DEF SetupRestarts, Calm, SetupRunning
<1>7. CASE BootCompletes
  <2>1. power = "restarting" /\ power' = "on" /\ UNCHANGED <<testReboot, post, setup>>
    BY <1>7 DEF BootCompletes
  <2>2. Fresh' /\ (Calm => Calm')
    BY <2>1, Zenon DEF Fresh, Calm
  <2>. QED
    BY <1>1, <2>1, <2>2 DEF RestartReady
<1>8. CASE TestRebootFires
  <2>1. power = "on" /\ testReboot /\ power' = "restarting" /\ Fresh'
    BY <1>5, <1>8 DEF TestRebootFires
  <2>2. Calm'
    BY <1>8 DEF TestRebootFires, SetupsStop, Calm, SetupRunning
  <2>. QED
    BY <2>1, <2>2
<1>9. CASE PoweredOffByOthers
  <2>1. cut'
    BY <1>9 DEF PoweredOffByOthers
  <2>2. Fresh' /\ Calm'
    BY <1>9 DEF PoweredOffByOthers, GuestGoesOff, SetupsStop, Fresh, Calm, PostRunning,
       SetupRunning
  <2>. QED
    BY <2>1, <2>2
<1>10. UNCHANGED vars => Kept
  BY DEF vars, Fresh, Calm
<1> HIDE DEF Kept
<1>11. CASE Kept
  BY <1>2, <1>11 DEF Kept
<1>12. CASE \E r \in Runs : SetupRestarts(r)
  BY <1>6, <1>12 DEF RestartReady
<1>. QED
  BY <1>3, <1>4, <1>7, <1>8, <1>9, <1>10, <1>11, <1>12, Zenon DEF Guest

(* A step of the poll.                                                      *)
LEMMA PollStep ==
  ASSUME IInv, PrepareVM, Fresh, pc \in {"rebootSleep", "rebootCheck"}
  PROVE  /\ Fresh' /\ power' = power /\ setup' = setup
         /\ \/ /\ testReboot' <=> testReboot
               /\ pc' \in {"rebootSleep", "rebootCheck"}
               /\ pc = "rebootSleep" => pc' = "rebootCheck"
            \/ TryReady /\ testReboot' /\ pc' = "rebootSleep"
            \/ TryReady /\ Aborting(0)'
<1>1. RebootSleep \/ TryReboot(TRUE) \/ TryReboot(FALSE) \/ TryRebootRefused
  BY PhaseStep
<1>2. CASE RebootSleep \/ TryRebootRefused
  BY <1>2 DEF RebootSleep, TryRebootRefused, Proceed, Fresh, guest
<1>3. CASE TryReboot(TRUE) \/ TryReboot(FALSE)
  <2>1. TryReady /\ testReboot'
    BY <1>3, Zenon DEF TryReboot, TryReady
  <2>. QED
    BY <1>3, <2>1 DEF TryReboot, Proceed, Fresh, Aborting
<1>. QED
  BY <1>1, <1>2, <1>3

(* A polled guest that nobody else has powered off is restarting, or up     *)
(* with WinRM.                                                              *)
LEMMA PolledIsReachable ==
  ASSUME IInv, WinRMAfterSetup, Fresh, pc \in {"rebootSleep", "rebootCheck"}
  PROVE  (power \in {"on", "restarting"} \/ cut) /\ winrm
<1>1. run \in Runs /\ setup[run] = "exit0"
  BY DEF IInv, TypeOK, Progress
<1>2. winrm
  BY <1>1, Zenon DEF WinRMAfterSetup, Fresh
<1>3. power = "off" => cut
  BY Zenon DEF IInv, OffHasReason, SysprepHasOwner, Fresh
<1>. QED
  BY <1>2, <1>3 DEF IInv, TypeOK

LEMMA PollMoves ==
  ASSUME IInv, WinRMAfterSetup, [Next]_vars
  PROVE  /\ PollDown    => (PollDown \/ PollSleep \/ PollTry \/ cut)'
         /\ PollPending => (PollPending \/ PollDown \/ cut)'
         /\ PollSleep   => \/ PollSleep' /\ ~PrepareVM
                           \/ (PollTry \/ cut)'
                           \/ PollDown' /\ ~Calm
         /\ PollTry     => \/ (PollTry \/ PollPending \/ PollSleep \/ Aborting(0) \/ cut)'
                           \/ PollDown' /\ ~Calm
         /\ Calm /\ pc \in {"rebootSleep", "rebootCheck"} /\ Fresh => Calm'
<1> SUFFICES ASSUME Fresh, pc \in {"rebootSleep", "rebootCheck"}, ~cut'
             PROVE  /\ PollDown    => (PollDown \/ PollSleep \/ PollTry)'
                    /\ PollPending => (PollPending \/ PollDown)'
                    /\ PollSleep   => \/ PollSleep' /\ ~PrepareVM
                                      \/ PollTry'
                                      \/ PollDown' /\ ~Calm
                    /\ PollTry     => \/ (PollTry \/ PollPending \/ PollSleep)'
                                      \/ Aborting(0)'
                                      \/ PollDown' /\ ~Calm
  <2>1. Calm /\ pc \in {"rebootSleep", "rebootCheck"} /\ Fresh => Calm'
    <3> SUFFICES ASSUME Calm, pc \in {"rebootSleep", "rebootCheck"}, Fresh
                 PROVE  Calm'
      OBVIOUS
    <3>1. CASE PrepareVM
      BY <3>1, PollStep DEF Calm
    <3>2. CASE ~PrepareVM
      BY <3>2, PolledGuest, OnlyPrepareMoves DEF Terminated
    <3>. QED
      BY <3>1, <3>2
  <2>. QED
    BY <2>1 DEF PollDown, PollPending, PollSleep, PollTry, TryReady
<1>1. (Fresh /\ pc \in {"rebootSleep", "rebootCheck"})' => winrm'
  <2>1. (IInv /\ WinRMAfterSetup)'
    BY NextInv, WinRMNext
  <2>. QED
    BY <2>1 DEF IInv, TypeOK, Progress, Fresh, WinRMAfterSetup
<1>2. (power = "restarting" => ~testReboot) /\ ~Terminated
  BY DEF IInv, StoppedIsQuiet, Terminated
<1>3. CASE PrepareVM
  <2>1. Fresh' /\ power' = power
    BY <1>3, PollStep
  <2>2. CASE /\ testReboot' <=> testReboot
             /\ pc' \in {"rebootSleep", "rebootCheck"}
             /\ pc = "rebootSleep" => pc' = "rebootCheck"
    <3>1. winrm'
      BY <1>1, <2>1, <2>2
    <3>. QED
      BY <1>2, <2>1, <2>2, <3>1 DEF PollDown, PollPending, PollSleep, PollTry, TryReady,
         RestartReady, Reachable
  <2>3. CASE TryReady /\ testReboot' /\ pc' = "rebootSleep"
    BY <1>2, <2>1, <2>3 DEF PollDown, PollPending, PollSleep, PollTry, TryReady,
       RestartReady, Reachable
  <2>4. CASE TryReady /\ Aborting(0)'
    BY <1>2, <2>1, <2>4 DEF PollDown, PollPending, PollSleep, PollTry, TryReady,
       RestartReady, Reachable
  <2>. QED
    BY <1>3, <2>2, <2>3, <2>4, PollStep
<1>4. CASE ~PrepareVM
  <2>1. UNCHANGED client /\ (Guest \/ UNCHANGED vars)
    BY <1>2, <1>4, OnlyPrepareMoves
  <2>2. /\ Fresh' /\ pc' = pc
        /\ power = "restarting" => power' \in {"restarting", "on"} /\ ~testReboot'
        /\ RestartReady => RestartReady' \/ power' = "restarting"
        /\ power = "on" /\ ~testReboot
             => ~testReboot' /\ (power' = "on" \/ (power' = "restarting" /\ ~Calm))
    BY <2>1, PolledGuest DEF client
  <2>. QED
    BY <1>1, <1>4, <2>2 DEF PollDown, PollPending, PollSleep, PollTry, TryReady,
       RestartReady, Reachable
<1>. QED
  BY <1>3, <1>4

AbortOver == pc \in {"runPost", "failed"}

AbortSettles(k, j) ==
  Spec /\ PrepareKeepsGoing => (Aborting(k) ~> Aborting(j) \/ AbortOver)

LEMMA AbortRound ==
  ASSUME NEW k \in Nat, NEW j \in Nat, j = k + 1
  PROVE  AbortSettles(k, j)
<1> DEFINE Before == Aborting(k)
<1> DEFINE After == Aborting(j) \/ AbortOver
<1>1. IInv /\ Before /\ [Next]_vars => (Before' /\ ~PrepareVM) \/ After'
  <2> SUFFICES ASSUME IInv, Before, [Next]_vars PROVE (Before' /\ ~PrepareVM) \/ After'
    OBVIOUS
  <2>1. ~Terminated
    BY DEF Aborting, Terminated
  <2>2. CASE PrepareVM
    <3>1. AbortReboot \/ AbortRebootErrs
      BY <2>2, PhaseStep DEF Aborting
    <3>. QED
      BY <3>1 DEF AbortReboot, AbortRebootErrs, Proceed, ReturnError, Aborting, AbortOver
  <2>3. CASE ~PrepareVM
    BY <2>1, <2>3, OnlyPrepareMoves DEF client, Aborting
  <2>. QED
    BY <2>2, <2>3
<1>2. Before => ~Terminated
  BY DEF Aborting, Terminated
<1>3. IInv /\ Before /\ <<PrepareVM>>_vars => After'
  BY <1>1 DEF Next
<1>4. IInv /\ Before /\ [Next]_vars => Before' \/ After'
  BY <1>1
<1> HIDE DEF Before, After
<1>5. Spec /\ PrepareKeepsGoing => (Before ~> After)
  BY <1>2, <1>3, <1>4, Invariance, PTL DEF Spec, PrepareKeepsGoing
<1>. QED
  BY <1>5 DEF AbortSettles, Before, After

PollFairness ==
  PrepareKeepsGoing /\ RestartsComplete /\ TestRebootsFire /\ TriesGetThrough

(* The poll comes to an accepted request that is answered.  An older setup   *)
(* script restarts the guest once at most, and after any restart none is     *)
(* left: from there on, requests of the poll are all that takes it down.     *)
LEMMA PollAnswered ==
  Spec /\ PollFairness
    => (pc = "rebootSleep" /\ Fresh ~> Aborting(0) \/ cut)
<1> DEFINE W == IInv /\ WinRMAfterSetup
<1>1. W /\ pc = "rebootSleep" /\ Fresh => PollDown \/ PollPending \/ PollSleep \/ cut
  BY PolledIsReachable DEF PollDown, PollPending, PollSleep, RestartReady
<1>2. W /\ PollDown /\ [Next]_vars => (PollDown \/ PollSleep \/ PollTry \/ cut)'
  BY PollMoves
<1>3. PollDown /\ <<BootCompletes>>_vars => ~PollDown'
  BY DEF PollDown, BootCompletes
<1>4. W /\ PollPending /\ [Next]_vars => (PollPending \/ PollDown \/ cut)'
  BY PollMoves
<1>5. PollPending /\ <<TestRebootFires>>_vars => ~PollPending'
  <2>1. TestRebootFires => power' = "restarting"
    BY DEF TestRebootFires, RestartGuest
  <2>. QED
    BY <2>1 DEF PollPending, RestartReady
<1>6. W /\ PollSleep /\ [Next]_vars
        => (PollSleep \/ PollTry \/ cut)' \/ (PollDown' /\ ~Calm)
  BY PollMoves
<1>7. W /\ PollSleep /\ <<PrepareVM>>_vars => (PollTry \/ cut)' \/ (PollDown' /\ ~Calm)
  BY PollMoves DEF Next
<1>8. W /\ PollTry /\ [Next]_vars
        => \/ (PollTry \/ PollPending \/ PollSleep \/ Aborting(0) \/ cut)'
           \/ PollDown' /\ ~Calm
  BY PollMoves
<1>9. W /\ (PollDown \/ PollPending \/ PollSleep \/ PollTry) /\ Calm /\ [Next]_vars
        => Calm'
  BY PollMoves DEF PollDown, PollPending, PollSleep, PollTry, TryReady
<1>10. W /\ PollDown => Calm
  BY DEF PollDown, IInv, StoppedIsQuiet, Quiet, Calm
<1>11. <<TryReboot(TRUE)>>_vars => Aborting(0)'
  BY DEF TryReboot, Proceed, Aborting
<1>12. /\ PollDown => power = "restarting"
       /\ PollPending => RestartReady
       /\ PollSleep => ~Terminated
       /\ PollTry => TryReady
  BY DEF PollDown, PollPending, PollSleep, PollTry, Terminated
<1>13. power # "restarting" => ~(power = "restarting")
  OBVIOUS
<1>14. Spec => []W
  BY Invariance, WinRMInvariance, PTL
<1> HIDE DEF W
<1>. QED
  BY <1>1, <1>2, <1>3, <1>4, <1>5, <1>6, <1>7, <1>8, <1>9, <1>10, <1>11, <1>12, <1>13,
     <1>14, PTL
     DEF Spec, PollFairness, PrepareKeepsGoing, RestartsComplete, TestRebootsFire,
         TriesGetThrough

(* The reboot poll ends, for the five abort attempts of the code, although   *)
(* its own test restarts take the guest down and every answer may be lost    *)
(* but not for ever, if nobody else powers the guest off.                    *)
THEOREM RebootWait ==
  ASSUME AbortAttempts = 5
  PROVE  Spec /\ PrepareKeepsGoing /\ RestartsComplete /\ TestRebootsFire
           /\ TriesGetThrough
             => RebootWaitEnds
<1>1. /\ AbortSettles(0, 1)
      /\ AbortSettles(1, 2)
      /\ AbortSettles(2, 3)
      /\ AbortSettles(3, 4)
      /\ AbortSettles(4, 5)
  BY AbortRound
<1>2. IInv => ~Aborting(5)
  BY DEF IInv, Progress, Aborting
<1>3. (pc = "rebootSleep" /\ (\A r \in Runs : post[r] = "none"))
        <=> (pc = "rebootSleep" /\ Fresh)
  BY DEF Fresh
<1>4. AbortOver <=> pc \in {"runPost", "failed"}
  BY DEF AbortOver
<1>. QED
  BY <1>1, <1>2, <1>3, <1>4, Invariance, PollAnswered, PTL
     DEF PollFairness, AbortSettles, RebootWaitEnds
=============================================================================
