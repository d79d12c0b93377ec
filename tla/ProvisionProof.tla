---------------------------- MODULE ProvisionProof ----------------------------
(* For every number of runs: the inductive invariant of the guest's scripts, *)
(* and from it what the restart, the version file and the stemcell can rely  *)
(* on.                                                                       *)
EXTENDS GuestScripts, TLAPS

(* Names of places and of facts, and the ways a step can end: every leaf     *)
(* about a step sees them.                                                   *)
USE DEF At, Goto, Throw, Does, Unheard, Untouched, Rest, SetupSteps, PostSteps,
        SetupDone, Ends, AfterSysprep, AfterServices, AfterSetup, AfterFeatures,
        AfterPolicies, Facts, Wanted, Ignorable, Told

LEMMA InitInv == Init => IInv
  BY MaxRunsAssumption DEF Init, IInv, TypeOK, Established, VersionAt, SysprepAt

(* A function of the scripts establishes what the places behind it say, and  *)
(* takes away nothing an earlier function of the same run established.       *)
LEMMA StepInv == IInv /\ [Next]_vars => IInv'
  <1> SUFFICES ASSUME IInv, [Next]_vars PROVE IInv'
    OBVIOUS
  <1>1. CASE ValidateOSVersion
    BY <1>1 DEF ValidateOSVersion, IInv, TypeOK, Established, VersionAt, SysprepAt
  <1>2. CASE CheckDependencies
    BY <1>2 DEF CheckDependencies, IInv, TypeOK, Established, VersionAt, SysprepAt
  <1>3. CASE CopyPSModules
    BY <1>3 DEF CopyPSModules, IInv, TypeOK, Established, VersionAt, SysprepAt
  <1>4. CASE SetRegKeys
    BY <1>4 DEF SetRegKeys, IInv, TypeOK, Established, VersionAt, SysprepAt
  <1>5. CASE CopyAgent
    <2>1. TypeOK'
      <3>1. pc' \in {"WriteAgentConfig", "SetupFailed"} /\ facts' \subseteq Facts
        BY <1>5 DEF CopyAgent, IInv, TypeOK
      <3>2. versionFile' \in {versionFile, 0}
        BY <1>5 DEF CopyAgent
      <3> QED
        BY <1>5, <3>1, <3>2, MaxRunsAssumption DEF CopyAgent, IInv, TypeOK
    <2>2. Established'
      BY <1>5 DEF CopyAgent, IInv, TypeOK, Established
    <2>3. VersionAt'
      BY <1>5 DEF CopyAgent, IInv, TypeOK, VersionAt
    <2>4. SysprepAt'
      BY <1>5 DEF CopyAgent, IInv, TypeOK, Established, SysprepAt
    <2>5. pc' = "WriteAgentConfig" => "agentConfig" \notin facts'
      BY <1>5 DEF CopyAgent, IInv, TypeOK
    <2> QED
      BY <2>1, <2>2, <2>3, <2>4, <2>5 DEF IInv
  <1>6. CASE WriteAgentConfig
    BY <1>6 DEF WriteAgentConfig, IInv, TypeOK, Established, VersionAt, SysprepAt
  <1>7. CASE InstallAgentService
    BY <1>7 DEF InstallAgentService, IInv, TypeOK, Established, VersionAt, SysprepAt
  <1>8. CASE InstallOpenSSH
    BY <1>8 DEF InstallOpenSSH, IInv, TypeOK, Established, VersionAt, SysprepAt
  <1>9. CASE ExtractLGPO
    BY <1>9 DEF ExtractLGPO, IInv, TypeOK, Established, VersionAt, SysprepAt
  <1>10. CASE InstallSecurityPolicies
    BY <1>10 DEF InstallSecurityPolicies, IInv, TypeOK, Established, VersionAt, SysprepAt
  <1>11. CASE EnableSSHD
    BY <1>11 DEF EnableSSHD, IInv, TypeOK, Established, VersionAt, SysprepAt
  <1>12. CASE InstallCFFeatures
    BY <1>12 DEF InstallCFFeatures, IInv, TypeOK, Established, VersionAt, SysprepAt
  <1>13. CASE InstallWUCerts
    BY <1>13 DEF InstallWUCerts, IInv, TypeOK, Established, VersionAt, SysprepAt
  <1>14. CASE CreateVersionFile
    <2>1. TypeOK'
      <3>1. pc' \in {"RestartComputer", "SetupFailed"} /\ facts' = facts
        BY <1>14 DEF CreateVersionFile
      <3>2. versionFile' \in {versionFile, run} /\ missed' \subseteq Ignorable
        BY <1>14 DEF CreateVersionFile, IInv, TypeOK
      <3> QED
        BY <1>14, <3>1, <3>2, MaxRunsAssumption
        DEF CreateVersionFile, IInv, TypeOK
    <2>2. Established'
      BY <1>14 DEF CreateVersionFile, IInv, TypeOK, Established
    <2>3. VersionAt'
      BY <1>14 DEF CreateVersionFile, IInv, TypeOK, VersionAt
    <2>4. SysprepAt'
      BY <1>14 DEF CreateVersionFile, IInv, TypeOK, Established, SysprepAt
    <2>5. pc' = "WriteAgentConfig" => "agentConfig" \notin facts'
      BY <1>14 DEF CreateVersionFile, IInv, TypeOK
    <2> QED
      BY <2>1, <2>2, <2>3, <2>4, <2>5 DEF IInv
  <1>15. CASE RestartComputer
    BY <1>15 DEF RestartComputer, IInv, TypeOK, Established, VersionAt, SysprepAt
  <1>16. CASE StartPostReboot
    BY <1>16 DEF StartPostReboot, IInv, TypeOK, Established, VersionAt, SysprepAt
  <1>17. CASE DisableServices
    <2>1. TypeOK'
      BY <1>17 DEF DisableServices, IInv, TypeOK, VersionAt
    <2>2. Established'
      BY <1>17 DEF DisableServices, IInv, TypeOK, Established
    <2>3. VersionAt'
      BY <1>17 DEF DisableServices, IInv, TypeOK, VersionAt
    <2>4. SysprepAt'
      BY <1>17 DEF DisableServices, IInv, TypeOK, Established, SysprepAt
    <2>5. pc' = "WriteAgentConfig" => "agentConfig" \notin facts'
      BY <1>17 DEF DisableServices, IInv, TypeOK
    <2> QED
      BY <2>1, <2>2, <2>3, <2>4, <2>5 DEF IInv
  <1>18. CASE SetFirewall
    <2>1. TypeOK'
      BY <1>18 DEF SetFirewall, IInv, TypeOK, VersionAt
    <2>2. Established'
      BY <1>18 DEF SetFirewall, IInv, TypeOK, Established
    <2>3. VersionAt'
      BY <1>18 DEF SetFirewall, IInv, TypeOK, VersionAt
    <2>4. SysprepAt'
      BY <1>18 DEF SetFirewall, IInv, TypeOK, Established, SysprepAt
    <2>5. pc' = "WriteAgentConfig" => "agentConfig" \notin facts'
      BY <1>18 DEF SetFirewall, IInv, TypeOK
    <2> QED
      BY <2>1, <2>2, <2>3, <2>4, <2>5 DEF IInv
  <1>19. CASE DisableNetBIOS
    <2>1. TypeOK'
      BY <1>19 DEF DisableNetBIOS, IInv, TypeOK, VersionAt
    <2>2. Established'
      BY <1>19 DEF DisableNetBIOS, IInv, TypeOK, Established
    <2>3. VersionAt'
      BY <1>19 DEF DisableNetBIOS, IInv, TypeOK, VersionAt
    <2>4. SysprepAt'
      BY <1>19 DEF DisableNetBIOS, IInv, TypeOK, Established, SysprepAt
    <2>5. pc' = "WriteAgentConfig" => "agentConfig" \notin facts'
      BY <1>19 DEF DisableNetBIOS, IInv, TypeOK
    <2> QED
      BY <2>1, <2>2, <2>3, <2>4, <2>5 DEF IInv
  <1>20. CASE CleanUpVM
    <2>1. TypeOK'
      BY <1>20 DEF CleanUpVM, IInv, TypeOK, VersionAt
    <2>2. Established'
      BY <1>20 DEF CleanUpVM, IInv, TypeOK, Established
    <2>3. VersionAt'
      BY <1>20 DEF CleanUpVM, IInv, TypeOK, VersionAt
    <2>4. SysprepAt'
      BY <1>20 DEF CleanUpVM, IInv, TypeOK, Established, SysprepAt
    <2>5. pc' = "WriteAgentConfig" => "agentConfig" \notin facts'
      BY <1>20 DEF CleanUpVM, IInv, TypeOK
    <2> QED
      BY <2>1, <2>2, <2>3, <2>4, <2>5 DEF IInv
  <1>21. CASE GenerateRandomPassword
    BY <1>21 DEF GenerateRandomPassword, IInv, TypeOK, Established, VersionAt, SysprepAt
  <1>22. CASE InvokeSysprep
    BY <1>22 DEF InvokeSysprep, IInv, TypeOK, Established, VersionAt, SysprepAt
  <1>23. CASE EnableLocalSecurityPolicy
    <2>1. TypeOK'
      BY <1>23 DEF EnableLocalSecurityPolicy, IInv, TypeOK, VersionAt
    <2>2. Established'
      BY <1>23 DEF EnableLocalSecurityPolicy, IInv, TypeOK, Established
    <2>3. VersionAt'
      BY <1>23 DEF EnableLocalSecurityPolicy, IInv, TypeOK, VersionAt
    <2>4. SysprepAt'
      BY <1>23 DEF EnableLocalSecurityPolicy, IInv, TypeOK, Established, SysprepAt
    <2>5. pc' = "WriteAgentConfig" => "agentConfig" \notin facts'
      BY <1>23 DEF EnableLocalSecurityPolicy, IInv, TypeOK
    <2> QED
      BY <2>1, <2>2, <2>3, <2>4, <2>5 DEF IInv
  <1>24. CASE CreateUnattend
    <2>1. TypeOK'
      BY <1>24 DEF CreateUnattend, IInv, TypeOK, VersionAt
    <2>2. Established'
      BY <1>24 DEF CreateUnattend, IInv, TypeOK, Established
    <2>3. VersionAt'
      BY <1>24 DEF CreateUnattend, IInv, TypeOK, VersionAt
    <2>4. SysprepAt'
      BY <1>24 DEF CreateUnattend, IInv, TypeOK, Established, SysprepAt
    <2>5. pc' = "WriteAgentConfig" => "agentConfig" \notin facts'
      BY <1>24 DEF CreateUnattend, IInv, TypeOK
    <2> QED
      BY <2>1, <2>2, <2>3, <2>4, <2>5 DEF IInv
  <1>25. CASE LastDism
    BY <1>25 DEF LastDism, IInv, TypeOK, Established, VersionAt, SysprepAt
  <1>26. CASE SysprepEnds
    BY <1>26 DEF SysprepEnds, IInv, TypeOK, Established, VersionAt, SysprepAt
  <1>27. CASE Cut
    BY <1>27 DEF Cut, IInv, TypeOK, Established, VersionAt, SysprepAt
  <1>28. CASE Rerun
    <2>1. TypeOK'
      BY <1>28, MaxRunsAssumption DEF Rerun, IInv, TypeOK, VersionAt
    <2>2. Established'
      BY <1>28 DEF Rerun, IInv, TypeOK, Established
    <2>3. VersionAt'
      BY <1>28 DEF Rerun, IInv, TypeOK, VersionAt
    <2>4. SysprepAt'
      BY <1>28 DEF Rerun, IInv, TypeOK, Established, SysprepAt
    <2>5. pc' = "WriteAgentConfig" => "agentConfig" \notin facts'
      BY <1>28 DEF Rerun, IInv, TypeOK
    <2> QED
      BY <2>1, <2>2, <2>3, <2>4, <2>5 DEF IInv
  <1>29. CASE UNCHANGED vars
    BY <1>29 DEF vars, IInv, TypeOK, Established, VersionAt, SysprepAt
  <1> QED
    BY <1>1, <1>2, <1>3, <1>4, <1>5, <1>6, <1>7, <1>8, <1>9, <1>10, <1>11,
       <1>12, <1>13, <1>14, <1>15, <1>16, <1>17, <1>18, <1>19, <1>20,
       <1>21, <1>22, <1>23, <1>24, <1>25, <1>26, <1>27, <1>28, <1>29 DEF
       Next, Setup, PostReboot

(* What holds at each place of the scripts, on every run.                    *)
THEOREM Invariance == Spec => []IInv
  <1>1. IInv /\ [Next]_vars => IInv'
    BY StepInv
  <1> QED
    BY InitInv, <1>1, PTL DEF Spec

(* The machine that restarts will answer on WinRM, and is provisioned.       *)
THEOREM RestartProvisioned == Spec => []RestartIsProvisioned
  <1>1. IInv => RestartIsProvisioned
    BY DEF IInv, Established, RestartIsProvisioned
  <1> QED
    BY Invariance, <1>1, PTL

(* A stemcell lacks nothing but what its run let pass.                       *)
THEOREM StemcellComplete == Spec => []StemcellLacksOnlyMissed
  <1>1. IInv => StemcellLacksOnlyMissed
    BY DEF IInv, TypeOK, SysprepAt, StemcellLacksOnlyMissed
  <1> QED
    BY Invariance, <1>1, PTL

(* No run is stopped by, or passes on, the leftovers of an earlier run.      *)
THEOREM LeftoversCountNot == Spec => []LeftoversDoNotCount
  <1>1. IInv => LeftoversDoNotCount
    BY DEF IInv, VersionAt, LeftoversDoNotCount
  <1> QED
    BY Invariance, <1>1, PTL

-----------------------------------------------------------------------------
(* The scripts as Construct has them.                                        *)

Unseen == /\ SetupStage' = SetupStage /\ PostStage' = PostStage
          /\ SysprepStage' = SysprepStage /\ GuestPower' = GuestPower
          /\ WinRMIsUp' <=> WinRMIsUp
          /\ WinRMIsAuto' <=> WinRMIsAuto
          /\ HasRestarted' <=> HasRestarted
          /\ RestartFailed' <=> RestartFailed

(* There is one run, and Construct's functions of it hold its stages.        *)
LEMMA ByRun ==
  /\ 1 \in C!Runs /\ \A r \in C!Runs : r = 1
  /\ SetupByRun[1] = SetupStage /\ PostByRun[1] = PostStage
  /\ SysprepByRun[1] = SysprepStage
  /\ SetupByRun' = [SetupByRun EXCEPT ![1] = SetupStage']
  /\ PostByRun' = [PostByRun EXCEPT ![1] = PostStage']
  /\ SysprepByRun' = [SysprepByRun EXCEPT ![1] = SysprepStage']
<1>1. 1 \in C!Runs /\ \A r \in C!Runs : r = 1
  BY DEF C!Runs
<1>2. SetupByRun[1] = SetupStage /\ PostByRun[1] = PostStage /\ SysprepByRun[1] = SysprepStage
  BY DEF TheRun, SetupByRun, PostByRun, SysprepByRun
<1>3. SetupByRun' = [SetupByRun EXCEPT ![1] = SetupStage']
  BY DEF TheRun, SetupByRun
<1>4. PostByRun' = [PostByRun EXCEPT ![1] = PostStage']
  BY DEF TheRun, PostByRun
<1>5. SysprepByRun' = [SysprepByRun EXCEPT ![1] = SysprepStage']
  BY DEF TheRun, SysprepByRun
<1> QED
  BY <1>1, <1>2, <1>3, <1>4, <1>5

LEMMA OneRun ==
  ASSUME NEW u, NEW v
  PROVE  [r \in TheRun |-> v] = [[r \in TheRun |-> u] EXCEPT ![1] = v]
  BY DEF TheRun

LEMMA Kept ==
  /\ SetupStage' = SetupStage => SetupByRun' = SetupByRun
  /\ PostStage' = PostStage => PostByRun' = PostByRun
  /\ SysprepStage' = SysprepStage => SysprepByRun' = SysprepByRun
  BY DEF SetupByRun, PostByRun, SysprepByRun, TheRun

(* Boolean parts of the mapping, as equalities.                              *)
LEMMA KeptBooleans ==
  /\ (WinRMIsUp' <=> WinRMIsUp) => WinRMIsUp' = WinRMIsUp
  /\ (WinRMIsAuto' <=> WinRMIsAuto) => WinRMIsAuto' = WinRMIsAuto
  /\ (HasRestarted' <=> HasRestarted) => RebootedByRun' = RebootedByRun
  /\ (RestartFailed' <=> RestartFailed) => UnrestartedByRun' = UnrestartedByRun
<1>1. /\ WinRMIsUp \in BOOLEAN /\ WinRMIsUp' \in BOOLEAN
      /\ WinRMIsAuto \in BOOLEAN /\ WinRMIsAuto' \in BOOLEAN
      /\ HasRestarted \in BOOLEAN /\ HasRestarted' \in BOOLEAN
      /\ RestartFailed \in BOOLEAN /\ RestartFailed' \in BOOLEAN
  BY DEF WinRMIsUp, WinRMIsAuto, HasRestarted, RestartFailed
<1>2. /\ (WinRMIsUp' <=> WinRMIsUp) => WinRMIsUp' = WinRMIsUp
      /\ (WinRMIsAuto' <=> WinRMIsAuto) => WinRMIsAuto' = WinRMIsAuto
      /\ (HasRestarted' <=> HasRestarted) => HasRestarted' = HasRestarted
      /\ (RestartFailed' <=> RestartFailed) => RestartFailed' = RestartFailed
  BY <1>1
<1> QED
  BY <1>2 DEF RebootedByRun, UnrestartedByRun, TheRun

(* Nothing else of a script's guest shows in Construct.                      *)
LEMMA SeenIsAll == Unseen => UNCHANGED C!guest
  BY Kept, KeptBooleans DEF Unseen, C!guest

(* Whether the restart has taken place is settled by Restart-Computer alone. *)
LEMMA RestartIsSettled ==
  ASSUME IInv, Setup \/ PostReboot, pc # "RestartComputer"
  PROVE  /\ "restarted" \in facts' <=> "restarted" \in facts
         /\ "restarted" \in missed' <=> "restarted" \in missed
  BY DEF Setup, ValidateOSVersion, CheckDependencies, CopyPSModules, SetRegKeys, CopyAgent,
     WriteAgentConfig, InstallAgentService, InstallOpenSSH, ExtractLGPO,
     InstallSecurityPolicies, EnableSSHD, InstallCFFeatures, InstallWUCerts,
     CreateVersionFile, PostReboot, StartPostReboot, DisableServices, SetFirewall,
     DisableNetBIOS, CleanUpVM, GenerateRandomPassword, InvokeSysprep,
     EnableLocalSecurityPolicy, CreateUnattend, LastDism, RestartComputer

(* Within a stage a function of Setup.ps1 shows nowhere.                     *)
LEMMA SetupUnseen ==
  ASSUME IInv,
         \/ ValidateOSVersion \/ CheckDependencies \/ CopyPSModules \/ SetRegKeys
         \/ CopyAgent \/ WriteAgentConfig \/ InstallAgentService \/ InstallOpenSSH
         \/ ExtractLGPO \/ InstallSecurityPolicies \/ EnableSSHD \/ InstallWUCerts
         \/ CreateVersionFile,
         pc' # "SetupFailed"
  PROVE  Unseen
<1>1. /\ pc \in SetupSteps \ {"RestartComputer"} /\ pc' \in SetupSteps
      /\ pc \in Installed <=> pc' \in Installed
      /\ "winrmAuto" \in facts' <=> "winrmAuto" \in facts
      /\ sysprep' = sysprep
  BY DEF ValidateOSVersion, CheckDependencies, CopyPSModules, SetRegKeys, CopyAgent,
     WriteAgentConfig, InstallAgentService, InstallOpenSSH, ExtractLGPO,
     InstallSecurityPolicies, EnableSSHD, InstallWUCerts, CreateVersionFile, Installed
<1>2. "restarted" \in missed' <=> "restarted" \in missed
  BY <1>1, RestartIsSettled DEF Setup
<1> QED
  BY <1>1, <1>2 DEF Unseen, SetupStage, PostStage, SysprepStage, GuestPower, WinRMIsUp,
     WinRMIsAuto, HasRestarted, RestartFailed, Installed

(* A function of Setup.ps1 that throws is Construct's failing script.        *)
LEMMA SetupThrows ==
  ASSUME IInv, Setup, pc' = "SetupFailed"
  PROVE  C!SetupFails(1)
<1>1. /\ pc \in SetupSteps /\ pc # "RestartComputer"
      /\ "winrmAuto" \in facts' <=> "winrmAuto" \in facts
      /\ sysprep' = sysprep
  BY DEF Setup, ValidateOSVersion, CheckDependencies, CopyPSModules, SetRegKeys, CopyAgent,
     WriteAgentConfig, InstallAgentService, InstallOpenSSH, ExtractLGPO,
     InstallSecurityPolicies, EnableSSHD, InstallCFFeatures, InstallWUCerts,
     CreateVersionFile, RestartComputer
<1>2. sysprep = "no"
  BY <1>1 DEF IInv, SysprepAt
<1>3. "restarted" \in missed' <=> "restarted" \in missed
  BY <1>1, RestartIsSettled
<1>4. /\ SetupStage \in {"installing", "installed"} /\ SetupStage' = "exit1"
      /\ PostStage' = PostStage /\ SysprepStage' = SysprepStage
      /\ GuestPower = "on" /\ GuestPower' = "on"
      /\ WinRMIsUp' <=> WinRMIsUp
      /\ WinRMIsAuto' <=> WinRMIsAuto
      /\ HasRestarted' <=> HasRestarted
      /\ RestartFailed' <=> RestartFailed
  BY <1>1, <1>2, <1>3 DEF SetupStage, PostStage, SysprepStage, GuestPower, WinRMIsUp,
     WinRMIsAuto, HasRestarted, RestartFailed, Installed
<1> QED
  BY <1>4, ByRun, Kept, KeptBooleans DEF C!SetupFails, C!SetupRunning, C!client

(* InstallCFFeatures is the installation as Construct sees it.               *)
LEMMA SetupInstallsFeatures ==
  ASSUME IInv, InstallCFFeatures, pc' # "SetupFailed"
  PROVE  C!SetupInstalls(1)
<1>1. pc = "InstallCFFeatures" /\ pc' = "InstallWUCerts" /\ sysprep' = sysprep
  BY DEF InstallCFFeatures
<1>2. sysprep = "no" /\ "winrmAuto" \in facts'
  BY <1>1 DEF InstallCFFeatures, IInv, SysprepAt
<1>3. "restarted" \in missed' <=> "restarted" \in missed
  BY <1>1, RestartIsSettled DEF Setup
<1>4. /\ SetupStage = "installing" /\ SetupStage' = "installed"
      /\ PostStage' = PostStage /\ SysprepStage' = SysprepStage
      /\ GuestPower = "on" /\ GuestPower' = "on"
      /\ WinRMIsUp' <=> WinRMIsUp
      /\ WinRMIsAuto'
      /\ HasRestarted' <=> HasRestarted
      /\ RestartFailed' <=> RestartFailed
  BY <1>1, <1>2, <1>3 DEF SetupStage, PostStage, SysprepStage, GuestPower, WinRMIsUp,
     WinRMIsAuto, HasRestarted, RestartFailed, Installed
<1>5. WinRMIsAuto' = TRUE
  BY <1>4, Zenon DEF WinRMIsAuto
<1> QED
  BY <1>4, <1>5, ByRun, Kept, KeptBooleans DEF C!SetupInstalls, C!client

(* Restart-Computer is the restart that ends the setup, or the failure that  *)
(* ends it too.                                                              *)
LEMMA SetupEnds ==
  ASSUME IInv, RestartComputer
  PROVE  C!SetupRestarts(1) \/ C!SetupDoesNotRestart(1)
<1>1. /\ pc = "RestartComputer" /\ sysprep' = sysprep
      /\ "winrmAuto" \in facts' <=> "winrmAuto" \in facts
  BY DEF RestartComputer
<1>2. sysprep = "no"
  BY <1>1 DEF IInv, SysprepAt
<1>3. CASE pc' = "Restarted"
  <2>1. missed' = missed
    BY <1>3 DEF RestartComputer
  <2>2. /\ SetupStage = "installed" /\ SetupStage' = "exit0"
        /\ GuestPower = "on" /\ GuestPower' = "restarting"
        /\ PostStage = "none" /\ PostStage' = "none"
        /\ SysprepStage = "none" /\ SysprepStage' = "none"
        /\ WinRMIsUp' <=> WinRMIsUp
        /\ WinRMIsAuto' <=> WinRMIsAuto
        /\ HasRestarted' <=> HasRestarted
        /\ RestartFailed' <=> RestartFailed
    BY <1>1, <1>2, <1>3, <2>1 DEF SetupStage, PostStage, SysprepStage, GuestPower,
       WinRMIsUp, WinRMIsAuto, HasRestarted, RestartFailed, Installed
  <2>3. /\ SetupByRun' = [C!SetupsStop EXCEPT ![1] = "exit0"]
        /\ PostByRun' = [r \in C!Runs |-> IF PostByRun[r] \in C!PostRunning THEN "killed"
                                          ELSE PostByRun[r]]
        /\ SysprepByRun' = [r \in C!Runs |-> IF SysprepByRun[r] = "running"
                                             THEN "interrupted" ELSE SysprepByRun[r]]
    BY <2>2 DEF SetupByRun, PostByRun, SysprepByRun, C!SetupsStop, C!Runs, TheRun,
       C!PostRunning
  <2>4. C!EnableStops
    BY DEF C!EnableStops, C!Runs, TheRun
  <2> QED
    BY <2>2, <2>3, <2>4, ByRun, KeptBooleans DEF C!SetupRestarts, C!RestartGuest, C!client
<1>4. CASE pc' = "NotRestarted"
  <2>1. missed' = missed \cup ({"restarted"} \ facts) /\ facts' = facts
    BY <1>4 DEF RestartComputer
  <2>2. "restarted" \in missed'
    BY <1>1, <2>1 DEF IInv, Established
  <2>3. /\ SetupStage = "installed" /\ SetupStage' = "exit0"
        /\ GuestPower = "on" /\ GuestPower' = "on"
        /\ PostStage' = PostStage /\ SysprepStage' = SysprepStage
        /\ WinRMIsUp' <=> WinRMIsUp
        /\ WinRMIsAuto' <=> WinRMIsAuto
        /\ HasRestarted' <=> HasRestarted
        /\ RestartFailed'
    BY <1>1, <1>2, <1>4, <2>2 DEF SetupStage, PostStage, SysprepStage, GuestPower,
       WinRMIsUp, WinRMIsAuto, HasRestarted, RestartFailed, Installed
  <2>4. UnrestartedByRun' = [UnrestartedByRun EXCEPT ![1] = ~FALSE]
    <3>1. RestartFailed' = TRUE
      BY <2>3, Zenon DEF RestartFailed
    <3>2. UnrestartedByRun' = [r \in TheRun |-> TRUE]
      BY <3>1, Zenon DEF UnrestartedByRun, TheRun
    <3>3. [r \in TheRun |-> TRUE] = [UnrestartedByRun EXCEPT ![1] = TRUE]
      BY OneRun, Zenon DEF UnrestartedByRun
    <3>4. ~FALSE = TRUE
      OBVIOUS
    <3> QED
      BY <3>2, <3>3, <3>4, Zenon
  <2> QED
    BY <2>3, <2>4, ByRun, Kept, KeptBooleans DEF C!SetupDoesNotRestart, C!client
<1> QED
  BY <1>3, <1>4 DEF RestartComputer

(* Within a stage a function of PostReboot.ps1 shows nowhere.                *)
LEMMA PostUnseen ==
  ASSUME IInv,
         \/ SetFirewall \/ DisableNetBIOS
         \/ GenerateRandomPassword \/ InvokeSysprep \/ EnableLocalSecurityPolicy,
         pc' # "PostFailed"
  PROVE  Unseen
<1>1. /\ \/ pc = "SetFirewall" /\ pc' = "DisableNetBIOS"
         \/ pc = "DisableNetBIOS" /\ pc' = "CleanUpVM"
         \/ pc = "GenerateRandomPassword" /\ pc' = "InvokeSysprep"
         \/ pc = "InvokeSysprep" /\ pc' = "EnableLocalSecurityPolicy"
         \/ pc = "EnableLocalSecurityPolicy" /\ pc' = "CreateUnattend"
      /\ "winrmAuto" \in facts' <=> "winrmAuto" \in facts
      /\ "winrmOff" \in facts' <=> "winrmOff" \in facts
      /\ sysprep' = sysprep
  BY DEF SetFirewall, DisableNetBIOS, GenerateRandomPassword, InvokeSysprep,
     EnableLocalSecurityPolicy
<1>2. /\ "restarted" \in facts' <=> "restarted" \in facts
      /\ "restarted" \in missed' <=> "restarted" \in missed
  BY <1>1, RestartIsSettled DEF PostReboot
<1> QED
  BY <1>1, <1>2 DEF Unseen, SetupStage, PostStage, SysprepStage, GuestPower, WinRMIsUp,
     WinRMIsAuto, HasRestarted, RestartFailed, Installed

(* A function of PostReboot.ps1 that throws is Construct's failing script.   *)
LEMMA PostThrows ==
  ASSUME IInv, PostReboot, pc' = "PostFailed"
  PROVE  C!PostRebootFails(1)
<1>1. /\ pc \in PostSteps /\ sysprep' = sysprep
      /\ "winrmAuto" \in facts' <=> "winrmAuto" \in facts
      /\ "winrmOff" \in facts' <=> "winrmOff" \in facts
  BY DEF PostReboot, StartPostReboot, DisableServices, SetFirewall, DisableNetBIOS,
     CleanUpVM, GenerateRandomPassword, InvokeSysprep, EnableLocalSecurityPolicy,
     CreateUnattend, LastDism
<1>2. sysprep # "off" /\ (pc = "DisableServices" => "winrmOff" \notin facts)
  BY <1>1 DEF IInv, SysprepAt, Established
<1>3. /\ "restarted" \in facts' <=> "restarted" \in facts
      /\ "restarted" \in missed' <=> "restarted" \in missed
  BY <1>1, RestartIsSettled
<1>4. /\ PostStage \in {"cell", "cleanup", "sysprep", "dism"} /\ PostStage' = "exit2"
      /\ SetupStage' = SetupStage /\ SysprepStage' = SysprepStage
      /\ GuestPower = "on" /\ GuestPower' = "on"
      /\ WinRMIsUp' <=> WinRMIsUp
      /\ WinRMIsAuto' <=> WinRMIsAuto
      /\ HasRestarted' <=> HasRestarted
      /\ RestartFailed' <=> RestartFailed
  BY <1>1, <1>2, <1>3 DEF SetupStage, PostStage, SysprepStage, GuestPower, WinRMIsUp,
     WinRMIsAuto, HasRestarted, RestartFailed, Installed
<1> QED
  BY <1>4, ByRun, Kept, KeptBooleans DEF C!PostRebootFails, C!PostRunning, C!client

(* The services are what Construct's InstallCFCell turns off.                *)
LEMMA ServicesDisabled ==
  ASSUME IInv, DisableServices, pc' # "PostFailed"
  PROVE  C!InstallCFCell(1)
<1>1. /\ pc = "DisableServices" /\ pc' = "SetFirewall" /\ sysprep' = sysprep
      /\ "winrmAuto" \in facts' => "winrmAuto" \in facts
  BY DEF DisableServices
<1>2. sysprep = "no" /\ "winrmOff" \notin facts
  BY <1>1 DEF IInv, SysprepAt, Established
<1>3. /\ "restarted" \in facts' <=> "restarted" \in facts
      /\ "restarted" \in missed' <=> "restarted" \in missed
  BY <1>1, RestartIsSettled DEF PostReboot
<1>4. /\ PostStage = "cell" /\ PostStage' = "cleanup"
      /\ SetupStage' = SetupStage /\ SysprepStage' = SysprepStage
      /\ GuestPower = "on" /\ GuestPower' = "on"
      /\ WinRMIsUp' => WinRMIsUp
      /\ WinRMIsAuto' => WinRMIsAuto
      /\ HasRestarted' <=> HasRestarted
      /\ RestartFailed' <=> RestartFailed
  BY <1>1, <1>2, <1>3 DEF SetupStage, PostStage, SysprepStage, GuestPower, WinRMIsUp,
     WinRMIsAuto, HasRestarted, RestartFailed, Installed
<1>5. /\ WinRMIsUp' \in {WinRMIsUp, FALSE}
      /\ WinRMIsAuto' \in {WinRMIsAuto, FALSE}
  <2>1. /\ WinRMIsUp \in BOOLEAN /\ WinRMIsUp' \in BOOLEAN
        /\ WinRMIsAuto \in BOOLEAN /\ WinRMIsAuto' \in BOOLEAN
    BY DEF WinRMIsUp, WinRMIsAuto
  <2> QED
    BY <1>4, <2>1
<1> QED
  BY <1>4, <1>5, ByRun, Kept, KeptBooleans DEF C!InstallCFCell, C!client

(* The cleaned disk, the start of sysprep.exe and the end of the script are  *)
(* steps of Construct's script.                                              *)
LEMMA PostAdvances ==
  ASSUME IInv, CleanUpVM \/ CreateUnattend \/ LastDism, pc' # "PostFailed"
  PROVE  C!CleanUpVM(1) \/ C!SysprepVM(1) \/ C!PostRebootEnds(1)
<1>1. /\ \/ pc = "CleanUpVM" /\ pc' = "GenerateRandomPassword" /\ sysprep' = sysprep
         \/ pc = "CreateUnattend" /\ pc' = "LastDism" /\ sysprep' = "running"
         \/ pc = "LastDism" /\ pc' = "PostDone" /\ sysprep' = sysprep
      /\ "winrmAuto" \in facts' <=> "winrmAuto" \in facts
      /\ "winrmOff" \in facts' <=> "winrmOff" \in facts
  BY DEF CleanUpVM, CreateUnattend, LastDism
<1>2. /\ sysprep # "off"
      /\ pc # "LastDism" => sysprep = "no"
  BY <1>1 DEF IInv, SysprepAt
<1>3. /\ "restarted" \in facts' <=> "restarted" \in facts
      /\ "restarted" \in missed' <=> "restarted" \in missed
  BY <1>1, RestartIsSettled DEF PostReboot
<1>4. /\ SetupStage' = SetupStage
      /\ GuestPower = "on" /\ GuestPower' = "on"
      /\ WinRMIsUp' <=> WinRMIsUp
      /\ WinRMIsAuto' <=> WinRMIsAuto
      /\ HasRestarted' <=> HasRestarted
      /\ RestartFailed' <=> RestartFailed
  BY <1>1, <1>2, <1>3 DEF SetupStage, PostStage, GuestPower, WinRMIsUp,
     WinRMIsAuto, HasRestarted, RestartFailed, Installed
<1>5. \/ PostStage = "cleanup" /\ PostStage' = "sysprep" /\ SysprepStage' = SysprepStage
      \/ PostStage = "sysprep" /\ PostStage' = "dism" /\ SysprepStage' = "running"
      \/ PostStage = "dism" /\ PostStage' = "exit0" /\ SysprepStage' = SysprepStage
  BY <1>1, <1>2 DEF PostStage, SysprepStage
<1> QED
  BY <1>4, <1>5, ByRun, Kept, KeptBooleans
  DEF C!CleanUpVM, C!SysprepVM, C!PostRebootEnds, C!client

(* sysprep.exe powers the guest off under a script that still runs, or ends  *)
(* in an error that nobody reads.                                            *)
LEMMA SysprepEndsAsModelled ==
  ASSUME IInv, SysprepEnds
  PROVE  C!SysprepShutsDown(1) \/ C!SysprepFails(1)
<1>1. /\ sysprep = "running" /\ UNCHANGED <<facts, missed>>
      /\ pc \in {"LastDism", "PostDone", "PostFailed", "ShutDown"}
  BY DEF SysprepEnds, IInv, SysprepAt
<1>2. CASE sysprep' = "off" /\ pc' = IF pc = "LastDism" THEN "ShutDown" ELSE pc
  <2>1. /\ SetupStage = "exit0" /\ SetupStage' = "exit0"
        /\ PostStage' = IF PostStage = "dism" THEN "shutdown" ELSE PostStage
        /\ PostStage \in {"dism", "exit0", "exit2", "shutdown"}
        /\ SysprepStage = "running" /\ SysprepStage' = "done"
        /\ GuestPower = "on" /\ GuestPower' = "off"
        /\ WinRMIsUp' <=> WinRMIsUp
        /\ WinRMIsAuto' <=> WinRMIsAuto
        /\ HasRestarted' <=> HasRestarted
        /\ RestartFailed' <=> RestartFailed
    BY <1>1, <1>2 DEF SetupStage, PostStage, SysprepStage, GuestPower, WinRMIsUp,
       WinRMIsAuto, HasRestarted, RestartFailed, Installed
  <2>2. /\ SetupByRun' = C!SetupsStop
        /\ PostByRun' = [r \in C!Runs |-> IF PostByRun[r] \in C!PostRunning
                                          THEN "shutdown" ELSE PostByRun[r]]
        /\ SysprepByRun' = [q \in C!Runs |-> IF q = 1 THEN "done"
                                             ELSE IF SysprepByRun[q] = "running"
                                             THEN "shutdown" ELSE SysprepByRun[q]]
    BY <2>1 DEF SetupByRun, PostByRun, SysprepByRun, C!SetupsStop, C!Runs, TheRun,
       C!PostRunning, C!SetupRunning
  <2>3. C!EnableStops
    BY DEF C!EnableStops, C!Runs, TheRun
  <2> QED
    BY <2>1, <2>2, <2>3, ByRun, KeptBooleans DEF C!SysprepShutsDown, C!GuestGoesOff, C!client
<1>3. CASE sysprep' = "failed" /\ pc' = pc
  <2>1. /\ SysprepStage = "running" /\ SysprepStage' = "failed"
        /\ SetupStage' = SetupStage /\ PostStage' = PostStage
        /\ GuestPower = "on" /\ GuestPower' = "on"
        /\ WinRMIsUp' <=> WinRMIsUp
        /\ WinRMIsAuto' <=> WinRMIsAuto
        /\ HasRestarted' <=> HasRestarted
        /\ RestartFailed' <=> RestartFailed
    BY <1>1, <1>3 DEF SetupStage, PostStage, SysprepStage, GuestPower, WinRMIsUp,
       WinRMIsAuto, HasRestarted, RestartFailed, Installed
  <2> QED
    BY <2>1, ByRun, Kept, KeptBooleans DEF C!SysprepFails, C!client
<1> QED
  BY <1>2, <1>3 DEF SysprepEnds

(* What the scripts do is what the workstation is modelled with.             *)
THEOREM ScriptsRefineConstruct == Spec => ScriptsAreConstructs
<1>1. IInv /\ [Next]_vars =>
        [StartPostReboot \/ Cut \/ Rerun \/ C!Guest \/ UNCHANGED C!guest]_vars
  <2> SUFFICES ASSUME IInv, Next
               PROVE  StartPostReboot \/ Cut \/ Rerun \/ C!Guest \/ UNCHANGED C!guest
    OBVIOUS
  <2>1. C!SetupInstalls(1) \/ C!SetupFails(1) \/ C!SetupRestarts(1)
        \/ C!SetupDoesNotRestart(1) \/ C!InstallCFCell(1) \/ C!CleanUpVM(1)
        \/ C!SysprepVM(1) \/ C!PostRebootEnds(1) \/ C!PostRebootFails(1)
        \/ C!SysprepShutsDown(1) \/ C!SysprepFails(1) => C!Guest
    BY ByRun, Zenon DEF C!Guest
  <2>2. CASE Setup
    BY <2>1, <2>2, SetupUnseen, SeenIsAll, SetupThrows, SetupInstallsFeatures,
       SetupEnds, Zenon DEF Setup
  <2>3. CASE PostReboot
    BY <2>1, <2>3, PostUnseen, SeenIsAll, PostThrows, ServicesDisabled, PostAdvances,
       Zenon DEF PostReboot
  <2>4. CASE SysprepEnds
    BY <2>1, <2>4, SysprepEndsAsModelled, Zenon
  <2> QED
    BY <2>2, <2>3, <2>4 DEF Next
<1> QED
  BY Invariance, <1>1, PTL DEF Spec, ScriptsAreConstructs
=============================================================================
