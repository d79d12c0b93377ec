------------------------------ MODULE Provision ------------------------------
(* What the scripts stembuild runs on the guest leave on it: Setup.ps1 (with *)
(* ProvisionVM.ps1), a restart, PostReboot.ps1, and sysprep.exe, which       *)
(* PostReboot.ps1 starts without waiting for it (src/stemcell-automation,    *)
(* src/modules).  Construct.tla has the program that runs the scripts; here  *)
(* a run is what one `stembuild construct` makes of the guest, and a later   *)
(* run works on what the failed ones left.                                   *)
(*                                                                           *)
(* One action per function of ProvisionVM and PostReboot.  The guest is the  *)
(* set of facts they establish.  A function can fail in two ways, and which  *)
(* of them is open to it is what PowerShell makes of its code:               *)
(*   Throw   - the script stops, with exit code 1 (Setup) or 2 (PostReboot): *)
(*             throw, a .NET exception, any error under                      *)
(*             $ErrorActionPreference = "Stop" (BOSH.Agent,                  *)
(*             Install-CFFeatures2016);                                      *)
(*   Unheard - the error is printed and the script goes on: a cmdlet's       *)
(*             non-terminating error elsewhere, an exit code nobody reads,   *)
(*             Write-Error.                                                  *)
(* RunQuickerDism -IgnoreErrors changes none of the facts and has no action. *)
EXTENDS Integers, FiniteSets

CONSTANT MaxRuns   \* how often the user runs construct on this machine

ASSUME MaxRunsAssumption == MaxRuns \in Nat \ {0}

VARIABLES
  pc,        \* the next function of the script, or how the script ended
  run,       \* the number of the run
  facts,     \* what holds of the guest
  versionFile, \* the run whose version stemcell_version holds, 0: no file
  missed,    \* what this run failed to establish without stopping, and no
             \* earlier run had established
  sysprep    \* "no", "running", "failed", or "off": generalized, powered off

vars == <<pc, run, facts, versionFile, missed, sysprep>>

(* What a stemcell is to have; sshdAuto is the start type of sshd, sshOpen   *)
(* the firewall rule and the rights it needs, restarted a restart since this *)
(* run's setup, firewall the default actions of the profiles, firewallOn     *)
(* that they are enabled, cis the local security policy.                     *)
Wanted == {"modules", "regKeys", "agent", "agentConfig", "agentService", "sshd",
           "lgpo", "iePolicies", "sshOpen", "sshdAuto", "features", "restarted",
           "winrmOff", "rdpOff", "firewall", "firewallOn", "netbiosOff", "clean",
           "cis", "unattend"}

Facts == Wanted \cup {"winrmAuto"}

(* What the code lets pass when it fails.                                    *)
Ignorable == {"regKeys", "agentService", "sshd", "lgpo", "sshOpen", "sshdAuto",
              "restarted", "winrmOff", "rdpOff", "firewallOn", "netbiosOff",
              "clean", "cis", "unattend", "version"}

SetupSteps == {"ValidateOSVersion", "CheckDependencies", "CopyPSModules",
               "SetRegKeys", "CopyAgent", "WriteAgentConfig",
               "InstallAgentService", "InstallOpenSSH", "ExtractLGPO",
               "InstallSecurityPolicies", "EnableSSHD", "InstallCFFeatures",
               "InstallWUCerts", "CreateVersionFile", "RestartComputer"}

PostSteps == {"DisableServices", "SetFirewall", "DisableNetBIOS", "CleanUpVM",
              "GenerateRandomPassword", "InvokeSysprep",
              "EnableLocalSecurityPolicy", "CreateUnattend", "LastDism"}

(* Setup.ps1 has ended with success.                                         *)
SetupDone == {"Restarted", "NotRestarted"}

Ends == SetupDone
          \cup {"SetupFailed", "PostFailed", "PostDone", "Cut", "ShutDown"}

Init ==
  /\ pc = "ValidateOSVersion"
  /\ run = 1
  /\ facts \in {{}, {"winrmAuto"}}
  /\ versionFile = 0
  /\ missed = {}
  /\ sysprep = "no"

-----------------------------------------------------------------------------
At(step) == pc = step

Goto(step) == pc' = step

Does(fs) == facts' = facts \cup fs /\ missed' = missed

Unheard(fs) == facts' = facts /\ missed' = missed \cup (fs \ facts)

Untouched == UNCHANGED <<facts, missed>>

(* The catch of Setup.ps1 and of PostReboot.ps1.                             *)
Throw == pc' = IF pc \in SetupSteps THEN "SetupFailed" ELSE "PostFailed"

Rest == UNCHANGED <<run, versionFile, sysprep>>

-----------------------------------------------------------------------------
(* Setup.ps1                                                                 *)

ValidateOSVersion ==
  /\ At("ValidateOSVersion")
  /\ Goto("CheckDependencies") \/ Throw
  /\ Untouched /\ Rest

CheckDependencies ==
  /\ At("CheckDependencies")
  /\ Goto("CopyPSModules") \/ Throw
  /\ Untouched /\ Rest

CopyPSModules ==
  /\ At("CopyPSModules")
  /\ \/ Goto("SetRegKeys") /\ Does({"modules"})
     \/ Throw /\ Untouched
  /\ Rest

SetRegKeys ==
  /\ At("SetRegKeys")
  /\ \/ Goto("CopyAgent") /\ (Does({"regKeys"}) \/ Unheard({"regKeys"}))
     \/ Throw /\ Untouched
  /\ Rest

(* A bug: only C:\bosh is wiped.                                             *)
CopyAgentKeepsVar ==
  /\ At("CopyAgent")
  /\ \/ /\ Goto("WriteAgentConfig")
        /\ facts' = (facts \ {"agentConfig"}) \cup {"agent"}
     \/ /\ Throw
        /\ \E lost \in SUBSET {"agent", "agentConfig"} : facts' = facts \ lost
  /\ UNCHANGED <<missed>> /\ Rest

(* Wipes C:\bosh, then C:\var with the version file, then unpacks the agent. *)
(* An error can stop it half-way.                                            *)
CopyAgent ==
  /\ At("CopyAgent")
  /\ \/ /\ Goto("WriteAgentConfig")
        /\ facts' = (facts \ {"agentConfig"}) \cup {"agent"}
        /\ versionFile' = 0
     \/ /\ Throw
        /\ \E lost \in SUBSET {"agent", "agentConfig"} : facts' = facts \ lost
        /\ versionFile' \in {versionFile, 0}
  /\ UNCHANGED <<run, missed, sysprep>>

(* New-Item without -Force, under "Stop": an agent.json that exists throws.  *)
WriteAgentConfig ==
  /\ At("WriteAgentConfig")
  /\ \/ /\ "agentConfig" \notin facts
        /\ Goto("InstallAgentService") /\ Does({"agentConfig"})
     \/ Throw /\ Untouched
  /\ Rest

(* The exit code of service_wrapper.exe is not read; Protect-Dir throws.     *)
InstallAgentService ==
  /\ At("InstallAgentService")
  /\ Goto("InstallOpenSSH") \/ Throw
  /\ Does({"agentService"}) \/ Unheard({"agentService"})
  /\ Rest

(* install-sshd.ps1 is another process, its exit code is not read.  The      *)
(* service is left disabled.                                                 *)
InstallOpenSSH ==
  /\ At("InstallOpenSSH")
  /\ \/ /\ Goto("ExtractLGPO")
        /\ \E ok \in SUBSET {"sshd"}, lost \in SUBSET {"sshdAuto"} :
             /\ facts' = (facts \ lost) \cup ok
             /\ missed' = missed \cup ({"sshd"} \ facts')
     \/ Throw /\ Untouched
  /\ Rest

ExtractLGPO ==
  /\ At("ExtractLGPO")
  /\ \/ Goto("InstallSecurityPolicies") /\ (Does({"lgpo"}) \/ Unheard({"lgpo"}))
     \/ Throw /\ Untouched
  /\ Rest

(* A bug: the policies' errors are not read.                                 *)
InstallSecurityPoliciesUnread ==
  /\ At("InstallSecurityPolicies")
  /\ Goto("EnableSSHD")
  /\ \/ "lgpo" \in facts /\ Does({"iePolicies"})
     \/ Unheard({"iePolicies"})
  /\ Rest

(* Set-InternetExplorerRegistries reads LGPO's exit code after each call.    *)
InstallSecurityPolicies ==
  /\ At("InstallSecurityPolicies")
  /\ \/ "lgpo" \in facts /\ Goto("EnableSSHD") /\ Does({"iePolicies"})
     \/ Throw /\ Untouched
  /\ Rest

(* Without LGPO.exe the rights are assumed to be sufficient; LGPO's exit     *)
(* code and Set-Service's errors go unread.                                  *)
EnableSSHD ==
  /\ At("EnableSSHD")
  /\ \/ /\ Goto("InstallCFFeatures")
        /\ \E ok \in SUBSET {"sshOpen", "sshdAuto"} :
             /\ "sshOpen" \in ok => "lgpo" \in facts
             /\ "sshdAuto" \in ok => "sshd" \in facts
             /\ facts' = facts \cup ok
             /\ missed' = missed \cup ({"sshOpen", "sshdAuto"} \ facts')
     \/ Throw /\ Untouched
  /\ Rest

InstallCFFeatures ==
  /\ At("InstallCFFeatures")
  /\ \/ /\ Goto("InstallWUCerts")
        /\ facts' = (facts \ {"winrmOff"}) \cup {"features", "winrmAuto"}
     \/ Throw /\ facts' \in {facts, facts \cup {"features"}}
  /\ UNCHANGED missed /\ Rest

(* ProvisionVM catches this one itself: no step relies on the certificates.  *)
InstallWUCerts ==
  /\ At("InstallWUCerts")
  /\ Goto("CreateVersionFile")
  /\ Untouched /\ Rest

(* New-Item without -Force: a file that exists stays as it is, unheard.  An  *)
(* empty version throws.                                                     *)
CreateVersionFile ==
  /\ At("CreateVersionFile")
  /\ \/ /\ Goto("RestartComputer") /\ versionFile = 0 /\ versionFile' = run
        /\ Untouched
     \/ /\ Goto("RestartComputer") /\ Unheard({"version"})
        /\ UNCHANGED versionFile
     \/ Throw /\ Untouched /\ UNCHANGED versionFile
  /\ UNCHANGED <<run, sysprep>>

(* Restart-Computer's error is printed, and the script ends with success on  *)
(* a guest that stays up.                                                    *)
RestartComputer ==
  /\ At("RestartComputer")
  /\ \/ Goto("Restarted") /\ Does({"restarted"})
     \/ Goto("NotRestarted") /\ Unheard({"restarted"})
  /\ Rest

-----------------------------------------------------------------------------
(* PostReboot.ps1                                                            *)

(* construct cannot tell the two apart: its check accepts any guest that     *)
(* accepts a restart.                                                        *)
StartPostReboot ==
  /\ pc \in SetupDone
  /\ Goto("DisableServices")
  /\ Untouched /\ Rest

(* InstallCFCell is Protect-CFCell, in four steps.  It asks for the WinRM    *)
(* configuration first, which throws; the rest of this step, WinRM, W3Svc    *)
(* and RDP, does not.                                                        *)
DisableServices ==
  /\ At("DisableServices")
  /\ \/ /\ Goto("SetFirewall")
        /\ \E ok \in SUBSET {"winrmOff", "rdpOff"} :
             /\ facts' = ok \cup IF "winrmOff" \in ok THEN facts \ {"winrmAuto"}
                                                     ELSE facts
             /\ missed' = missed \cup ({"winrmOff", "rdpOff"} \ facts')
     \/ Throw /\ Untouched
  /\ Rest

(* A bug: what the firewall was set to is not checked.                       *)
SetFirewallUnchecked ==
  /\ At("SetFirewall")
  /\ Goto("DisableNetBIOS")
  /\ Does({"firewall", "firewallOn"}) \/ Unheard({"firewallOn"})
  /\ Rest

(* Each profile is read back, but only its default actions are compared, not *)
(* whether it is enabled: an error of Set-NetFirewallProfile stops nothing.  *)
SetFirewall ==
  /\ At("SetFirewall")
  /\ \/ /\ Goto("DisableNetBIOS")
        /\ \E ok \in SUBSET {"firewallOn"} :
             /\ facts' = facts \cup {"firewall"} \cup ok
             /\ missed' = missed \cup ({"firewallOn"} \ facts')
     \/ Throw /\ facts' \in {facts, facts \cup {"firewallOn"}} /\ UNCHANGED missed
  /\ Rest

(* WMIC's exit codes and the rules' errors go unread, and Defender's, which  *)
(* comes after it.                                                           *)
DisableNetBIOS ==
  /\ At("DisableNetBIOS")
  /\ \/ Goto("CleanUpVM") /\ (Does({"netbiosOff"}) \/ Unheard({"netbiosOff"}))
     \/ Throw /\ Untouched
  /\ Rest

(* Optimize-Disk and Compress-Disk: Dism's exit codes and the writing of     *)
(* zero.tmp throw; Uninstall-WindowsFeature, defrag and the removal of       *)
(* zero.tmp fail unheard.                                                    *)
CleanUpVM ==
  /\ At("CleanUpVM")
  /\ \/ Goto("GenerateRandomPassword") /\ (Does({"clean"}) \/ Unheard({"clean"}))
     \/ Throw /\ Untouched
  /\ Rest

(* Throws after 200 invalid ones; -SkipRandomPassword passes it by.          *)
GenerateRandomPassword ==
  /\ At("GenerateRandomPassword")
  /\ Goto("InvokeSysprep") \/ Throw
  /\ Untouched /\ Rest

(* Allow-NTPSync, then LGPO.exe has to be there.                             *)
InvokeSysprep ==
  /\ At("InvokeSysprep")
  /\ \/ "lgpo" \in facts /\ Goto("EnableLocalSecurityPolicy")
     \/ Throw
  /\ Untouched /\ Rest

(* LGPO's exit codes are read, for a Write-Error.                            *)
EnableLocalSecurityPolicy ==
  /\ At("EnableLocalSecurityPolicy")
  /\ \/ Goto("CreateUnattend") /\ (Does({"cis"}) \/ Unheard({"cis"}))
     \/ Throw /\ Untouched
  /\ Rest

(* The file, then sysprep.exe, which returns to the script at once.          *)
CreateUnattend ==
  /\ At("CreateUnattend")
  /\ \/ /\ Goto("LastDism")
        /\ Does({"unattend"}) \/ Unheard({"unattend"})
        /\ sysprep' = "running"
     \/ Throw /\ Untouched /\ UNCHANGED sysprep
  /\ UNCHANGED <<run, versionFile>>

(* The RunQuickerDism after SysprepVM does not ignore its error.             *)
LastDism ==
  /\ At("LastDism")
  /\ Goto("PostDone") \/ Throw
  /\ Untouched /\ Rest

-----------------------------------------------------------------------------
(* sysprep.exe /shutdown, an error if its answer file is not there.          *)
SysprepEnds ==
  /\ sysprep = "running"
  /\ \/ /\ "unattend" \in facts
        /\ sysprep' = "off" /\ pc' = IF At("LastDism") THEN "ShutDown" ELSE pc
     \/ sysprep' = "failed" /\ UNCHANGED pc
  /\ UNCHANGED <<run, facts, versionFile, missed>>

(* The guest goes down under the script: a power cut, a restart.             *)
Cut ==
  /\ pc \in SetupSteps \cup PostSteps
  /\ pc' = "Cut"
  /\ sysprep' = IF sysprep = "running" THEN "failed" ELSE sysprep
  /\ UNCHANGED <<run, facts, versionFile, missed>>

(* A new run on a machine that is on, with no sysprep at work.  stembuild    *)
(* first enables WinRM, `winrm quickconfig` with its errors only logged.     *)
Rerun ==
  /\ run < MaxRuns
  /\ pc \in Ends /\ sysprep \in {"no", "failed"}
  /\ pc' = "ValidateOSVersion"
  /\ run' = run + 1
  /\ facts' \in {facts \ {"restarted"},
                 (facts \ {"restarted", "winrmOff"}) \cup {"winrmAuto"}}
  /\ missed' = {}
  /\ sysprep' = "no"
  /\ UNCHANGED versionFile

Setup ==
  \/ ValidateOSVersion \/ CheckDependencies \/ CopyPSModules \/ SetRegKeys
  \/ CopyAgent \/ WriteAgentConfig \/ InstallAgentService \/ InstallOpenSSH
  \/ ExtractLGPO \/ InstallSecurityPolicies \/ EnableSSHD \/ InstallCFFeatures
  \/ InstallWUCerts \/ CreateVersionFile \/ RestartComputer

PostReboot ==
  \/ StartPostReboot \/ DisableServices \/ SetFirewall \/ DisableNetBIOS
  \/ CleanUpVM \/ GenerateRandomPassword \/ InvokeSysprep
  \/ EnableLocalSecurityPolicy \/ CreateUnattend \/ LastDism

Next == Setup \/ PostReboot \/ SysprepEnds \/ Cut \/ Rerun

Spec == Init /\ [][Next]_vars

-----------------------------------------------------------------------------
(* Where the script must still go on having established something.           *)
AfterSysprep == {"LastDism", "PostDone", "ShutDown"}

AfterServices == (PostSteps \ {"DisableServices"}) \cup AfterSysprep

AfterSetup == SetupDone \cup {"DisableServices"} \cup AfterServices

AfterFeatures == {"InstallWUCerts", "CreateVersionFile", "RestartComputer"}
                 \cup AfterSetup

AfterPolicies == {"EnableSSHD", "InstallCFFeatures"} \cup AfterFeatures

(* Types.                                                                    *)
TypeOK ==
  /\ pc \in SetupSteps \cup PostSteps \cup Ends
  /\ run \in 1..MaxRuns
  /\ facts \subseteq Facts
  /\ versionFile \in 0..run
  /\ missed \subseteq Ignorable
  /\ sysprep \in {"no", "running", "failed", "off"}

(* Setup.ps1 only restarts, or fails to, a guest that answers after it -     *)
(* WinRM starts with the machine, whatever an earlier PostReboot.ps1         *)
(* disabled - and that has everything the steps after the restart and the    *)
(* stemcell rely on; the errors Extract-LGPO lets pass are caught by the     *)
(* step after it.                                                            *)
RestartIsProvisioned ==
  pc \in SetupDone =>
    /\ {"modules", "agent", "agentConfig", "lgpo", "iePolicies", "features",
        "winrmAuto"} \subseteq facts
    /\ "winrmOff" \notin facts

(* No step undoes what an earlier one did: a powered-off stemcell lacks only *)
(* what this run was told about and let pass, and never the agent, the       *)
(* modules, the policies, the features or the firewall's default actions.    *)
(* WinRM does not start with it, unless it could not be disabled.            *)
StemcellLacksOnlyMissed ==
  sysprep = "off" =>
    /\ Wanted \ facts \subseteq missed \cap Ignorable
    /\ "winrmAuto" \in facts => "winrmOff" \in missed

(* What an earlier run left neither stops a run nor passes for its own:      *)
(* agent.json, written without -Force, is gone by the time this run's is     *)
(* (BOSH.Agent.psm1:204), and from the restart on the version file, written  *)
(* without -Force too, is this run's, or it could not write it and there is  *)
(* none.                                                                     *)
LeftoversDoNotCount ==
  /\ pc = "WriteAgentConfig" => "agentConfig" \notin facts
  /\ pc \in AfterSetup => \/ versionFile = run
                          \/ versionFile = 0 /\ "version" \in missed

-----------------------------------------------------------------------------
(* The inductive invariant: what holds at each place of the scripts.  A      *)
(* finding a step did not stop for is in missed until the next run.          *)
Told(f) == f \in facts \cup missed

Established ==
  /\ pc \in {"SetRegKeys", "CopyAgent", "WriteAgentConfig", "InstallAgentService",
             "InstallOpenSSH", "ExtractLGPO", "InstallSecurityPolicies"}
            \cup AfterPolicies => "modules" \in facts
  /\ pc \in {"CopyAgent", "WriteAgentConfig", "InstallAgentService",
             "InstallOpenSSH", "ExtractLGPO", "InstallSecurityPolicies"}
            \cup AfterPolicies => Told("regKeys")
  /\ pc \in {"WriteAgentConfig", "InstallAgentService", "InstallOpenSSH",
             "ExtractLGPO", "InstallSecurityPolicies"} \cup AfterPolicies =>
       "agent" \in facts
  /\ pc \in {"InstallAgentService", "InstallOpenSSH", "ExtractLGPO",
             "InstallSecurityPolicies"} \cup AfterPolicies =>
       "agentConfig" \in facts
  /\ pc \in {"InstallOpenSSH", "ExtractLGPO", "InstallSecurityPolicies"}
            \cup AfterPolicies => Told("agentService")
  /\ pc \in {"ExtractLGPO", "InstallSecurityPolicies"} \cup AfterPolicies =>
       Told("sshd")
  /\ pc \in AfterPolicies => {"lgpo", "iePolicies"} \subseteq facts
  /\ pc \in {"InstallCFFeatures"} \cup AfterFeatures =>
       Told("sshOpen") /\ Told("sshdAuto")
  /\ pc \in AfterFeatures => "features" \in facts
  /\ pc \in SetupSteps => "restarted" \notin facts
  /\ pc \in AfterSetup => Told("restarted")
  /\ pc \in AfterFeatures \ AfterServices =>
       "winrmAuto" \in facts /\ "winrmOff" \notin facts
  /\ pc \in AfterServices =>
       /\ Told("winrmOff") /\ Told("rdpOff")
       /\ "winrmAuto" \in facts => "winrmOff" \in missed
  /\ pc \in AfterServices \ {"SetFirewall"} =>
       "firewall" \in facts /\ Told("firewallOn")
  /\ pc \in AfterServices \ {"SetFirewall", "DisableNetBIOS"} => Told("netbiosOff")
  /\ pc \in AfterServices \ {"SetFirewall", "DisableNetBIOS", "CleanUpVM"} =>
       Told("clean")
  /\ pc \in {"CreateUnattend"} \cup AfterSysprep => Told("cis")
  /\ pc \in AfterSysprep => Told("unattend")

VersionAt ==
  /\ pc \in {"WriteAgentConfig", "InstallAgentService", "InstallOpenSSH",
             "ExtractLGPO", "InstallSecurityPolicies", "EnableSSHD",
             "InstallCFFeatures", "InstallWUCerts", "CreateVersionFile"} =>
       versionFile = 0
  /\ pc \in {"RestartComputer"} \cup AfterSetup =>
       \/ versionFile = run
       \/ versionFile = 0 /\ "version" \in missed

(* The end of sysprep can come after the script's: what the stemcell has     *)
(* does not depend on how the last Dism ended.                               *)
SysprepAt ==
  /\ sysprep \in {"running", "off"} =>
       /\ pc \in {"LastDism", "PostDone", "PostFailed", "ShutDown"}
       /\ Wanted \ facts \subseteq missed
       /\ "winrmAuto" \in facts => "winrmOff" \in missed
  /\ pc \in SetupSteps \cup SetupDone \cup (PostSteps \ {"LastDism"}) =>
       sysprep = "no"
  /\ pc = "LastDism" => sysprep # "off"

IInv ==
  /\ TypeOK
  /\ Established
  /\ VersionAt
  /\ SysprepAt
  /\ pc = "WriteAgentConfig" => "agentConfig" \notin facts
=============================================================================
