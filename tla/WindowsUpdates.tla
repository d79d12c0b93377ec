--------------------------- MODULE WindowsUpdates ---------------------------
(***************************************************************************)
(* BOSH.WindowsUpdates: the script that installs Windows updates in         *)
(* batches, across as many restarts as they ask for.  Before a restart it   *)
(* registers a task that runs it again at the next logon, which autologon    *)
(* provides; WinRM is disabled by Wait-WindowsUpdates meanwhile, and is      *)
(* enabled again for whoever waits for the end of it all.                   *)
(*                                                                         *)
(* Restart-Computer returns at once: the script runs on until the restart   *)
(* kills it.  Script variables are lost with it; the machine's registry,    *)
(* tasks, services, downloaded and installed updates are not.               *)
(*                                                                         *)
(* None of the commands that change the machine ends the script when it     *)
(* fails: their errors are not terminating, and Enable-WinRM logs a failing *)
(* winrm or netsh and goes on.  unheard names those that did not have their *)
(* effect when they were called last.                                       *)
(***************************************************************************)
EXTENDS Naturals, FiniteSets

CONSTANTS
  Updates,             \* offered to this machine
  CanRequestUserInput, \* those the script does not download
  NeedsRestart,        \* those whose installation asks for a restart
  MaxUpdatesPerCycle,  \* 500 in the code
  MaxCycles,           \* 5 in the code
  AutoLogonCount,      \* 50 in the code
  MaxFaults            \* failing searches, listings, downloads (a bound)

ASSUME UpdatesAssumption ==
  /\ IsFiniteSet(Updates)
  /\ CanRequestUserInput \subseteq Updates /\ NeedsRestart \subseteq Updates
ASSUME LimitsAssumption ==
  /\ MaxUpdatesPerCycle \in Nat /\ MaxCycles \in Nat
  /\ AutoLogonCount \in Nat /\ MaxFaults \in Nat

VARIABLES
  pc,
  restart,          \* Restart-Computer has been called
  task,             \* the task "InstallWindowsUpdates" is registered
  autologon,        \* logons left, 0 when AutoAdminLogon is 0
  winrm,            \* WinRM is enabled
  wusa,             \* the out-of-band patch and the wusa.exe that installs it
  downloaded,
  installed,
  searchResult, moreUpdates, restartRequired, cycles, cycleUpdateCount,
  toDownload,       \* this batch's UpdatesToDownload
  caller,           \* of Get-UpdateBatch: "install" or "reboot"
  verdict,          \* how the script ended
  faults,
  unheard           \* commands that failed without anybody hearing (history)

script  == <<searchResult, moreUpdates, restartRequired, cycles, cycleUpdateCount,
             toDownload, caller>>
machine == <<restart, task, autologon, winrm, downloaded, installed>>
events  == <<wusa, unheard>>
vars    == <<pc, script, machine, events, verdict, faults>>

Phase == {"fresh", "call", "search", "show", "showFailed", "gotBatch", "invoke",
          "select", "download", "install", "enableWinRM", "disableAutologon",
          "ended", "boot"}

TypeOK ==
  /\ pc \in Phase
  /\ restart \in BOOLEAN /\ task \in BOOLEAN /\ winrm \in BOOLEAN
  /\ autologon \in 0 .. AutoLogonCount
  /\ downloaded \subseteq Updates /\ installed \subseteq Updates
  /\ searchResult \subseteq Updates /\ toDownload \subseteq searchResult \ downloaded
  /\ moreUpdates \in {0, 1} /\ restartRequired \in {0, 1}
  /\ cycles \in 0 .. MaxCycles + 1
  /\ cycleUpdateCount \in 0 .. MaxUpdatesPerCycle
  /\ caller \in {"install", "reboot"}
  /\ verdict \in {"none", "restarting", "nothing", "exceeded", "done"}
  /\ faults \in 0 .. MaxFaults
  /\ wusa \in {"absent", "running", "over", "restarted"}
  /\ unheard \subseteq {"autologon", "winrm", "register", "unregister", "restart", "wusa"}

Init ==
  /\ pc = "fresh"
  /\ restart = FALSE /\ task = FALSE /\ autologon = 0 /\ winrm = TRUE
  /\ downloaded \in SUBSET Updates /\ installed = {}
  /\ searchResult = {} /\ moreUpdates = 0 /\ restartRequired = 0
  /\ cycles = 0 /\ cycleUpdateCount = 0 /\ toDownload = {}
  /\ caller = "install" /\ verdict = "none" /\ faults = 0
  /\ wusa = "absent" /\ unheard = {}

Fault == faults < MaxFaults /\ faults' = faults + 1

Goto(phase) == pc' = phase /\ UNCHANGED <<verdict, faults>>

(* What is left unheard once a command has been called.                     *)
Called(what, effective, before) ==
  IF effective THEN before \ {what} ELSE before \union {what}

Call(what, effective) == unheard' = Called(what, effective, unheard)

-----------------------------------------------------------------------------

(* Enable-Autologon and disable-service.                                    *)
WaitWindowsUpdates ==
  /\ pc = "fresh"
  /\ autologon' \in {0, AutoLogonCount} /\ winrm' \in {winrm, FALSE}
  /\ Call("autologon", autologon' = AutoLogonCount)
  /\ Goto("call")
  /\ UNCHANGED <<script, restart, task, downloaded, installed, wusa>>

(* Called by the operator, or by the task at a logon.  A patch that is not  *)
(* on the disk is fetched, which may fail, and given to wusa.exe, which     *)
(* nobody waits for.                                                        *)
InstallWindowsUpdates ==
  /\ pc = "call"
  /\ searchResult' = {} /\ moreUpdates' = 0 /\ restartRequired' = 0
  /\ cycles' = 0 /\ cycleUpdateCount' = 0 /\ toDownload' = {} /\ caller' = "install"
  /\ pc' = "search" /\ verdict' = "none"
  /\ wusa' \in IF wusa = "absent" THEN {"absent", "running", "over"} ELSE {wusa}
  /\ UNCHANGED <<machine, faults, unheard>>

(* Get-UpdateBatch: after twelve failures the last result stays as it was.  *)
Search ==
  /\ pc = "search"
  /\ pc' = "show"
  /\ \/ searchResult' = Updates \ installed /\ UNCHANGED faults
     \/ Fault /\ UNCHANGED searchResult
  /\ toDownload' = {}
  /\ UNCHANGED <<moreUpdates, restartRequired, cycles, cycleUpdateCount, caller,
                 machine, events, verdict>>

Show ==
  /\ pc = "show"
  /\ \/ /\ searchResult = {}
        /\ moreUpdates' = 0 /\ restartRequired' = 0
        /\ Goto("gotBatch")
     \/ /\ searchResult # {}
        /\ moreUpdates' = 1 /\ UNCHANGED restartRequired
        /\ Goto("gotBatch")
     \/ /\ searchResult # {} /\ Fault
        /\ moreUpdates' = 0 /\ restartRequired' = 1
        /\ pc' = "showFailed" /\ UNCHANGED verdict
  /\ UNCHANGED <<searchResult, cycles, cycleUpdateCount, toDownload, caller, machine,
                 events>>

(* Register-ScheduledTask where the task is missing, and Restart-Computer.   *)
RegisterAndRestart ==
  /\ task' \in {task, TRUE} /\ restart' \in {restart, TRUE}
  /\ unheard' = Called("register", task', Called("restart", restart', unheard))
  /\ UNCHANGED wusa

(* "Showing SearchResult was unsuccessful. Rebooting.": Invoke-RebootOrComplete *)
(* and Restart-Computer, after which Get-UpdateBatch returns to its caller.  *)
ShowFailed ==
  /\ pc = "showFailed"
  /\ RegisterAndRestart
  /\ Goto("gotBatch")
  /\ UNCHANGED <<script, autologon, winrm, downloaded, installed>>

(* What the two callers of Get-UpdateBatch do with its result.              *)
GotBatch ==
  /\ pc = "gotBatch"
  /\ \/ /\ moreUpdates = 1 /\ (caller = "install" \/ cycles <= MaxCycles)
        /\ pc' = "select" /\ UNCHANGED verdict
     \/ /\ moreUpdates = 0 /\ caller = "install"
        /\ pc' = "invoke" /\ UNCHANGED verdict
     \/ /\ caller = "reboot" /\ (moreUpdates = 0 \/ cycles > MaxCycles)
        /\ pc' = "enableWinRM"
        /\ verdict' = IF cycles > MaxCycles THEN "exceeded" ELSE "done"
  /\ UNCHANGED <<script, machine, events, faults>>

(* Bug: the task is removed only when the updates are done.                 *)
InvokeKeepsTask ==
  /\ pc = "invoke"
  /\ \/ /\ restartRequired = 0
        /\ caller' = "reboot"
        /\ Goto("search")
        /\ UNCHANGED <<task, restart, events>>
     \/ /\ restartRequired = 1
        /\ RegisterAndRestart
        /\ pc' = "ended" /\ verdict' = "restarting"
        /\ UNCHANGED <<faults, caller>>
  /\ UNCHANGED <<searchResult, moreUpdates, restartRequired, cycles, cycleUpdateCount,
                 toDownload, autologon, winrm, downloaded, installed>>

(* Unregister-ScheduledTask where there is a task.                          *)
Unregister ==
  /\ task' \in {task, FALSE}
  /\ Call("unregister", ~task')
  /\ UNCHANGED <<restart, wusa>>

(* Bug: the restart is asked for, the task that goes on after it is not.    *)
InvokeForgetsTask ==
  /\ pc = "invoke"
  /\ \/ /\ restartRequired = 0
        /\ Unregister /\ caller' = "reboot"
        /\ Goto("search")
     \/ /\ restartRequired = 1
        /\ restart' \in {restart, TRUE}
        /\ Call("restart", restart')
        /\ pc' = "ended" /\ verdict' = "restarting"
        /\ UNCHANGED <<faults, caller, task, wusa>>
  /\ UNCHANGED <<searchResult, moreUpdates, restartRequired, cycles, cycleUpdateCount,
                 toDownload, autologon, winrm, downloaded, installed>>

InvokeRebootOrComplete ==
  /\ pc = "invoke"
  /\ \/ /\ restartRequired = 0
        /\ Unregister /\ caller' = "reboot"
        /\ Goto("search")
     \/ /\ restartRequired = 1
        /\ RegisterAndRestart
        /\ pc' = "ended" /\ verdict' = "restarting"
        /\ UNCHANGED <<faults, caller>>
  /\ UNCHANGED <<searchResult, moreUpdates, restartRequired, cycles, cycleUpdateCount,
                 toDownload, autologon, winrm, downloaded, installed>>

-----------------------------------------------------------------------------
(* Install-UpdateBatch.                                                     *)

Downloadable == (searchResult \ downloaded) \ CanRequestUserInput

(* Bug: a batch that does not fit is not cut to what fits.                  *)
SelectUncut ==
  /\ pc = "select"
  /\ cycles' = cycles + 1
  /\ cycleUpdateCount + Cardinality(Downloadable) <= MaxUpdatesPerCycle
  /\ toDownload' = Downloadable
  /\ cycleUpdateCount' = cycleUpdateCount + Cardinality(Downloadable)
  /\ Goto("download")
  /\ UNCHANGED <<searchResult, moreUpdates, restartRequired, caller, machine, events>>

(* As many as the counter leaves room for; nothing resets the counter.      *)
SelectBatch ==
  /\ pc = "select"
  /\ cycles' = cycles + 1
  /\ \E batch \in SUBSET Downloadable :
       /\ cycleUpdateCount + Cardinality(batch) <= MaxUpdatesPerCycle
       /\ \/ batch = Downloadable
          \/ cycleUpdateCount + Cardinality(batch) = MaxUpdatesPerCycle
       /\ toDownload' = batch
       /\ cycleUpdateCount' = cycleUpdateCount + Cardinality(batch)
  /\ Goto("download")
  /\ UNCHANGED <<searchResult, moreUpdates, restartRequired, caller, machine, events>>

(* "Error downloading updates. Retrying in 30s.", without end.              *)
DownloadFails ==
  /\ pc = "download" /\ toDownload # {}
  /\ Fault
  /\ UNCHANGED <<pc, script, machine, events, verdict>>

(* The result of Download(), which tells whether every update was, is not   *)
(* looked at.                                                               *)
Download ==
  /\ pc = "download"
  /\ \/ downloaded' = downloaded \union toDownload /\ UNCHANGED faults
     \/ Fault /\ \E got \in SUBSET toDownload : downloaded' = downloaded \union got
  /\ toDownload' = {}
  /\ pc' = "install" /\ UNCHANGED verdict
  /\ UNCHANGED <<searchResult, moreUpdates, restartRequired, cycles, cycleUpdateCount,
                 caller, restart, task, autologon, winrm, installed, events>>

ToInstall == searchResult \intersect downloaded

(* Bug: the break before Enable-WinRM.                                      *)
NothingToInstallUnannounced ==
  /\ pc = "install" /\ ToInstall = {}
  /\ moreUpdates' = 0 /\ restartRequired' = 0
  /\ pc' = "ended" /\ verdict' = "nothing"
  /\ UNCHANGED <<searchResult, cycles, cycleUpdateCount, toDownload, caller, faults,
                 machine, events>>

(* A winrm or netsh that fails is logged, and nothing else.                 *)
Enable ==
  /\ winrm' \in {winrm, TRUE}
  /\ Call("winrm", winrm')
  /\ UNCHANGED wusa

(* "No updates available to install...", and break out of everything.       *)
NothingToInstall ==
  /\ pc = "install" /\ ToInstall = {}
  /\ moreUpdates' = 0 /\ restartRequired' = 0
  /\ Enable
  /\ pc' = "ended" /\ verdict' = "nothing"
  /\ UNCHANGED <<searchResult, cycles, cycleUpdateCount, toDownload, caller, faults,
                 restart, task, autologon, downloaded, installed>>

(* Bug: an installation that failed asks for the restart all the same.      *)
InstallRestartsAnyway ==
  /\ pc = "install" /\ ToInstall # {}
  /\ \E successful \in SUBSET ToInstall :
       /\ installed' = installed \union successful
       /\ restartRequired' = IF ToInstall \intersect NeedsRestart # {} THEN 1 ELSE 0
  /\ Goto("invoke")
  /\ UNCHANGED <<searchResult, moreUpdates, cycles, cycleUpdateCount, toDownload, caller,
                 restart, task, autologon, winrm, downloaded, events>>

(* Each update may fail to install; Windows asks for a restart when a newly *)
(* installed one needs it.                                                  *)
Install ==
  /\ pc = "install" /\ ToInstall # {}
  /\ \E successful \in SUBSET ToInstall :
       /\ installed' = installed \union successful
       /\ restartRequired' =
            IF (successful \ installed) \intersect NeedsRestart # {} THEN 1 ELSE 0
  /\ Goto("invoke")
  /\ UNCHANGED <<searchResult, moreUpdates, cycles, cycleUpdateCount, toDownload, caller,
                 restart, task, autologon, winrm, downloaded, events>>

-----------------------------------------------------------------------------
(* The end.                                                                 *)

EnableWinRM ==
  /\ pc = "enableWinRM"
  /\ Enable
  /\ Goto("disableAutologon")
  /\ UNCHANGED <<script, restart, task, autologon, downloaded, installed>>

DisableAutologon ==
  /\ pc = "disableAutologon"
  /\ autologon' \in {autologon, 0}
  /\ Call("autologon", autologon' = 0)
  /\ Goto("ended")
  /\ UNCHANGED <<script, restart, task, winrm, downloaded, installed, wusa>>

Script ==
  \/ WaitWindowsUpdates \/ InstallWindowsUpdates
  \/ Search \/ Show \/ ShowFailed \/ GotBatch \/ InvokeRebootOrComplete
  \/ SelectBatch \/ Download \/ NothingToInstall \/ Install
  \/ EnableWinRM \/ DisableAutologon

-----------------------------------------------------------------------------
(* The machine.                                                             *)

(* The restart happens, wherever the script and wusa.exe are.               *)
RestartComputer ==
  /\ restart
  /\ restart' = FALSE
  /\ wusa' = IF wusa = "running" THEN "over" ELSE wusa
  /\ Goto("boot")
  /\ UNCHANGED <<script, task, autologon, winrm, downloaded, installed, unheard>>

(* wusa.exe /quiet without /norestart: the patch restarts the machine when  *)
(* it likes, with or without a task that goes on.                           *)
WusaRestarts ==
  /\ wusa = "running"
  /\ wusa' = "restarted" /\ restart' = FALSE
  /\ unheard' = Called("wusa", task, unheard \ {"restart"})
  /\ Goto("boot")
  /\ UNCHANGED <<script, task, autologon, winrm, downloaded, installed>>

(* Autologon, and the task's trigger.                                       *)
Logon ==
  /\ pc = "boot" /\ autologon > 0
  /\ autologon' = autologon - 1
  /\ Goto(IF task THEN "call" ELSE "ended")
  /\ UNCHANGED <<script, restart, task, winrm, downloaded, installed, events>>

Next == Script \/ DownloadFails \/ RestartComputer \/ WusaRestarts \/ Logon

Spec == Init /\ [][Next]_vars

(* The script runs, a restart that was asked for happens, and so does a     *)
(* logon that is configured; a fault and wusa's restart are nobody's duty.  *)
FairSpec == Spec /\ WF_vars(Script) /\ WF_vars(RestartComputer) /\ WF_vars(Logon)

-----------------------------------------------------------------------------
(* Correctness.                                                             *)

(* A restart the script asked for finds the task that goes on after it,      *)
(* unless registering it failed unheard; also when the listing of the        *)
(* updates fails half way.                                                  *)
RestartHasTask == restart => task \/ "register" \in unheard

(* A script that has ended for good has told whoever waits for WinRM, unless *)
(* the telling or the going on failed unheard: Enable-WinRM, the task, the   *)
(* restart that was its last word, or a restart of wusa's before the task.   *)
EndIsAnnounced ==
  pc = "ended" /\ ~restart =>
    winrm \/ unheard \intersect {"winrm", "register", "restart", "wusa"} # {}

(* A script that calls the updates done leaves no task and no autologon      *)
(* behind, unless the machine is about to restart, a restart was refused or *)
(* came with no task to go on, or the removal itself failed.                *)
DoneIsTidy ==
  pc = "ended" /\ ~restart /\ verdict \in {"done", "exceeded"} =>
    /\ task => unheard \intersect {"unregister", "restart"} # {}
    /\ autologon > 0 => unheard \intersect {"autologon", "register", "wusa"} # {}

(* Autologon counts down over the restarts: a machine that waits at the      *)
(* logon screen with none left is one that WinRM reaches, as far as the      *)
(* commands that were to enable the two had their effect.                   *)
NeverLockedOut ==
  pc = "boot" /\ autologon = 0 => winrm \/ unheard \intersect {"winrm", "autologon"} # {}

(* Whoever waits for the end of the updates can reach a machine that has     *)
(* come to rest, because the script has ended or because nobody logs on.    *)
RestIsReachable == EndIsAnnounced /\ NeverLockedOut

(* The machine comes to rest for good, and then has WinRM enabled unless a   *)
(* command other than the removal of the task failed unheard: whichever      *)
(* searches, listings, downloads and installations fail, as long as there    *)
(* are more logons than restarts.                                           *)
Reachable ==
  /\ ~restart /\ pc \in {"ended", "boot"}
  /\ winrm \/ unheard \ {"unregister"} # {}
EndsReachable == <>[]Reachable

(* The conditions the fairness of FairSpec comes down to: the script always  *)
(* has a next step until it ends or is killed, a restart and a logon happen  *)
(* where they are due and only there.                                       *)
Running  == pc \notin {"ended", "boot"}
LogonDue == pc = "boot" /\ autologon > 0

GuardsAreExact ==
  /\ ENABLED Script          <=> Running
  /\ ENABLED RestartComputer <=> restart
  /\ ENABLED Logon           <=> LogonDue

(* "This cmdlet installs all available Windows Updates in batches"           *)
(* (BOSH.WindowsUpdates.psm1:5).                                            *)
EveryBatchIsInstalled ==
  pc = "ended" /\ ~restart /\ verdict \in {"done", "nothing"} /\ unheard = {}
    => Updates \ CanRequestUserInput \subseteq installed

-----------------------------------------------------------------------------
(* The inductive strengthening of the invariants above.                     *)

(* While a restart is pending the script only has its end to go through.    *)
RestartPending ==
  /\ restart => /\ pc \in {"gotBatch", "invoke", "enableWinRM", "disableAutologon", "ended"}
                /\ pc \in {"gotBatch", "invoke"} => restartRequired = 1 /\ moreUpdates = 0
  /\ pc = "showFailed" => restartRequired = 1 /\ moreUpdates = 0
  /\ pc = "boot" => task \/ unheard \intersect {"register", "wusa"} # {}
  /\ wusa = "running" => pc \notin {"fresh", "call", "boot"}

(* From the first check without a restart on, the task is gone.             *)
Unregistered ==
  /\ caller = "reboot" /\ pc \notin {"call", "ended", "boot"} /\ ~restart /\ task =>
       unheard \intersect {"unregister", "restart"} # {}
  /\ pc \in {"enableWinRM", "disableAutologon"} =>
       caller = "reboot" /\ verdict \in {"done", "exceeded"}
  /\ pc = "disableAutologon" => winrm \/ "winrm" \in unheard

CyclesBounded ==
  /\ caller = "install" /\ pc \in {"search", "show", "showFailed", "gotBatch"} => cycles = 0
  /\ pc = "select" => cycles <= MaxCycles

(* A restart is under way, or asked for, or about to be.                     *)
RestartOwed ==
  \/ restart
  \/ pc \in {"showFailed", "boot"}
  \/ pc = "gotBatch" /\ moreUpdates = 0 /\ restartRequired = 1
  \/ pc = "invoke" /\ restartRequired = 1

(* Each restart so far, and the one owed, is due to an update that has been  *)
(* installed since, to a listing that failed or to wusa.                    *)
LogonsSpent ==
  winrm \/ unheard \intersect {"winrm", "autologon"} # {} \/
    autologon + Cardinality(installed \intersect NeedsRestart) + faults
      + (IF wusa = "restarted" THEN 1 ELSE 0)
    >= AutoLogonCount + (IF RestartOwed THEN 1 ELSE 0)

IInv == /\ TypeOK /\ RestartPending /\ Unregistered /\ CyclesBounded
        /\ RestartHasTask /\ EndIsAnnounced /\ DoneIsTidy
=============================================================================
