# stembuild: specifications, model checking and proofs

stembuild turns a Windows virtual machine into a BOSH stemcell. `stembuild
construct` prepares a running VM on vCenter (uploads scripts, runs them over
WinRM across a restart, waits until sysprep powers the VM off); `stembuild
package` turns the prepared VM, or a VMDK, into the stemcell file. This
directory holds TLA+ modules of the parts of that program with interesting
control, the TLC configurations that check them, and theorems about them that
TLAPS checks. Line numbers refer to the repository's `src/`.

`PROJECT.json` has the machine-readable side: the components, every run, the
source lines of every definition (`map`), the plausible bugs each property is
known to catch (`mutants`, the operators commented "Bug:" or "A bug:" in the
modules), the hazards and the theorems.

## 1. Inventory

| part | state it keeps | operations | what is hard |
|---|---|---|---|
| `construct` (`construct/vmconstruct.go`, `remotemanager/`, `poller/`) | position in PrepareVM; on the guest: scripts, WinRM, a pending restart, power | twelve calls in sequence, two polls | answers lost on the wire; restarts that race with the poll that waits for them; reruns on what a failed run left |
| guest scripts (`stemcell-automation/`, `modules/BOSH.*`) | files, services, policies, firewall of the guest | one function per step of Setup.ps1 and PostReboot.ps1 | which errors stop a PowerShell script and which pass unheard; leftovers; sysprep beside the script |
| Windows updates (`modules/BOSH.WindowsUpdates`) | scheduled task, autologon, WinRM, updates; script variables that die with a restart | search, select, download, install, restart | a restart that comes while the script goes on; failing searches |
| VMDK packager (`package_stemcell/packagers/vmdk_packager.go`) | temporary directory, child process, Stop channel | conversion; interrupt handler | two goroutines on one directory without synchronisation |
| free-space check (same file, 418-452) | - | compare, report | unsigned arithmetic, rounding |
| vCenter packager (`vcenter_packager.go`) | VM devices, temporary directories, output file | strip, export, tar | failing govc calls, a kill at any point, reruns |
| govc runner (`iaas_cli/govc_cli.go`) | `os.Stdout`, a pipe, a goroutine | RunWithOutput | bounded pipe, unbuffered channels, error paths |
| vCenter clients (`iaas_cli/iaas_clients/`) | a session | one govc or vSphere call each | an error reported after the call took effect |
| `main` and the command lines (`main.go`, `commandparser/`, `config/`, factories) | the automation archive in the working directory, the output path | write and remove the archive, validate, wire, run | several processes in one directory; ways out that skip the removal; a path checked long before it is written |
| ovftool lookup (`package_stemcell/ovftool/`) | - | search paths, lookup | the order of registry, PATH and walk |
| version, VMX template, colorlogger, help | - | pure | - |
| `package_stemcell/stemcell_generator` | - | not reachable from `main` | - |

How they interact: `main` writes the embedded archive
`StemcellAutomation.zip`, dispatches to a subcommand and removes the archive
when the subcommand returns. ConstructCmd builds a VMConstruct, which acts on
the guest through two channels: vSphere guest operations (make a directory,
upload, start a program; `vcenter_client.go`) and WinRM commands
(`winrm_remotemanager.go`). The guest scripts run on the guest by themselves
once started. PackageCmd validates output, space and source, and calls one of
the two packagers; the vCenter one calls govc in this process through
GovcRunner, the VMDK one runs ovftool as a child.

What makes each part correct is stated as the properties of section 3.

## 2. The modules

`X.tla` is the specification of a part, `MCX.tla` the module TLC runs it from,
`XProof.tla` its theorems. The inductive invariant of a module, `IInv` (of the
composition, `GovcInv`), is defined at its end; no run lists it, because the
theorem `Invariance` is about every instance.

| module | models | modules on it |
|---|---|---|
| `Construct` | PrepareVM, the WinRM conversation and the guest | `ConstructAbs` (what construct promises), `MCConstruct`, `ConstructProof` |
| `Provision` | Setup.ps1, PostReboot.ps1 and sysprep, function by function | `GuestScripts` (its places behind Construct's script stages), `MCProvision`, `ProvisionProof` |
| `WindowsUpdates` | the update script over its restarts | `MCWindowsUpdates`, `WindowsUpdatesProof` |
| `VmdkPackager` | conversion, interrupts, ovftool | `PackageAbs` (what package promises), `MCVmdkPackager`, `VmdkPackagerProof` |
| `VcenterPackager` | `package` from vCenter | `PackageAbs`, `MCVcenterPackager`, `VcenterPackagerProof` |
| `GovcRunner` | RunWithOutput; its constants are in `GovcBounds` | `GovcRunnerProof` |
| `VcenterGovc` | the composition of the two: every listing of the packager is a RunWithOutput | `MCVcenterGovc`; theorems in `VcenterPackagerProof` |
| `DiskSpace` | the free-space check and what is written after it | `MCDiskSpace`, `DiskSpaceProof` |
| `Workstation` | the stembuild processes of one directory: main, the command lines, the files they share | `PackageAbs`, `MCWorkstation`, `WorkstationProof` |
| `Ovftool` | where ovftool is looked for, per platform | used by `Workstation` |

**Construct.** `pc` is the call PrepareVM is in, one action per call, a failing
call returns at once (`ReturnError`). A WinRM command is one step with three
outcomes: not delivered, executed and answered, executed with its answer lost.
The two long scripts are started by a step of the command and run as actions of
the guest; `setup[r]` and `post[r]` follow them for every run `r`, so that a
script an abandoned run left behind is still there in the next. Setup.ps1 ends in
`SetupRestarts` or, since an error of Restart-Computer (ProvisionVM.ps1:29, no
-Force) is not terminating, with the same exit code in `SetupDoesNotRestart`;
`unrestarted[r]` records the second, which the command cannot see.
`PoweredOffByOthers` switches the guest off at any time (`cut`), and IsPoweredOff
takes that for success as vcenter_client.go 211 does.
`TryReboot`/`AbortReboot` are winrm_rebootchecker.go 48-77: `shutdown /r /t 60`
accepted means the guest is back, and is then aborted in up to `AbortAttempts`
(5) tries. Restarting is two steps (`RestartGuest`, `BootCompletes`), with WinRM
coming back only if its start type says so. Enable-WinRM is a program on the
guest, one per run (`enable[r]`): started with an answer that may be lost
(guest_manager.go 45), polled without a timeout (60-78), changing the service
and its start type in any order beside whatever else runs there, and exiting 0
whatever it achieved, as its logged-only errors allow. An abandoned one is still
at work in the next run.
`GuestStage`, `Verdict` and `Leftover` are the refinement mapping to
`ConstructAbs`: a guest that goes provisioning, restarted, sealing, sealed; a
verdict that is final; success only for a sealed guest, or one switched off by
others or by what an earlier command left on a guest that missed its restart;
and a command whose guest is sealed returns (`Returns`). Its `Promise` and `SealedForGood` are what a caller
of the command may take from it. `WinRMAfterSetup` is what the
polls need beside `IInv` in order to end, and `GuardsAreExact` says, for each step the fairness
is about, in which states it can be taken.

**PackageAbs.** What one `package` after another promises about the output path,
for both packagers: a command writes only to a path it found free, fails only with
the path as it found it, succeeds only with a delivery there; a command that was
cut off may leave something unfinished, which the next one then refuses to touch.
What a packager may have there on the way (`Unfinished`) and at the end
(`Delivered`) are its constants, and that is where the two differ: VmdkPackager
implements it with nothing unfinished and `"complete"` delivered. VcenterPackager
writes the path in place, and since TarGenerator's errors are dropped its delivery
can be anything, `"none"` and `"partial"` included; the mapping says so, and
`vcenter_claim` is the run that shows it. `DeliversOrLeaves` is the refinement in
both modules. Workstation puts a process that has found the path free behind it
(`Lone(p, c)`), for as long as that process has been alone.

**Provision.** The inside of the two scripts that Construct treats as a few
stages. The guest is the set of facts the functions establish; each function
either throws (the script stops) or fails unheard (PowerShell's non-terminating
errors, exit codes nobody reads), and which of the two is open to it was read
off its code: Restart-Computer, the cleaning of the disk (Uninstall-WindowsFeature,
defrag, the removal of zero.tmp) and the profiles' -Enabled, which check-firewall
does not compare, are among what fails unheard. `missed` collects what was let
pass. sysprep.exe is started and not
waited for: it powers the VM off, beside the rest of PostReboot.ps1. Runs follow
one another; overlapping runs are Construct's subject, and so are WinRM's failures.
`GuestScripts` is the link between the two: `SetupStage`, `PostStage`,
`SysprepStage`, `GuestPower` and the two facts about WinRM are what Construct sees
of a place in the scripts, and `ScriptsAreConstructs` says that each step of
Provision is one of Construct's guest steps or none at all. What Construct assumes
of the scripts it starts is so taken from the functions they consist of.

**WindowsUpdates.** Restart-Computer returns at once, so `restart` is a flag and
`RestartComputer` may happen at any later step of the script, which goes on.
Search, listing and download may fail `MaxFaults` times, a download also in part.
Commands that change the machine (Enable-Autologon, Enable-WinRM, the task,
Restart-Computer) may have no effect without the script hearing of it; `unheard`
names those that had none when they were called last, and the properties name the
ones that matter to them. The out-of-band patch is given to wusa.exe /quiet (68),
which nobody waits for and which may restart the machine once (`WusaRestarts`). No
script of this repository starts it; `WaitWindowsUpdates` does so once, as
whoever prepares the VM would.

**VmdkPackager.** Main goroutine (`pc`), signal goroutine (`sig`) and ovftool
interleave freely. `os.RemoveAll` is three kinds of step (read the directory,
unlink an entry, remove the directory), by either goroutine, because the race of
the two removals and of a late create is what matters; either removal may give up
anywhere, as the errors of `os.RemoveAll` (114), of `os.Remove` (main.go:79) and of
the `os.Stat` before them are dropped, and `refused` records what main was refused.
CancelWriter's look at Stop and the Read or Write that follows it are two steps
(`AddTarFile`, then `Transfer`; `CloseStemcell`, then `WriteTrailer`), so that Stop may be
closed in between. Killing one's own child is taken not to fail. The unsynchronised
`c.tmpdir` is read by the handler as empty, as set, or, while it is being
assigned, torn, which ends the process in a panic. POSIX unlink semantics: open
files outlive their entries.

**VcenterPackager.** One action per govc call and per file; govc may report an
error for something it did. `Kill` ends the process between any two steps and
`Rerun` starts it again on the VM and output directory as they are. Contents
are abstracted to what the properties tell apart: made from a stripped VM or
not, whole or partial, with a matching checksum or not.

**GovcRunner.** The caller, the copying goroutine and the bounded pipe; of the
output only the length matters. os.Pipe's ignored error is a nil write end.

**VcenterGovc.** VcenterPackager has each device listing as one step. Here it
is a call of GovcRunner (`G == INSTANCE GovcRunner WITH pc <- gpc`), one line of
output per device: `StartListing` enters RunWithOutput, `RunnerStep` are its
goroutines, and `RemovableListed`/`CDRomsListed` hand the loop over matching
devices the lines that arrived through the pipe. A killed process takes the
runner with it, a rerun has a new one. The property `ListsAtOnce` is
VcenterPackager's `Spec` itself: the composition implements the coarser module,
so what is proved of that module holds of the composition.

**Workstation.** Several processes, each a `construct`, a `package` of either
kind, a command line that is refused, a `-version` or a bad flag, start at any
time in one directory. Each goes through main.go in order: the archive is opened
with truncation, written, (the command runs), removed. `present`, `bytes` and
`linked` are the file at `./StemcellAutomation.zip`: whether it is there, whose
data it holds, whose open handle is the file at that path (a process whose file
was removed goes on writing one without a name). The removal may fail, its error is
ignored, and on Windows it does while another process has the file open. The two Execute functions are their
steps up to and after the shared state; the guest and the conversions are
verdicts (`PrepareVM`, `Convert`), the vCenter path's create-then-fill of the
output path is two steps. `alone` records the processes never seen running
together with another one.

**Ovftool.** A machine is its PATH, its registry keys and what walking the
install directories finds; `Located` is what the code requires, `Available`
what its usage text asks for.

**DiskSpace.** The comparison and the message with `% 2^Width` arithmetic, an
operator who does what the message says, and the three files of at most the
VMDK's size.

## 3. The runs

Numbers of distinct states are for the configurations as they stand.

| run | shows | distinct states |
|---|---|---|
| `construct` | two runs on one machine, the second on what the failed one left, with five abort attempts, a restart that may fail unheard and a power-off by others: safety, the steps PrepareVM can always take, the polls without timeout, and the refinement of `ConstructAbs` with the return it promises | 175,675 |
| `provision` | Setup.ps1 and PostReboot.ps1 function by function, each failing loudly or unheard, cut anywhere, and a second run on what the first left; each of their steps is a guest step of `Construct` | 561,206 |
| `windows_updates` | the update script over its restarts, with failing searches, listings, downloads and installations, commands that fail unheard and a restart of wusa's: what each restart needs is there, an end is announced, and one is reached | 1,795,810 |
| `windows_updates_claim` | violated: "installs all available Windows Updates in batches" | - |
| `vmdk_packager` | conversion, interrupt handler, ovftool and up to two interrupts in every interleaving, with the creating, writing, renaming and removing of files allowed to fail; only ovftool can hold the command up; it implements `PackageAbs` | 674,074 |
| `vmdk_interrupt_claim` | violated: "cleans up on one interrupt" | - |
| `vcenter_govc` | packaging from vCenter, killed at any step and run again, every govc call failing before or after it took effect, both listings byte by byte through RunWithOutput's goroutines, pipe and channels; the composition implements `VcenterPackager`, and `PackageAbs` | 44,241 |
| `vcenter_claim` | violated: "creates a valid stemcell in the output directory" on success | - |
| `disk_space` | the check over every size and free space of a small scale, then the three files | 108,814 |
| `disk_space_message` | violated: "Free up %d MB and try again" | - |
| `workstation` | three processes in one directory, on Windows and elsewhere, with and without ovftool, killed at any step; a `package` that is alone takes the steps of `PackageAbs` | 1,989,071 (up to symmetry) |
| `ovftool_claim` | violated: "must be on your path or Fusion/Workstation must be installed" | - |

Every property of a passing run has a mutant: a plausible bug in a mapped
definition under which TLC finds that property violated by the same
configuration.

**The properties, by the question they answer.**

* Does "reboot has finished" mean it? `RebootFinishedIsTrue`: the checker only
  sees whether the guest accepts a restart, never the restart itself; the
  property holds because a guest with a pending test reboot refuses a second, and
  it ends where Restart-Computer fails unheard (`unrestarted`): there the first
  test reboot accepted and aborted is taken for a finished restart.
* Can the check's own test reboot hurt a later step? `TestRebootOwned`,
  `PostRebootUndisturbed`, `PostRebootStartsClean`.
* Are verdicts true? `SuccessIsSealed` (the guest is off because this very run's
  sysprep generalized it; a power-off by others, and an earlier run's sysprep on a
  guest that missed its restart, are the exceptions it names),
  `PostFailureIsReal`; `AbsSpec` says the same of the whole lifecycle, reruns
  included.
* Does the command end? `EnableWaitEnds`, `RebootWaitEnds`, and once the guest is
  sealed `Returns` in `AbsSpec`. `GuardsAreExact`: there is no place at which a
  command that has not returned has nothing it can do, and the guest's steps that
  the polls wait for can be taken exactly where the fairness of the proofs
  says they can.
* Does what an abandoned run left undo this one? `WinRMStaysOff`: no Enable-WinRM
  program whose answer was lost turns WinRM on again under the post-reboot script,
  on a guest that has restarted.
* What is on a stemcell? `StemcellLacksOnlyMissed`, `LeftoversDoNotCount`,
  `RestartIsProvisioned`; and are the scripts what construct takes them for?
  `ScriptsAreConstructs`.
* Does the update script keep its thread across restarts? `RestartHasTask`,
  `DoneIsTidy`, `RestIsReachable` (a machine that has come to rest,
  at the script's end or at a logon screen, has WinRM on), `EndsReachable`, each
  up to the commands that failed unheard and mattered for it; `GuardsAreExact` is
  about the steps its fairness is about.
* What do interrupts leave? `OutputIsWhole`, `DeliversOrLeaves` (which has the
  exit status agree with the output path), `ReturnCleansUp`,
  `GoneOnlyWhenStopped`, `InterruptIsFinal` (no Read or Write begins once Stop is
  closed; the one that had been let through before may still finish the stemcell),
  `InterruptEndsCommand`.
  `NothingElseBlocks`: the conversion never waits for the handler, for a removal
  or for a file, only for an ovftool that nobody has asked to stop.
* What do failures and reruns of the vCenter path leave? `StemcellIsStripped`,
  `RefusedRunIsHarmless`, `DeliversOrLeaves`.
* Is captured output whole, and does the packager that depends on it behave as
  if a listing were one step? `CaptureIsTrue`, `ListingReturns`, `ListsAtOnce`.
* What do processes in one directory do to each other, and what does one that
  ended early do to the next? `UploadIsOwn`, `ArchiveIsExplained`,
  `OutputIsReplacedByOverlap`, `LonePackageIsPackage`. The exceptions in them are real: with two processes
  at once construct can upload a truncated archive or none, and a stemcell that
  appears during a conversion is replaced.
* Is the space check usable? `TwoFilesFit`, `AskedIsNeeded`, and `OneMoreIsEnough`:
  a refusal asks for too little (`disk_space_message`), but by less than a megabyte.

**Bounds and why they suffice.**

* `MaxRuns` = 2 in `construct`: everything an earlier run can leave at work meets
  everything the current one does. A third run would take the liveness check
  beyond a few minutes; the proofs hold for any number of runs, those of the two
  waits and of the refinement included. `AbortAttempts` = 5 is the code's.
* `Provision`, `MaxRuns` = 2: a second run meets every kind of leftover, since
  a run's only input is `facts` and `versionFile`.
* `VmdkPackager`, `MaxSignals` = 2: the second interrupt ends the process.
* `VcenterGovc`: three removable devices (first, middle, last), two CD drives,
  three runs, so that a run can meet the remains of a killed and of a failed one;
  a pipe of 2 lines for an output of up to 5, more than twice the pipe; two calls
  per process, which is what the packager makes.
* `Workstation`: three processes in seven combinations of commands, so that every
  pair of commands that meet at a file meets, with a third that ends early
  before, between or after them; three machines. Symmetry over the processes,
  which nothing tells apart; it is used with invariants and two action properties,
  no liveness. `OvftoolClaim` has one process and every machine of `Ovftool`.
* `DiskSpace`: `Width` = 6 bits, 16 units to the gigabyte and 3 to the megabyte,
  so that wrap-around, rounding and both outcomes of the comparison occur.
* `WindowsUpdates`: a plain update twice, one that asks for a restart, one that
  asks for input; two per batch and two cycles, so that both limits bite; two
  faults. `EnoughLogons` (in `MCWindowsUpdates`) states that the logons suffice for
  the restarts the updates, the faults and wusa can cause, as autologon's 50 do.

`CHECK_DEADLOCK FALSE` everywhere: all the programs modelled end.

**Fairness.** `Construct`: the workstation keeps running (weak fairness of
PrepareVM), a restart under way and a scheduled one complete (weak), and a
WinRM request that is sent again and again is not lost every single time
(strong fairness of an answered TryReboot; the poll repeats it every ten
seconds without limit, which is why nothing weaker makes it end). No fairness
for the scripts or sysprep: a hanging script hangs construct, and what the
refinement promises starts from the sealing. The Enable-WinRM program of the
current run ends (weak): it runs a fixed list of commands. Nothing is assumed of
those earlier runs left behind. `VmdkPackager`: both goroutines are
scheduled; ovftool may hang. `VcenterGovc`: while the process runs its caller and
its copying goroutine are scheduled and a govc command ends; a failing read is
nobody's duty. `Workstation`: none, its properties are safety. `WindowsUpdates`: the
script runs, a requested restart and a configured logon happen; faults
and wusa's restart are nobody's duty. `DiskSpace`'s message run: an operator who keeps trying.

## 4. What the violated runs show

* `vcenter_claim` (`vcenter_packager.go` 62, 71): the errors of both
  TarGenerator calls are dropped; `package` reports success without a stemcell.
* `windows_updates_claim` (`BOSH.WindowsUpdates.psm1` 78, 146): the counter of
  updates per cycle is never reset, so that after a full first batch the second
  is empty and the script ends with updates missing.
* `disk_space_message` (`vmdk_packager.go` 436): the megabytes asked for are
  rounded down, to "Free up 0 MB" in the end, and freeing them is not enough.
* `vmdk_interrupt_claim` (`vmdk_packager.go` 247): ovftool is killed and not
  waited for, and can create its output under `os.RemoveAll`, whose error is
  dropped; the temporary directory stays after one interrupt.
* `ovftool_claim` (`vmdk_packager.go` 394, `ovftool_windows.go` 24-46): on Windows
  the search paths are asked for before the PATH is looked at, and having none is
  an error: a workstation with ovftool.exe on its PATH and no VMware registry key
  is refused, and so is one whose first key that opens has no install path while
  a later one has.

The models also contain, without a run of their own: "The reboot has finished." is
printed of a guest that never restarted, when Restart-Computer failed unheard
(`SetupDoesNotRestart`); a guest somebody else powers off ends `construct` with
success, whatever is on it, or keeps the reboot poll waiting for ever
(`PoweredOffByOthers`); the script of Windows updates ends with WinRM off when
Enable-WinRM failed; "Finished executing setup
script 2 of 2." is printed after any lost connection (`ConnectionEvent`, fixed
by a test); a missing output directory is filled in on a copy
(`output_config.go` 30), so the stemcell is built under the system's temporary
directory and cannot be renamed across file systems (`sameDisk` in
VmdkPackager); the space check counts two of the three files that are on the
disk together; a failed copy in GovcRunner leaves a printing command blocked
(`ListingReturns` excludes it by name); a bad top-level flag, an interrupt
without a handler, the panic of an unstamped build in `package` and a removal that
is refused leave `StemcellAutomation.zip` behind (`ArchiveIsExplained` names these ends; the next
process is not hurt, `UploadIsOwn`); Extract-LGPO logs success after an unheard
error (the step after it is what notices, see `RestartIsProvisioned`); a Dism
that fails beside sysprep turns PostReboot's exit code into a failure of a VM
that becomes a stemcell.

## 5. What is proved

`tlapm XProof.tla` checks each file to its last leaf. The only assumptions are
the named ASSUMEs on constants (for instance `AbortAttempts \in Nat \ {0}`),
which TLC evaluates in every run.

| theorems of | from | along |
|---|---|---|
| `ConstructProof`: `Invariance`, `TypeCorrect`, `RebootFinished`, `TestRebootIsOwned`, `Undisturbed`, `Sealed`, `PostFailure`, `StartsClean`, `WinRMIsOff`, `Refinement`, `AbsPromise` | `MaxRuns`, `AbortAttempts` positive | `IInv`. The checked invariants are not inductive: what is missing is that between Setup's success and the post-reboot script everything older has died as soon as the guest can accept a restart (`QuietAfterSetup`, `QuietWhileAborting`), short of a missed restart, that after the successful abort nothing can restart the guest (`NoRestartAhead`), and who has switched it off (`OffHasReason`). `Refinement` shows that initial states and steps map to those of `ConstructAbs`, `AbsPromise` what follows from that for the caller. |
| the same module, on what ends: `WinRMInvariance`, `EnableWait`, `SealedCommandReturns`, `FullRefinement`, `RebootWait` | fairness with explicit guards (below); `RebootWait` also `AbortAttempts` = 5, the code's | `WinRMAfterSetup`, then one chain of steps per wait: each phase can only go on to the next or return |
| `ProvisionProof`: `Invariance`, `RestartProvisioned`, `StemcellComplete`, `LeftoversCountNot` | `MaxRuns` positive | `Established`: at each place of the scripts, what each earlier step must have left, or be recorded as missed |
| the same module, of `GuestScripts`: `ScriptsRefineConstruct` | the same | by the place of the script: most functions change nothing Construct sees; the few that do (WinRM, the restart, the services, sysprep, and a throw anywhere) take its guest steps one for one, which needs from `Established` what an unheard failure leaves behind |
| `WindowsUpdatesProof`: `Invariance`, `RestartsContinue`, `EndsAnnounced`, `DoneTidy` | a finite set of updates, natural limits | `RestartPending` and `Unregistered`: while a restart is pending the script only walks to its end; from the first check without a restart the task is gone |
| the same module, on autologon: `LogonsCounted`, `LockedOutNever`, `RestReachable` | `AutoLogonCount` at least the updates that need a restart, the faults and wusa's restart together | `LogonsSpent`: as long as WinRM is off, every logon gone is paid for by an installed update that needed a restart, by a fault or by wusa, and one is kept back for the restart that is owed |
| the same module, on what ends: `EndIsReached` | fairness with explicit guards (below); five cycles and fifty logons, the code's | `Rank` of a script run, which each of its steps lowers; each restart costs a logon, and `LockedOutNever` says that the logons last; a machine at rest leaves it once at most, by wusa |
| `VmdkPackagerProof`: `Invariance`, `WholeOutput`, `StatusIsTrue`, `CleanReturn`, `GoneMeansStopped`, `InterruptFinal`, `Refinement` | `MaxSignals` natural | `IntactUntilStopped` (nothing is removed before Stop is closed) and `RemovalCompletes` (what main's removal has read can only shrink, unless it is refused); the refinement of `PackageAbs` step by step from them |
| the same module, on what ends: `CommandEnds`, `InterruptEnds` | main keeps taking steps (`MainKeepsGoing`) | `Rank`: main's place in the conversion, which every step of main lowers and no other step raises; the command ends or waits for a hung ovftool for ever, and after an interrupt the wait is over too |
| `VcenterPackagerProof`: `Invariance`, `OnlyStripped`, `FailureIsClean`, `RefusalIsHarmless`, `Refinement`, `AbsPromise` | disjoint device sets, `MaxRuns` positive | `DevicesGone`, `OutputUntouched`; `AbsPromise` is from `PackageAbs` alone, whatever implements it |
| the same module, of the composition: `GovcInvariance`, `PipedListing`, `ListingIsTrue`, `PipedIsStripped`, `PipedRefinement`, `PipedRefusal` | finite device sets that fit the output bound | GovcRunner's invariant carried over by its own lemmas (`R == INSTANCE GovcRunnerProof`); a complete output has as many lines as there are devices, so the set of lines that arrived is the set of devices, and the step that hands it over is VcenterPackager's atomic listing |
| `DiskSpaceProof`: `Invariance`, `TypeCorrect`, `RoomForTwo`, `AskedNeeded`, `OneMoreEnough` | positive sizes, a modulus they fit in | `RoomLeft`: what is still free after each file, on one disk |
| `WorkstationProof`: `Invariance`, `OwnUpload`, `ExplainedArchive`, `ReplacedByOverlap` | any processes, commands and machines | `OwnArchive` (a process alone since its start finds its own bytes at the path) and `OutputSeen` (nothing has appeared at the output path it looked at), from `AloneIsAlone` |
| the same module: `LonePackage` | the same | `OutputSeen`, and `OwnWay` (a command returns once, and each packager is reached by its own command): a lone process after its look finds the path free until it writes it itself, and what it does then is a Write, Succeed, Fail or CutOff of `PackageAbs`; the operator clearing the path is a Write |
| the same module, of `Ovftool`: `LocatedIsAvailable`, `MissedOnWindows` | a machine of `Machine` | by platform: what is found is available; what is available and missed is missed on Windows, where the first key that opens has no install path or no key opens. `ovftool_claim` shows one such machine, the theorem says which they are |
| `GovcRunnerProof`: `Invariance`, `CompleteOutput`, `StdoutRestored`, `NobodyBlocks`, `Descends` | a positive capacity, natural bounds | `Conservation`: every byte is unprinted, lost, in the pipe or read. `NobodyBlocks`: as long as the copy has not failed, one of the two goroutines can go on; `Descends`: every step lowers `Remaining`, a natural number |

**Liveness.** The prover does not know ENABLED, so a theorem cannot start from
`WF_vars(A)`. The theorems on what ends start from the same fairness with the
guard written out, `[]<>~Ready \/ []<><<A>>_vars` (strong: `<>[]~Ready`), and TLC
checks on the whole of `construct`, `windows_updates` and `vmdk_packager` that
each guard is ENABLED exactly: `GuardsAreExact` (of the first two),
`NothingElseBlocks`. So the fairness the
runs assume and the fairness the theorems assume agree by a model-checked
equivalence. The temporal steps then are action facts combined by PTL.

| theorem | assumes | property of a run |
|---|---|---|
| `EnableWait` | `PrepareKeepsGoing`, `EnableKeepsGoing` | `EnableWaitEnds` |
| `RebootWait` | `PrepareKeepsGoing`, `RestartsComplete`, `TestRebootsFire`, `TriesGetThrough` | `RebootWaitEnds` |
| `FullRefinement` | `PrepareKeepsGoing` | `AbsSpec` |
| `InterruptEnds` | `MainKeepsGoing` | `InterruptEndsCommand` |
| `EndIsReached` | `ScriptKeepsGoing`, `RestartsHappen`, `LogonsHappen` | `EndsReachable` |

`RebootWait` needs all four of its assumptions. It is stated for five abort
attempts because a chain of steps as long as a constant would need
induction over that constant, which the installed provers cannot instantiate. For
the same reason `EndIsReached` has the five cycles and fifty logons of the code;
the updates and the faults are any that the logons suffice for.

Only model-checked:

* `ListingReturns`: it needs an induction over the bytes still to come.
  `NobodyBlocks` and `Descends` are the two facts the induction would use.
* `GuardsAreExact`, of Construct and of WindowsUpdates, and `NothingElseBlocks`: they speak of ENABLED.

## 6. What is not modelled

* Two thirds of the repository's own Go lines are the counterfeiter fakes
  (`*fakes/`, `filesystem/mock`): generated recorders of calls for the unit tests,
  not part of the program. Of the rest, interfaces, constructors, usage texts and
  messages have no behaviour to model.
* The vSphere SDK, WinRM and govc themselves: external, modelled by the
  outcomes their callers handle. Nobody but stembuild changes the VM's devices.
* Output directories of two processes that differ: Workstation has one output
  path, the case in which they meet. Two directories on two file systems: the
  space check then says nothing about the one that is written (DiskSpace has the
  case, the properties are for one disk).
* Guest details no property tells apart: SSH host keys, Windows Update
  certificates, which of the winrm and netsh commands failed, the IgnoreErrors
  calls of Dism, Install-SSHD's nested directory on reruns; AWS, GCP and Azure
  branches of Invoke-Sysprep.
* A guest that is switched on again after it was off: nothing in stembuild does
  it, and what sysprep's first boot makes of it is Windows.
* An ovftool that cannot be killed (`Process.Kill` of one's own child).
* A goroutine and a file descriptor that RunWithOutput leaks when Close fails:
  forgotten at the next call, because they share nothing with it.
* Stateless parts: the table of OS versions, the patterns of a stemcell version,
  the VMX text, output and help, the system calls that measure free space.
* Code nothing of the program calls: `stemcell_generator`, `upload_file.go`,
  `IsArtifactInDirectory`, CloneVM and DownloadFileInGuest, the govc client's
  Start and WaitForExit, WinRM's UploadArtifact, `BOSH.Account`.
* The temporary directories of the vCenter path, which no run removes, and the
  vCenter sessions, which none logs out of: no step whose order matters.

## 7. Plan

Done, in this order: Construct with its abstract specification, proof and
reruns; VmdkPackager; VcenterPackager; DiskSpace; GovcRunner; WindowsUpdates;
Provision; then the Enable-WinRM conversation and liveness over reruns in
Construct; Workstation and Ovftool; the composition VcenterGovc; the proofs of
DiskSpace, Workstation and the composition; the abstract specification
`PackageAbs` with the proofs that both packagers implement it; the theorems on
what ends; the theorems about Ovftool; the link of Provision to Construct; the
end of the update script; the link of Workstation to PackageAbs.

Left:

1. One statement of `SuccessIsSealed` and `StemcellLacksOnlyMissed`.
   `ScriptsAreConstructs` links the steps of a single run; a composition would also
   have to carry Provision's facts through the overlapping runs that Construct has.
2. `ListingReturns` for a fixed capacity and a fixed number of devices, from
   `NobodyBlocks` and `Descends`, in the way of `EndIsReached`.
3. PowerShell's `break` in Install-UpdateBatch and the "nothing to install" end of
   WindowsUpdates deserve a property once the caller's expectations are known.
