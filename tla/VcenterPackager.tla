--------------------------- MODULE VcenterPackager ---------------------------
(***************************************************************************)
(* `stembuild package` with a vCenter source: PackageCmd.Execute validates   *)
(* the output path and the source, then VCenterPackager.Package strips the  *)
(* VM of its devices through govc, exports it, tars the export into an      *)
(* image and tars image and manifest into the output file.                  *)
(*                                                                         *)
(* This path installs no interrupt handler, so the process may be killed    *)
(* between any two steps; the operator may then run the command again on    *)
(* the VM and the output directory as they are, with fresh temporary        *)
(* directories.  Nobody else changes the VM's devices meanwhile.            *)
(***************************************************************************)
EXTENDS Naturals, FiniteSets

CONSTANTS
  Removable,  \* the VM's floppy-* and ethernet-* devices
  CDRom,      \* its cdrom-* devices
  MaxRuns     \* how often the command is run (a bound)

ASSUME DevicesAssumption == Removable \intersect CDRom = {}
ASSUME MaxRunsAssumption == MaxRuns \in Nat \ {0}

VARIABLES
  run, pc, exit,
  attached,  \* removable devices the VM has
  loaded,    \* CD drives with a medium in them
  todo,      \* matching devices executeOnMatchingDevice has yet to act on
  ovf,       \* the exported VM in the working directory
  image,     \* the file "image" in the stemcell directory
  manifest,  \* stemcell.MF in the stemcell directory
  out,       \* the file at the output path
  prior      \* what was at the output path when this run began

process == <<run, exit, prior>>
vm      == <<attached, loaded>>
temp    == <<ovf, image, manifest>>
vars    == <<run, pc, exit, attached, loaded, todo, ovf, image, manifest, out, prior>>

Phase == {"validateConfig", "validateSource", "listRemovable", "remove",
          "listCDRoms", "eject", "makeDirs", "export", "exporting", "tarImage",
          "tarringImage", "writeManifest", "tarStemcell", "tarringStemcell"}

(* "clean" is an export of the VM without removable devices and media, or   *)
(* an image made of one; "dirty" one with them.                             *)
Tree   == {"none", "partial", "dirty", "clean"}
Output == {"none", "partial", "hollow", "dirty", "stemcell"}

TypeOK ==
  /\ run \in 1 .. MaxRuns
  /\ pc \in Phase
  /\ exit \in {"running", "success", "failure", "killed"}
  /\ attached \subseteq Removable
  /\ loaded \subseteq CDRom
  /\ todo \subseteq IF pc = "remove" THEN attached ELSE CDRom
  /\ ovf \in Tree
  /\ image \in Tree
  /\ manifest \in {"none", "blank", "matching"}
  /\ out \in Output
  /\ prior \in Output

Init ==
  /\ run = 1 /\ pc = "validateConfig" /\ exit = "running"
  /\ attached \in SUBSET Removable
  /\ loaded \in SUBSET CDRom
  /\ todo = {}
  /\ ovf = "none" /\ image = "none" /\ manifest = "none"
  /\ out \in {"none", "stemcell"}
  /\ prior = out

-----------------------------------------------------------------------------

At(phase) == pc = phase /\ exit = "running"

Proceed(next) == pc' = next /\ UNCHANGED process

(* Execute reports the error and returns ExitFailure.                       *)
Fail ==
  /\ exit' = "failure"
  /\ todo' = {}
  /\ pc' = "validateConfig"
  /\ UNCHANGED <<run, prior>>

(* Bug: the output path is not looked at.                                   *)
ValidateConfigBlind ==
  /\ At("validateConfig")
  /\ (Proceed("validateSource") /\ UNCHANGED todo) \/ Fail
  /\ UNCHANGED <<vm, temp, out>>

(* ValidateConfig refuses a file that exists at the output path.            *)
ValidateConfig ==
  /\ At("validateConfig")
  /\ (out = "none" /\ Proceed("validateSource") /\ UNCHANGED todo) \/ Fail
  /\ UNCHANGED <<vm, temp, out>>

(* URL, credentials and inventory path.                                     *)
ValidateSourceParameters ==
  /\ At("validateSource")
  /\ (Proceed("listRemovable") /\ UNCHANGED todo) \/ Fail
  /\ UNCHANGED <<vm, temp, out>>

ListRemovable ==
  /\ At("listRemovable")
  /\ (Proceed("remove") /\ todo' = attached) \/ Fail
  /\ UNCHANGED <<vm, temp, out>>

(* Bug: the loop goes on after a device that could not be removed.          *)
RemoveDeviceErrIgnored ==
  /\ At("remove")
  /\ \/ /\ todo = {} /\ Proceed("listCDRoms") /\ UNCHANGED <<todo, attached>>
     \/ \E d \in todo :
          /\ attached' \in {attached, attached \ {d}}
          /\ todo' = todo \ {d}
          /\ Proceed("remove")
  /\ UNCHANGED <<loaded, temp, out>>

(* govc may report an error for a device it has removed all the same.       *)
RemoveDevice ==
  /\ At("remove")
  /\ \/ /\ todo = {} /\ Proceed("listCDRoms") /\ UNCHANGED <<todo, attached>>
     \/ \E d \in todo :
          \/ /\ attached' = attached \ {d}
             /\ todo' = todo \ {d}
             /\ Proceed("remove")
          \/ /\ attached' \in {attached, attached \ {d}}
             /\ Fail
  /\ UNCHANGED <<loaded, temp, out>>

ListCDRoms ==
  /\ At("listCDRoms")
  /\ (Proceed("eject") /\ todo' = CDRom) \/ Fail
  /\ UNCHANGED <<vm, temp, out>>

EjectCDRom ==
  /\ At("eject")
  /\ \/ /\ todo = {} /\ Proceed("makeDirs") /\ UNCHANGED <<todo, loaded>>
     \/ \E d \in todo :
          \/ /\ loaded' = loaded \ {d}
             /\ todo' = todo \ {d}
             /\ Proceed("eject")
          \/ /\ loaded' \in {loaded, loaded \ {d}}
             /\ Fail
  /\ UNCHANGED <<attached, temp, out>>

MakeDirectories ==
  /\ At("makeDirs")
  /\ (Proceed("export") /\ UNCHANGED todo) \/ Fail
  /\ UNCHANGED <<vm, temp, out>>

ExportVM ==
  /\ At("export")
  /\ \/ ovf' = "partial" /\ Proceed("exporting") /\ UNCHANGED todo
     \/ Fail /\ UNCHANGED ovf
  /\ UNCHANGED <<vm, image, manifest, out>>

ExportEnds ==
  /\ At("exporting")
  /\ \/ /\ ovf' = IF attached = {} /\ loaded = {} THEN "clean" ELSE "dirty"
        /\ Proceed("tarImage") /\ UNCHANGED todo
     \/ Fail /\ UNCHANGED ovf
  /\ UNCHANGED <<vm, image, manifest, out>>

-----------------------------------------------------------------------------
(* TarGenerator creates its destination, then copies.  Package overwrites   *)
(* or drops its error both times.                                           *)

CreateImage ==
  /\ At("tarImage")
  /\ \/ image' = "partial" /\ Proceed("tarringImage")
     \/ UNCHANGED image /\ Proceed("writeManifest")
  /\ UNCHANGED <<vm, todo, ovf, manifest, out>>

TarImage ==
  /\ At("tarringImage")
  /\ image' \in {image, ovf}
  /\ Proceed("writeManifest")
  /\ UNCHANGED <<vm, todo, ovf, manifest, out>>

(* The checksum is blank when TarGenerator has failed.                      *)
WriteManifest ==
  /\ At("writeManifest")
  /\ \/ /\ manifest' = IF image \in {"dirty", "clean"} THEN "matching" ELSE "blank"
        /\ Proceed("tarStemcell") /\ UNCHANGED todo
     \/ Fail /\ UNCHANGED manifest
  /\ UNCHANGED <<vm, ovf, image, out>>

Succeed ==
  /\ exit' = "success"
  /\ UNCHANGED <<run, pc, prior>>

CreateStemcell ==
  /\ At("tarStemcell")
  /\ \/ out' = "partial" /\ Proceed("tarringStemcell")
     \/ UNCHANGED out /\ Succeed
  /\ UNCHANGED <<vm, todo, temp>>

Packed == IF manifest # "matching" THEN "hollow"
          ELSE IF image = "clean" THEN "stemcell" ELSE image

(* Bug: the error is returned, with the half-written file left in place.    *)
TarStemcellLeavesPartial ==
  /\ At("tarringStemcell")
  /\ \/ out' = Packed /\ Succeed /\ UNCHANGED todo
     \/ UNCHANGED out /\ Fail
  /\ UNCHANGED <<vm, temp>>

TarStemcell ==
  /\ At("tarringStemcell")
  /\ out' \in {out, Packed}
  /\ Succeed
  /\ UNCHANGED <<vm, todo, temp>>

Command ==
  \/ ValidateConfig \/ ValidateSourceParameters
  \/ ListRemovable \/ RemoveDevice \/ ListCDRoms \/ EjectCDRom
  \/ MakeDirectories \/ ExportVM \/ ExportEnds
  \/ CreateImage \/ TarImage \/ WriteManifest \/ CreateStemcell \/ TarStemcell

Kill ==
  /\ exit = "running"
  /\ exit' = "killed"
  /\ UNCHANGED <<run, pc, prior, vm, todo, temp, out>>

(* The operator may clear the output path before the next run, and may have *)
(* put devices and media back.                                              *)
Rerun ==
  /\ exit # "running"
  /\ run < MaxRuns
  /\ run' = run + 1 /\ pc' = "validateConfig" /\ exit' = "running"
  /\ attached' \in {attached, Removable}
  /\ loaded' \in {loaded, CDRom}
  /\ todo' = {}
  /\ ovf' = "none" /\ image' = "none" /\ manifest' = "none"
  /\ out' \in {out, "none"}
  /\ prior' = out'

Next == Command \/ Kill \/ Rerun

Spec == Init /\ [][Next]_vars

-----------------------------------------------------------------------------
(* Correctness.                                                             *)

(* No stemcell is made of a VM that still has a floppy, a network card or a  *)
(* medium in a drive, whichever device failed in whichever run.              *)
StemcellIsStripped == "dirty" \notin {ovf, image, out}

(* A run that reports failure has left nothing at the output path.           *)
FailureLeavesNoOutput == exit = "failure" => out = prior

(* A run that finds a file at its output path, be it a stemcell or the       *)
(* remains of a killed run, changes neither that file nor the VM.            *)
RefusedRunIsHarmless ==
  [][exit = "running" /\ prior # "none" => UNCHANGED <<attached, loaded, out>>]_vars

Verdict == CASE exit = "running" -> "running"
             [] exit = "success" -> "succeeded"
             [] exit = "failure" -> "failed"
             [] exit = "killed"  -> "cutOff"

Abs == INSTANCE PackageAbs WITH
         Unfinished <- {"partial"},
         Delivered <- {"none", "partial", "hollow", "stemcell"},
         found <- prior, output <- out, verdict <- Verdict

(* The vCenter path is what `package` promises, though with errors of the   *)
(* tar step dropped a "delivery" may be anything but a stemcell with devices. *)
DeliversOrLeaves == Abs!Spec

(* "creates a valid stemcell in the output directory"                        *)
(* (packagers/vcenter_packager_test.go:116): a nil error means a stemcell.   *)
SuccessMeansStemcell == exit = "success" => out = "stemcell"

-----------------------------------------------------------------------------
(* The inductive strengthening of the invariants above.                     *)

Stripped == {"listCDRoms", "eject", "makeDirs", "export", "exporting"}
Ejected  == {"makeDirs", "export", "exporting"}

DevicesGone ==
  /\ exit = "running" /\ pc = "remove" => attached \subseteq todo
  /\ exit = "running" /\ pc \in Stripped => attached = {}
  /\ exit = "running" /\ pc = "eject" => loaded \subseteq todo
  /\ exit = "running" /\ pc \in Ejected => loaded = {}

OutputUntouched ==
  /\ exit = "running" /\ pc # "tarringStemcell" => out = prior
  /\ exit = "running" /\ pc # "validateConfig" => prior = "none"
  /\ pc = "validateConfig" /\ exit = "running" => ovf = "none"

IInv ==
  /\ TypeOK
  /\ DevicesGone
  /\ OutputUntouched
  /\ StemcellIsStripped
  /\ FailureLeavesNoOutput
=============================================================================
