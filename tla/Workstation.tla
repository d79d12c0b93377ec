----------------------------- MODULE Workstation -----------------------------
(***************************************************************************)
(* The stembuild processes that run in one working directory, one after     *)
(* another or at the same time: main.go, which writes the automation        *)
(* archive ./StemcellAutomation.zip at the start and removes it at the end, *)
(* the command line it parses in between, and the Execute of the two        *)
(* commands as far as it touches what the processes share: the archive,     *)
(* which construct reads to upload it, and the output path of package.      *)
(*                                                                         *)
(* The guest (Construct) and the conversions (VmdkPackager,                 *)
(* VcenterPackager) are their verdicts here.                                *)
(***************************************************************************)
EXTENDS Ovftool, FiniteSets

CONSTANTS
  Proc,      \* the processes
  Machines,  \* the workstations considered, as Ovftool sees them
  Mixes      \* what the processes are asked to do, one function per case

Command == {"construct", "vmdk", "vcenter", "noSource", "bothSources", "partOfSource",
            "unstamped", "version", "badFlag", "usage"}

VcenterFlags == {"url", "username", "password", "inventoryPath"}

(* The source flags a package command line gives.                           *)
Given(c) ==
  CASE c = "vmdk"         -> {"vmdk"}
    [] c = "vcenter"      -> VcenterFlags
    [] c = "bothSources"  -> {"vmdk", "url"}
    [] c = "partOfSource" -> {"url", "username"}
    [] OTHER              -> {}

ASSUME MachinesAssumption == Machines \subseteq Machine
ASSUME MixesAssumption == Mixes \subseteq [Proc -> Command]

VARIABLES
  machine,   \* this workstation
  cmd,       \* by process: what it was asked to do
  pc,        \* by process
  status,    \* by process: the exit status Execute returned, "none" before
  left,      \* by process: how it ended, "no" while it has not
  present,   \* ./StemcellAutomation.zip exists
  bytes,     \* whose data it holds; {} is a truncated file
  linked,    \* processes whose open handle is the file at that path
  uploaded,  \* by process: what construct has sent to the guest: {} or {bytes}
  out,       \* the file at the output path
  alone      \* processes that were never seen together with another one

archive == <<present, bytes, linked>>
vars == <<machine, cmd, pc, status, left, present, bytes, linked, uploaded, out, alone>>

Phase == {"unborn", "open", "write", "parse", "validate", "connect", "login", "findVM",
          "guest", "upload", "prepare", "versions", "config", "source", "space",
          "params", "ovftool", "convert", "create", "fill", "remove",
          "ended"}

TypeOK ==
  /\ machine \in Machines
  /\ cmd \in [Proc -> Command]
  /\ pc \in [Proc -> Phase]
  /\ status \in [Proc -> {"none", "success", "failure", "usage"}]
  /\ left \in [Proc -> {"no", "exit", "unwritten", "flags", "panic", "killed", "stuck"}]
  /\ present \in BOOLEAN
  /\ bytes \subseteq Proc
  /\ linked \subseteq Proc
  /\ uploaded \in [Proc -> SUBSET SUBSET Proc]
  /\ out \in [state : {"none", "partial", "whole"}, by : SUBSET Proc]
  /\ alone \subseteq Proc

NoOutput == [state |-> "none", by |-> {}]

Init ==
  /\ machine \in Machines
  /\ cmd \in Mixes
  /\ pc = [p \in Proc |-> "unborn"]
  /\ status = [p \in Proc |-> "none"]
  /\ left = [p \in Proc |-> "no"]
  /\ present = FALSE /\ bytes = {} /\ linked = {}
  /\ uploaded = [p \in Proc |-> {}]
  /\ out = NoOutput
  /\ alone = {}

Alive(p) == pc[p] \notin {"unborn", "ended"}

-----------------------------------------------------------------------------

At(p, phase) == pc[p] = phase

Goto(p, phase) == pc' = [pc EXCEPT ![p] = phase] /\ UNCHANGED <<status, left>>

(* Execute returns to main.                                                 *)
Return(p, s) ==
  /\ status' = [status EXCEPT ![p] = s]
  /\ pc' = [pc EXCEPT ![p] = "remove"]
  /\ UNCHANGED left

Leave(p, how) ==
  /\ left' = [left EXCEPT ![p] = how]
  /\ pc' = [pc EXCEPT ![p] = "ended"]
  /\ linked' = linked \ {p}
  /\ UNCHANGED status

(* A call that either succeeds or makes Execute return ExitFailure.         *)
Try(p, phase, next) ==
  /\ At(p, phase)
  /\ Goto(p, next) \/ Return(p, "failure")
  /\ UNCHANGED <<machine, cmd, archive, uploaded, out, alone>>

(* main loads the archive from its own binary.                              *)
Start(p) ==
  /\ At(p, "unborn")
  /\ Goto(p, "open")
  /\ alone' = IF \E q \in Proc : Alive(q) THEN {q \in alone : ~Alive(q)}
                                          ELSE alone \union {p}
  /\ UNCHANGED <<machine, cmd, archive, uploaded, out>>

(* Bug: an archive that is there already is taken as it is.                 *)
OpenIfMissing(p) ==
  /\ At(p, "open")
  /\ IF present THEN Goto(p, "parse") /\ UNCHANGED archive
     ELSE /\ present' = TRUE /\ bytes' = {} /\ linked' = {p}
          /\ Goto(p, "write")
  /\ UNCHANGED <<machine, cmd, uploaded, out, alone>>

(* ioutil.WriteFile: open with O_CREATE and O_TRUNC, then write.            *)
OpenArchive(p) ==
  /\ At(p, "open")
  /\ \/ /\ present' = TRUE /\ bytes' = {} /\ linked' = linked \union {p}
        /\ Goto(p, "write")
     \/ Leave(p, "unwritten") /\ UNCHANGED <<present, bytes>>
  /\ UNCHANGED <<machine, cmd, uploaded, out, alone>>

(* A file that has been removed meanwhile takes the data with it; one that  *)
(* another process is writing too holds a mixture.                          *)
WriteArchive(p) ==
  /\ At(p, "write")
  /\ \/ /\ bytes' = IF p \in linked THEN bytes \union {p} ELSE bytes
        /\ linked' = linked \ {p}
        /\ Goto(p, "parse")
     \/ /\ bytes' = IF p \in linked THEN {} ELSE bytes
        /\ Leave(p, "unwritten")
  /\ UNCHANGED <<machine, cmd, present, uploaded, out, alone>>

(* The top-level flag set ends the process by itself, for -help too; the    *)
(* flag set of a command makes Execute return.                              *)
Parse(p) ==
  /\ At(p, "parse")
  /\ CASE cmd[p] = "badFlag"   -> Leave(p, "flags")
       [] cmd[p] = "version"   -> Goto(p, "remove") /\ UNCHANGED linked
       [] cmd[p] = "usage"     -> /\ Return(p, "usage") \/ Return(p, "success")
                                  /\ UNCHANGED linked
       [] cmd[p] = "construct" -> /\ Goto(p, "validate") \/ Return(p, "usage")
                                  /\ UNCHANGED linked
       [] OTHER                -> /\ Goto(p, "versions") \/ Return(p, "usage")
                                  /\ UNCHANGED linked
  /\ UNCHANGED <<machine, cmd, present, bytes, uploaded, out, alone>>

(* Bug: a command that fails exits without the removal.                     *)
RemoveArchiveOnSuccess(p) ==
  /\ At(p, "remove")
  /\ IF status[p] = "failure" THEN UNCHANGED archive
     ELSE present' = FALSE /\ bytes' = {} /\ linked' = {}
  /\ left' = [left EXCEPT ![p] = "exit"]
  /\ pc' = [pc EXCEPT ![p] = "ended"]
  /\ UNCHANGED <<machine, cmd, status, uploaded, out, alone>>

(* os.Remove, its error ignored: it may fail anywhere, and Windows refuses   *)
(* it while another process writes to the file.                             *)
RemoveArchive(p) ==
  /\ At(p, "remove")
  /\ \/ /\ machine.platform = "windows" => linked = {}
        /\ present' = FALSE /\ bytes' = {} /\ linked' = {}
        /\ left' = [left EXCEPT ![p] = "exit"]
     \/ left' = [left EXCEPT ![p] = "stuck"] /\ UNCHANGED archive
  /\ pc' = [pc EXCEPT ![p] = "ended"]
  /\ UNCHANGED <<machine, cmd, status, uploaded, out, alone>>

-----------------------------------------------------------------------------
(* ConstructCmd.Execute.                                                    *)

(* PopulatedArgs and LGPOInDirectory.                                       *)
ValidateArgs(p) == Try(p, "validate", "connect")

VCenterManager(p) == Try(p, "connect", "login")

Login(p) == Try(p, "login", "findVM")

FindVM(p) == Try(p, "findVM", "guest")

GuestManager(p) == Try(p, "guest", "upload")

VMPreparer(p) == Login(p) \/ FindVM(p) \/ GuestManager(p)

(* PrepareVM up to the upload of the archive, which it reads from the       *)
(* working directory.                                                       *)
UploadAutomation(p) ==
  /\ At(p, "upload")
  /\ \/ /\ present
        /\ uploaded' = [uploaded EXCEPT ![p] = {bytes}]
        /\ Goto(p, "prepare") \/ Return(p, "failure")
     \/ Return(p, "failure") /\ UNCHANGED uploaded
  /\ UNCHANGED <<machine, cmd, archive, out, alone>>

PrepareVM(p) ==
  /\ At(p, "prepare")
  /\ Return(p, "success") \/ Return(p, "failure")
  /\ UNCHANGED <<machine, cmd, archive, uploaded, out, alone>>

-----------------------------------------------------------------------------
(* PackageCmd.Execute.                                                      *)

VmdkProvided(given)           == "vmdk" \in given
VcenterProvided(given)        == VcenterFlags \subseteq given
PartialVcenterProvided(given) == VcenterFlags \cap given # {}

GetSource(c) ==
  CASE VmdkProvided(Given(c)) /\ ~PartialVcenterProvided(Given(c)) -> "VMDK"
    [] VcenterProvided(Given(c)) /\ ~VmdkProvided(Given(c))        -> "VCENTER"
    [] OTHER                                                       -> "NIL"

(* GetVersion takes the first two parts of the version; a build without a   *)
(* stamped version is "dev", which has one.                                 *)
SetVersions(p) ==
  /\ At(p, "versions")
  /\ IF cmd[p] = "unstamped" THEN Leave(p, "panic")
                             ELSE Goto(p, "config") /\ UNCHANGED linked
  /\ UNCHANGED <<machine, cmd, present, bytes, uploaded, out, alone>>

(* Bug: a file that has no contents yet is not taken for one.               *)
ValidateConfigPartial(p) ==
  /\ At(p, "config")
  /\ (out.state # "whole" /\ Goto(p, "source")) \/ Return(p, "failure")
  /\ UNCHANGED <<machine, cmd, archive, uploaded, out, alone>>

(* A file at the output path is refused.                                    *)
ValidateConfig(p) ==
  /\ At(p, "config")
  /\ (out = NoOutput /\ Goto(p, "source")) \/ Return(p, "failure")
  /\ UNCHANGED <<machine, cmd, archive, uploaded, out, alone>>

(* Packager asks GetSource: a configuration for both sources, or for part of  *)
(* one, or none at all is an error.                                         *)
Packager(p) ==
  /\ At(p, "source")
  /\ CASE GetSource(cmd[p]) = "VMDK"    -> Goto(p, "space")
       [] GetSource(cmd[p]) = "VCENTER" -> Goto(p, "params")
       [] GetSource(cmd[p]) = "NIL"     -> Return(p, "failure")
  /\ UNCHANGED <<machine, cmd, archive, uploaded, out, alone>>

ValidateFreeSpaceForPackage(p) == Try(p, "space", "params")

(* IsValidVMDK, or the vCenter URL, credentials and inventory path.         *)
ValidateSourceParameters(p) ==
  /\ At(p, "params")
  /\ \/ cmd[p] = "vmdk" /\ Goto(p, "ovftool")
     \/ cmd[p] = "vcenter" /\ Goto(p, "create")
     \/ Return(p, "failure")
  /\ UNCHANGED <<machine, cmd, archive, uploaded, out, alone>>

LocateOvftool(p) ==
  /\ At(p, "ovftool")
  /\ IF Located(machine) THEN Goto(p, "convert") ELSE Return(p, "failure")
  /\ UNCHANGED <<machine, cmd, archive, uploaded, out, alone>>

(* Bug: the stemcell is written at the output path itself, and stays there   *)
(* as far as it got.                                                        *)
ConvertInPlace(p) ==
  /\ At(p, "convert")
  /\ \E state \in {"partial", "whole"} : out' = [state |-> state, by |-> {p}]
  /\ IF out'.state = "whole" THEN Return(p, "success") ELSE Return(p, "failure")
  /\ UNCHANGED <<machine, cmd, archive, uploaded, alone>>

(* VmdkPackager renames a whole stemcell onto the output path, replacing    *)
(* whatever is there by then.                                               *)
Convert(p) ==
  /\ At(p, "convert")
  /\ \/ out' = [state |-> "whole", by |-> {p}] /\ Return(p, "success")
     \/ UNCHANGED out /\ Return(p, "failure")
  /\ UNCHANGED <<machine, cmd, archive, uploaded, alone>>

(* VCenterPackager may fail, or create the file at the output path, or go   *)
(* on without it.                                                           *)
CreateStemcell(p) ==
  /\ At(p, "create")
  /\ \/ /\ out' = [state |-> "partial",
                   by |-> (IF out.state = "partial" THEN out.by ELSE {}) \union {p}]
        /\ Goto(p, "fill")
     \/ UNCHANGED out /\ (Return(p, "failure") \/ Return(p, "success"))
  /\ UNCHANGED <<machine, cmd, archive, uploaded, alone>>

(* The error of the second TarGenerator is dropped.                         *)
FillStemcell(p) ==
  /\ At(p, "fill")
  /\ \/ out.state = "partial" /\ out.by = {p} /\ out' = [out EXCEPT !.state = "whole"]
     \/ UNCHANGED out
  /\ Return(p, "success")
  /\ UNCHANGED <<machine, cmd, archive, uploaded, alone>>

-----------------------------------------------------------------------------

(* The default action of an interrupt, the os.Exit(1) of a second one       *)
(* during a VMDK conversion, or a crash.                                    *)
Kill(p) ==
  /\ Alive(p)
  /\ Leave(p, "killed")
  /\ UNCHANGED <<machine, cmd, present, bytes, uploaded, out, alone>>

(* The operator takes the file at the output path away.                     *)
ClearOutput ==
  /\ out # NoOutput
  /\ out' = NoOutput
  /\ UNCHANGED <<machine, cmd, pc, status, left, archive, uploaded, alone>>

Construct(p) ==
  \/ ValidateArgs(p) \/ VCenterManager(p) \/ VMPreparer(p)
  \/ UploadAutomation(p) \/ PrepareVM(p)

Package(p) ==
  \/ SetVersions(p) \/ ValidateConfig(p) \/ Packager(p)
  \/ ValidateFreeSpaceForPackage(p) \/ ValidateSourceParameters(p) \/ LocateOvftool(p)
  \/ Convert(p) \/ CreateStemcell(p) \/ FillStemcell(p)

Main(p) ==
  \/ Start(p) \/ OpenArchive(p) \/ WriteArchive(p) \/ Parse(p)
  \/ RemoveArchive(p)

Next == ClearOutput \/ \E p \in Proc : Main(p) \/ Construct(p) \/ Package(p) \/ Kill(p)

Spec == Init /\ [][Next]_vars

-----------------------------------------------------------------------------
(* Correctness.                                                             *)

(* A construct that never shared the directory with another running process  *)
(* uploads the whole of its own archive, whatever killed, panicked or        *)
(* refused processes left at the path before it.                             *)
UploadIsOwn ==
  \A p \in Proc : uploaded[p] \subseteq {{p}} \/ p \notin alone

(* An archive in the directory belongs to a process that is still at work,   *)
(* or was left by one that did not get to the end of main or was refused the *)
(* removal there; no command and no verdict of one ends without it.          *)
ArchiveIsExplained ==
  present => \E p \in Proc : \/ pc[p] \notin {"unborn", "open", "ended"}
                             \/ left[p] \notin {"no", "exit"}

(* What is at the output path is replaced only by a process that was running *)
(* together with another one: the file is looked for long before it is       *)
(* written, and only an overlap puts one there in between.                   *)
OutputIsReplacedByOverlap ==
  [][\A p \in alone : out.state # "none" /\ p \notin out.by => p \notin out'.by]_vars

(* What the usage of package asks for is enough for a valid VMDK not to be   *)
(* refused for want of ovftool.                                             *)
AvailableIsLocated ==
  [][\A p \in Proc : pc[p] = "ovftool" /\ pc'[p] = "remove" => ~Available(machine)]_vars

-----------------------------------------------------------------------------
(* A package process that has looked at the output path, behind PackageAbs.  *)

Packaging == {"source", "space", "params", "ovftool", "convert", "create", "fill"}

(* The VMDK packager renames its stemcell there; the vCenter packager writes *)
(* it in place, and reports success whatever came of it.                    *)
Remains(c)    == IF c = "vmdk" THEN {} ELSE {"partial"}
Deliveries(c) == IF c = "vmdk" THEN {"whole"} ELSE {"none", "partial", "whole"}

PackageVerdict(p) ==
  CASE pc[p] \in Packaging    -> "running"
    [] status[p] = "success"  -> "succeeded"
    [] status[p] = "failure"  -> "failed"
    [] OTHER                  -> "cutOff"

Lone(p, c) == INSTANCE PackageAbs WITH
  Unfinished <- Remains(c), Delivered <- Deliveries(c),
  found <- "none", output <- out.state, verdict <- PackageVerdict(p)

(* What both packagers promise about the output path they keep in the        *)
(* directory the processes share: whatever happens while a package that      *)
(* found the path free has been alone, the operator clearing the path        *)
(* included, is a step that PackageAbs allows.                              *)
LonePackageIsPackage ==
  [][\A p \in alone, c \in Command :
       cmd[p] = c /\ pc[p] \in Packaging => Lone(p, c)!Next \/ UNCHANGED Lone(p, c)!vars]_vars

-----------------------------------------------------------------------------
(* The inductive strengthening of the properties above.                     *)

(* Only a writer has the file open; a process that has gone left a reason.  *)
Bookkeeping ==
  /\ linked \subseteq {p \in Proc : pc[p] = "write"}
  /\ \A p \in Proc : /\ left[p] # "no" => pc[p] = "ended"
                     /\ pc[p] = "unborn" => uploaded[p] = {} /\ p \notin alone

AloneIsAlone ==
  \A p \in alone : Alive(p) => \A q \in Proc \ {p} : ~Alive(q)

(* Nobody touches what a lone process has written or looked for.            *)
OwnArchive ==
  \A p \in alone :
    /\ pc[p] = "write" => present /\ bytes = {} /\ p \in linked
    /\ pc[p] \notin {"unborn", "open", "write", "ended"} => present /\ bytes = {p}

OutputSeen ==
  \A p \in alone :
    pc[p] \in {"source", "space", "params", "ovftool", "convert", "create"}
      => out = NoOutput

(* A command returns once, and each packager is reached by its own command.  *)
OwnWay ==
  \A p \in Proc :
    /\ pc[p] \notin {"remove", "ended"} => status[p] = "none"
    /\ pc[p] \in {"ovftool", "convert"} => cmd[p] = "vmdk"
    /\ pc[p] \in {"create", "fill"} => cmd[p] = "vcenter"

IInv ==
  /\ TypeOK
  /\ Bookkeeping
  /\ AloneIsAlone
  /\ OwnArchive
  /\ OutputSeen
  /\ UploadIsOwn
  /\ ArchiveIsExplained
=============================================================================
