---------------------------- MODULE VmdkPackager ----------------------------
(***************************************************************************)
(* `stembuild package -vmdk`: VmdkPackager.Package turns a VMDK into a      *)
(* stemcell inside a temporary directory and moves the result to the output *)
(* directory, while a second goroutine catches interrupts, closes the Stop  *)
(* channel and removes the same directory, and ovftool runs as a child      *)
(* process.  The two goroutines share c.tmpdir without synchronisation.     *)
(***************************************************************************)
EXTENDS Naturals

CONSTANT MaxSignals   \* interrupts the user sends (a bound)

ASSUME MaxSignalsAssumption == MaxSignals \in Nat

VARIABLES
  pc,        \* main goroutine
  cause,     \* class of the error Package returns, "none" without one
  exit,      \* how the process ended, "running" while it has not
  named,     \* c.tmpdir is set
  dir,       \* the temporary directory exists
  files,     \* its entries
  stemcell,  \* contents of the stemcell file being written
  sameDisk,  \* temporary and output directory are on one file system
  out,       \* the file at the output path
  zip,       \* ./StemcellAutomation.zip, written by main() at the start
  ovftool,   \* the child process
  stop,      \* the Stop channel is closed
  sig,       \* catchInterruptSignal
  pending,   \* interrupts queued in its channel
  sent,      \* interrupts sent so far
  listed,    \* by goroutine: what its os.RemoveAll read from the directory
  refused    \* what the system refused main to remove: "tmp", "zip" (history)

tmp    == <<named, dir, files>>
result == <<stemcell, out, sameDisk>>
os     == <<zip, ovftool>>
handler == <<stop, sig, pending, sent>>
removal == <<listed, refused>>
vars   == <<pc, cause, exit, named, dir, files, stemcell, sameDisk, out, zip,
            ovftool, stop, sig, pending, sent, listed, refused>>

Entry    == {"vmx", "ova", "image", "manifest", "stemcell"}
Contents == {"none", "partial", "complete"}
Cause    == {"none", "io", "gone", "interrupt", "crossDevice"}
Building == {"mkTemp", "nameTmp", "writeVMX", "startOvftool", "waitOvftool",
             "createImage", "copyImage", "writeManifest", "openStemcell",
             "addImage", "writeImage", "addManifest", "writeMF",
             "closeStemcell", "writeTrailer", "rename"}
(* A call of CancelReader's or CancelWriter's has seen Stop open.           *)
Transferring == {"writeImage", "writeMF", "writeTrailer"}
Phase    == Building \union {"cleanup", "removing", "removeZip", "exit"}
Handler  == {"unregistered", "waiting", "closing", "cleanup", "removing",
             "lastCleanup", "lastRemoving"}
Goroutine == {"main", "signal"}

TypeOK ==
  /\ pc \in Phase
  /\ cause \in Cause
  /\ exit \in {"running", "success", "failure", "second", "default", "panic"}
  /\ named \in BOOLEAN /\ dir \in BOOLEAN
  /\ files \subseteq Entry
  /\ stemcell \in Contents
  /\ out \in Contents
  /\ sameDisk \in BOOLEAN
  /\ zip \in BOOLEAN
  /\ ovftool \in {"none", "starting", "writing", "exit0", "failed", "dying", "dead"}
  /\ stop \in BOOLEAN
  /\ sig \in Handler
  /\ sent \in 0 .. MaxSignals
  /\ pending \in 0 .. sent
  /\ listed \in [Goroutine -> SUBSET Entry]
  /\ refused \subseteq {"tmp", "zip"}

(* The temporary directory is made inside the output directory, unless none *)
(* was named: ValidateConfig's default is lost with its value receiver, and *)
(* ioutil.TempDir then uses the system's directory.                         *)
Init ==
  /\ pc = "mkTemp"
  /\ cause = "none"
  /\ exit = "running"
  /\ named = FALSE /\ dir = FALSE /\ files = {}
  /\ stemcell = "none" /\ out = "none"
  /\ sameDisk \in BOOLEAN
  /\ zip = TRUE
  /\ ovftool = "none"
  /\ stop = FALSE
  /\ sig = "unregistered"
  /\ pending = 0 /\ sent = 0
  /\ listed = [g \in Goroutine |-> {}]
  /\ refused = {}

-----------------------------------------------------------------------------
(* The main goroutine.                                                      *)

At(phase) == pc = phase /\ exit = "running"

Proceed(next) == pc' = next /\ UNCHANGED cause

Fail(c) == pc' = "cleanup" /\ cause' = c

(* Opening or creating a file in a directory that has been removed fails.   *)
Create(entry, next) ==
  /\ \/ dir /\ files' = files \union {entry} /\ Proceed(next)
     \/ ~dir /\ UNCHANGED files /\ Fail("gone")
     \/ UNCHANGED files /\ Fail("io")
  /\ UNCHANGED <<named, dir>>

MkTemp ==
  /\ At("mkTemp")
  /\ dir' \in BOOLEAN
  /\ IF dir' THEN Proceed("nameTmp") ELSE Fail("io")
  /\ UNCHANGED <<exit, named, files, result, os, handler, removal>>

NameTmp ==
  /\ At("nameTmp")
  /\ named' = TRUE
  /\ Proceed("writeVMX")
  /\ UNCHANGED <<exit, dir, files, result, os, handler, removal>>

(* What could be created but not written is removed again, if that succeeds. *)
CreateAndWrite(entry, next) ==
  \/ Create(entry, next)
  \/ /\ dir /\ files' = files \union {entry}
     /\ Fail("io")
     /\ UNCHANGED <<named, dir>>

WriteVMXTemplate == CreateAndWrite("vmx", "startOvftool")

WriteVMX ==
  /\ At("writeVMX")
  /\ WriteVMXTemplate
  /\ UNCHANGED <<exit, result, os, handler, removal>>

StartOvftool ==
  /\ At("startOvftool")
  /\ \/ ovftool' = "starting" /\ Proceed("waitOvftool")
     \/ UNCHANGED ovftool /\ Fail("io")
  /\ UNCHANGED <<exit, tmp, result, zip, handler, removal>>

(* Bug: cmd.Run instead of the select.                                      *)
WaitOvftoolOnly ==
  /\ At("waitOvftool")
  /\ \/ ovftool = "exit0" /\ Proceed("createImage")
     \/ ovftool = "failed" /\ Fail("io")
  /\ UNCHANGED <<exit, tmp, result, os, handler, removal>>

(* When both cases of the select are ready either may be taken.  Kill does  *)
(* not wait for the process to be gone.                                     *)
WaitOvftool ==
  /\ At("waitOvftool")
  /\ \/ /\ ovftool = "exit0" /\ UNCHANGED ovftool /\ Proceed("createImage")
     \/ /\ ovftool = "failed" /\ UNCHANGED ovftool /\ Fail("io")
     \/ /\ stop
        /\ ovftool' = CASE ovftool = "starting" -> "dying"
                        [] ovftool = "writing"  -> "dead"
                        [] OTHER                -> ovftool
        /\ Fail("interrupt")
  /\ UNCHANGED <<exit, tmp, result, zip, handler, removal>>

CreateImage ==
  /\ At("createImage")
  /\ IF "ova" \in files THEN Create("image", "copyImage")
                        ELSE Fail("gone") /\ UNCHANGED tmp
  /\ UNCHANGED <<exit, result, os, handler, removal>>

(* From here on the open files stay readable even if their entries go.      *)
CopyImage ==
  /\ At("copyImage")
  /\ Proceed("writeManifest") \/ Fail("io")
  /\ UNCHANGED <<exit, tmp, result, os, handler, removal>>

WriteManifest ==
  /\ At("writeManifest")
  /\ CreateAndWrite("manifest", "openStemcell")
  /\ UNCHANGED <<exit, result, os, handler, removal>>

OpenStemcell ==
  /\ At("openStemcell")
  /\ Create("stemcell", "addImage")
  /\ stemcell' = IF pc' = "addImage" THEN "partial" ELSE stemcell
  /\ UNCHANGED <<exit, out, sameDisk, os, handler, removal>>

(* errorf: the partial stemcell is removed, unless the system refuses.      *)
Discard(c) ==
  /\ Fail(c)
  /\ files' \in {files, files \ {"stemcell"}}
  /\ UNCHANGED <<named, dir>>

(* CancelReader and CancelWriter look at Stop first and call Read or Write   *)
(* then; the channel may be closed between the two.                         *)
Transfers == ~stop

AddTarFile(entry, next) ==
  /\ \/ entry \in files /\ Transfers /\ Proceed(next) /\ UNCHANGED tmp
     \/ entry \notin files /\ Discard("gone")
     \/ ~Transfers /\ Discard("interrupt")
     \/ Discard("io")
  /\ UNCHANGED stemcell

AddImage ==
  /\ At("addImage")
  /\ AddTarFile("image", "writeImage")
  /\ UNCHANGED <<exit, out, sameDisk, os, handler, removal>>

AddManifest ==
  /\ At("addManifest")
  /\ AddTarFile("manifest", "writeMF")
  /\ UNCHANGED <<exit, out, sameDisk, os, handler, removal>>

(* The last Read or Write of the entry, begun before Stop was looked at again. *)
Transfer ==
  /\ \/ At("writeImage") /\ Proceed("addManifest") /\ UNCHANGED tmp
     \/ At("writeMF") /\ Proceed("closeStemcell") /\ UNCHANGED tmp
     \/ (At("writeImage") \/ At("writeMF")) /\ Discard("io")
  /\ UNCHANGED <<exit, result, os, handler, removal>>

(* Bug: gzip writes to the file itself, not through c.Writer.               *)
CloseStemcellUnchecked ==
  /\ At("closeStemcell")
  /\ \/ Proceed("writeTrailer") /\ UNCHANGED tmp
     \/ Discard("io")
  /\ UNCHANGED <<exit, result, os, handler, removal>>

(* The two Close calls: the tar and gzip trailers are written, up to the     *)
(* last Write.                                                              *)
CloseStemcell ==
  /\ At("closeStemcell")
  /\ \/ Transfers /\ Proceed("writeTrailer") /\ UNCHANGED tmp
     \/ ~Transfers /\ Discard("interrupt")
     \/ Discard("io")
  /\ UNCHANGED <<exit, result, os, handler, removal>>

(* Bug: the errors of the two Close calls are dropped.                      *)
WriteTrailerErrDropped ==
  /\ At("writeTrailer")
  /\ stemcell' \in {stemcell, "complete"}
  /\ Proceed("rename")
  /\ UNCHANGED <<exit, tmp, out, sameDisk, os, handler, removal>>

WriteTrailer ==
  /\ At("writeTrailer")
  /\ \/ stemcell' = "complete" /\ Proceed("rename") /\ UNCHANGED tmp
     \/ Discard("io") /\ UNCHANGED stemcell
  /\ UNCHANGED <<exit, out, sameDisk, os, handler, removal>>

(* Bug: the error of os.Rename is dropped.                                  *)
RenameErrDropped ==
  /\ At("rename")
  /\ Proceed("cleanup")
  /\ \/ /\ sameDisk /\ "stemcell" \in files
        /\ files' = files \ {"stemcell"}
        /\ out' = stemcell
     \/ UNCHANGED <<files, out>>
  /\ UNCHANGED <<exit, named, dir, stemcell, sameDisk, os, handler, removal>>

Rename ==
  /\ At("rename")
  /\ \/ /\ sameDisk /\ "stemcell" \in files
        /\ files' = files \ {"stemcell"}
        /\ out' = stemcell
        /\ Proceed("cleanup")
     \/ /\ UNCHANGED <<files, out>>
        /\ \/ ~sameDisk /\ Fail("crossDevice")
           \/ "stemcell" \notin files /\ Fail("gone")
           \/ Fail("io")
  /\ UNCHANGED <<exit, named, dir, stemcell, sameDisk, os, handler, removal>>

-----------------------------------------------------------------------------
(* Cleanup, by either goroutine.  os.RemoveAll reads the directory, unlinks *)
(* what it read and removes the directory if it is empty then.  The system   *)
(* may refuse any of these calls, and os.Stat before them; the errors are   *)
(* dropped.                                                                 *)

StartRemoval(g) == listed' = [listed EXCEPT ![g] = files]

Unlink(g) ==
  \E f \in listed[g] \intersect files :
    /\ files' = files \ {f}
    /\ UNCHANGED <<named, dir>>

RemoveDir(g) ==
  /\ listed[g] \intersect files = {}
  /\ dir' = (files # {})
  /\ UNCHANGED <<named, files>>

Refuse(what) == refused' = refused \union {what}

(* Bug: Package cleans up only where it reports an error.                   *)
CleanupOnErrorOnly ==
  /\ At("cleanup")
  /\ \/ /\ named /\ dir /\ cause # "none"
        /\ StartRemoval("main") /\ Proceed("removing") /\ UNCHANGED refused
     \/ /\ ~(named /\ dir /\ cause # "none")
        /\ Proceed("removeZip") /\ UNCHANGED removal
  /\ UNCHANGED <<exit, tmp, result, os, handler>>

Cleanup ==
  /\ At("cleanup")
  /\ \/ /\ named /\ dir
        /\ StartRemoval("main") /\ Proceed("removing") /\ UNCHANGED refused
     \/ /\ named /\ dir
        /\ Refuse("tmp") /\ Proceed("removeZip") /\ UNCHANGED listed
     \/ /\ ~(named /\ dir)
        /\ Proceed("removeZip") /\ UNCHANGED removal
  /\ UNCHANGED <<exit, tmp, result, os, handler>>

Remove ==
  /\ At("removing")
  /\ \/ Unlink("main") /\ UNCHANGED <<pc, refused>>
     \/ RemoveDir("main") /\ pc' = "removeZip" /\ UNCHANGED refused
     \/ UNCHANGED tmp /\ pc' = "removeZip" /\ Refuse("tmp")
  /\ UNCHANGED <<cause, exit, result, os, handler, listed>>

RemoveZip ==
  /\ At("removeZip")
  /\ \/ zip' = FALSE /\ UNCHANGED refused
     \/ UNCHANGED zip /\ Refuse("zip")
  /\ Proceed("exit")
  /\ UNCHANGED <<exit, tmp, result, ovftool, handler, listed>>

Exit ==
  /\ At("exit")
  /\ exit' = IF cause = "none" THEN "success" ELSE "failure"
  /\ UNCHANGED <<pc, cause, tmp, result, os, handler, removal>>

Main ==
  \/ MkTemp \/ NameTmp \/ WriteVMX \/ StartOvftool \/ WaitOvftool
  \/ CreateImage \/ CopyImage \/ WriteManifest
  \/ OpenStemcell \/ AddImage \/ AddManifest \/ Transfer
  \/ CloseStemcell \/ WriteTrailer \/ Rename
  \/ Cleanup \/ Remove \/ RemoveZip \/ Exit

-----------------------------------------------------------------------------
(* catchInterruptSignal.                                                    *)

Sig(phase) == sig = phase /\ exit = "running"

Notify ==
  /\ Sig("unregistered")
  /\ sig' = "waiting"
  /\ UNCHANGED <<pc, cause, exit, tmp, result, os, stop, pending, sent, removal>>

(* Until the handler is registered an interrupt ends the process.           *)
Interrupt ==
  /\ exit = "running"
  /\ sent < MaxSignals
  /\ sent' = sent + 1
  /\ IF sig = "unregistered" THEN exit' = "default" /\ UNCHANGED pending
                             ELSE pending' = pending + 1 /\ UNCHANGED exit
  /\ UNCHANGED <<pc, cause, tmp, result, os, stop, sig, removal>>

(* Bug: the directory is removed before the channel is closed.              *)
ReceiveCleansFirst ==
  /\ Sig("waiting")
  /\ pending > 0
  /\ pending' = pending - 1
  /\ sig' = IF stop THEN "lastCleanup" ELSE "cleanup"
  /\ UNCHANGED <<pc, cause, exit, tmp, result, os, stop, sent, removal>>

Receive ==
  /\ Sig("waiting")
  /\ pending > 0
  /\ pending' = pending - 1
  /\ sig' = IF stop THEN "lastCleanup" ELSE "closing"
  /\ UNCHANGED <<pc, cause, exit, tmp, result, os, stop, sent, removal>>

CloseStop ==
  /\ Sig("closing")
  /\ stop' = TRUE
  /\ sig' = "cleanup"
  /\ UNCHANGED <<pc, cause, exit, tmp, result, os, pending, sent, removal>>

(* What follows the handler's Cleanup: the next interrupt, or os.Exit.      *)
Cleaned(last) ==
  /\ sig' = "waiting"
  /\ exit' = IF sig = last THEN "second" ELSE "running"

(* Cleanup reads c.tmpdir while main may be writing it; os.Stat may fail.   *)
StopCleanup ==
  /\ Sig("cleanup") \/ Sig("lastCleanup")
  /\ \/ /\ named /\ dir
        /\ StartRemoval("signal")
        /\ sig' = IF sig = "cleanup" THEN "removing" ELSE "lastRemoving"
        /\ UNCHANGED exit
     \/ Cleaned("lastCleanup") /\ UNCHANGED listed
     \/ /\ pc = "nameTmp"
        /\ exit' = "panic"
        /\ UNCHANGED <<sig, listed>>
  /\ UNCHANGED <<pc, cause, tmp, result, os, stop, pending, sent, refused>>

StopRemove ==
  /\ Sig("removing") \/ Sig("lastRemoving")
  /\ \/ Unlink("signal") /\ UNCHANGED <<sig, exit>>
     \/ (RemoveDir("signal") \/ UNCHANGED tmp) /\ Cleaned("lastRemoving")
  /\ UNCHANGED <<pc, cause, result, os, stop, pending, sent, removal>>

CatchInterruptSignal == Notify \/ Receive \/ CloseStop \/ StopCleanup \/ StopRemove

-----------------------------------------------------------------------------
(* ovftool creates its output once; after the kill a call already under way *)
(* still takes effect.                                                      *)

OvftoolCreates ==
  /\ ovftool \in {"starting", "dying"}
  /\ dir
  /\ files' = files \union {"ova"}
  /\ ovftool' = IF ovftool = "starting" THEN "writing" ELSE "dead"
  /\ UNCHANGED <<pc, cause, exit, named, dir, result, zip, handler, removal>>

OvftoolEnds ==
  /\ \/ ovftool = "writing" /\ ovftool' = "exit0"
     \/ ovftool \in {"starting", "writing"} /\ ovftool' = "failed"
     \/ ovftool = "dying" /\ ovftool' = "dead"
  /\ UNCHANGED <<pc, cause, exit, tmp, result, zip, handler, removal>>

Next == Main \/ CatchInterruptSignal \/ Interrupt \/ OvftoolCreates \/ OvftoolEnds

Spec == Init /\ [][Next]_vars

(* When the main goroutine can go on: always, except in the select, where it *)
(* waits for ovftool or for Stop.                                           *)
MainReady ==
  /\ exit = "running"
  /\ pc = "waitOvftool" => stop \/ ovftool \in {"exit0", "failed"}

(* Both goroutines keep being scheduled; ovftool may hang.                  *)
FairSpec == Spec /\ WF_vars(Main) /\ WF_vars(CatchInterruptSignal)

-----------------------------------------------------------------------------
(* Correctness.                                                             *)

(* Whatever is at the output path is a whole stemcell: no interrupt, no      *)
(* failure and no removal under the writer's hands leaves a truncated one.   *)
OutputIsWhole == out \in {"none", "complete"}

(* The exit status tells whether there is a stemcell, in both directions,    *)
(* unless the process was ended by a second or an unhandled interrupt.       *)
StatusTellsOutput ==
  /\ exit = "success" => out = "complete"
  /\ exit = "failure" => out = "none"

(* A process that ends by returning from Package leaves no running ovftool, *)
(* and no temporary directory or automation archive that the system did not *)
(* refuse main to remove, although two goroutines may have been removing the *)
(* directory at once and the other may have given up half way -- provided   *)
(* ovftool did not have to be killed.                                       *)
ReturnCleansUp ==
  exit \in {"success", "failure"} =>
    /\ ovftool \notin {"starting", "writing"}
    /\ "zip" \notin refused => ~zip
    /\ "tmp" \notin refused /\ ovftool \notin {"dying", "dead"} => ~dir

(* The temporary directory vanishes under the conversion only once Stop has  *)
(* been closed: whoever meets a missing file has been told to stop.          *)
GoneOnlyWhenStopped == cause = "gone" => stop

(* From the moment Stop is closed no Read or Write of the stemcell begins,   *)
(* and an unfinished stemcell stays unfinished and undelivered, unless its  *)
(* last Write had been let through before.                                  *)
InterruptIsFinal ==
  [][stop => /\ pc' \in Transferring => pc' = pc
             /\ stemcell # "complete" /\ pc # "writeTrailer"
                  => stemcell' # "complete" /\ out' = out]_vars

(* The first interrupt ends the command, even if ovftool hangs.              *)
InterruptEndsCommand == stop ~> exit # "running"

(* What the process's end says: only Execute's own return is a verdict.      *)
Verdict == CASE exit = "running" -> "running"
             [] exit = "success" -> "succeeded"
             [] exit = "failure" -> "failed"
             [] OTHER            -> "cutOff"

Abs == INSTANCE PackageAbs WITH
         Unfinished <- {}, Delivered <- {"complete"},
         found <- "none", output <- out, verdict <- Verdict

(* The conversion is what `package` promises, in its strictest form: nothing *)
(* unfinished is ever at the output path, and success means a whole stemcell *)
(* there.                                                                   *)
DeliversOrLeaves == Abs!Spec

(* Nothing but ovftool holds the conversion up, wherever the handler and the *)
(* removals of the two goroutines are.                                      *)
NothingElseBlocks == MainReady <=> ENABLED Main

(* "cleans up on one interrupt" (integration/interrupt_test.go:20), the      *)
(* system willing.                                                          *)
CleansUpOnOneInterrupt ==
  exit = "failure" /\ stop /\ sent = 1 /\ refused = {} => ~dir

-----------------------------------------------------------------------------
(* The inductive strengthening of the invariants above.                     *)

(* The phases in which the conversion counts on an entry.                   *)
NeedsOva      == Building \ {"mkTemp", "nameTmp", "writeVMX", "startOvftool",
                             "waitOvftool"}
NeedsImage    == NeedsOva \ {"createImage"}
NeedsManifest == NeedsImage \ {"copyImage", "writeManifest"}
NeedsStemcell == NeedsManifest \ {"openStemcell"}

DirectoryKnown ==
  /\ ~dir => files = {}
  /\ dir => named \/ pc = "nameTmp"
  /\ named => pc \notin {"mkTemp", "nameTmp"}

OvftoolHasPhase ==
  /\ ovftool \in {"starting", "writing"} => pc = "waitOvftool"
  /\ pc = "waitOvftool" => ovftool # "none"
  /\ pc \in NeedsOva => ovftool = "exit0"

(* Nothing is removed before Stop is closed.                                *)
IntactUntilStopped ==
  /\ sig \in {"cleanup", "removing", "lastCleanup", "lastRemoving"} => stop
  /\ ~stop => /\ pc \in Building \ {"mkTemp"} => dir
              /\ ovftool \in {"writing", "exit0"} /\ pc \in Building => "ova" \in files
              /\ pc \in NeedsImage => "image" \in files
              /\ pc \in NeedsManifest => "manifest" \in files
              /\ pc \in NeedsStemcell => "stemcell" \in files

(* Once main has read the directory it can only get emptier.                *)
RemovalCompletes ==
  ovftool \notin {"dying", "dead"} /\ "tmp" \notin refused =>
    /\ pc = "removing" => files \subseteq listed["main"]
    /\ pc \in {"removeZip", "exit"} => ~dir

Delivery ==
  /\ pc \in Building => cause = "none" /\ out = "none"
  /\ pc = "rename" => stemcell = "complete"
  /\ pc \notin Building => out = IF cause = "none" THEN "complete" ELSE "none"
  /\ pc = "exit" => ~zip \/ "zip" \in refused
  /\ exit \in {"success", "failure"} => pc = "exit"
  /\ exit = "success" => cause = "none"
  /\ exit = "failure" => cause # "none"

IInv ==
  /\ TypeOK
  /\ DirectoryKnown
  /\ OvftoolHasPhase
  /\ IntactUntilStopped
  /\ RemovalCompletes
  /\ Delivery
  /\ GoneOnlyWhenStopped
=============================================================================
