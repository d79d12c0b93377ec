----------------------------- MODULE VcenterGovc -----------------------------
(***************************************************************************)
(* VcenterPackager with VcenterClient.ListDevices carried out by GovcRunner: *)
(* each of the two listings is a govc command in this process, printing one *)
(* line per device into the pipe RunWithOutput reads.  What the loop over   *)
(* matching devices acts on is what arrived through the pipe.  A killed or  *)
(* returning command takes its pipe and its goroutines with it.             *)
(***************************************************************************)
EXTENDS VcenterPackager, GovcBounds

ASSUME DevicesFit == /\ IsFiniteSet(Removable \union CDRom)
                     /\ Cardinality(Removable \union CDRom) <= MaxOutput
                     /\ MaxCalls >= 2

VARIABLES
  gpc, call, stdout, toPrint, lost, writer, pipe, buf, length, copier, result

runner    == <<gpc, call, stdout, toPrint, lost, writer, pipe, buf, length, copier, result>>
govcVars  == <<vars, runner>>

G == INSTANCE GovcRunner WITH pc <- gpc

Devices == attached \union CDRom

-----------------------------------------------------------------------------

NoCallYet == call = IF pc = "listRemovable" THEN 0 ELSE 1

(* govc lists every device, or fails before it has.                         *)
StartListing ==
  /\ At("listRemovable") \/ At("listCDRoms")
  /\ NoCallYet
  /\ G!RunWithOutput
  /\ length' <= Cardinality(Devices)
  /\ UNCHANGED vars

RunnerStep ==
  /\ exit = "running"
  /\ \/ G!Print1 \/ G!CommandEnds \/ G!Close \/ G!Select
     \/ G!Read \/ G!ReadEnds \/ G!ReadFails
  /\ UNCHANGED vars

(* Bug: the error of the copy is not looked at; its text is empty.          *)
ListDevicesErrIgnored(phase, next, matching) ==
  /\ At(phase)
  /\ gpc = "returned" /\ ~NoCallYet
  /\ \/ /\ length = Cardinality(Devices)
        /\ todo' = IF result = "output" THEN Devices \intersect matching ELSE {}
        /\ Proceed(next)
     \/ Fail
  /\ UNCHANGED <<vm, temp, out, runner>>

(* A non-zero exit code and an error of the copy both fail the listing;     *)
(* otherwise the loop gets the matching ones of the lines that arrived.     *)
ListDevices(phase, next, matching) ==
  /\ At(phase)
  /\ gpc = "returned" /\ ~NoCallYet
  /\ \/ /\ result = "output" /\ length = Cardinality(Devices)
        /\ \E lines \in SUBSET Devices : /\ Cardinality(lines) = buf
                                         /\ todo' = lines \intersect matching
        /\ Proceed(next)
     \/ Fail
  /\ UNCHANGED <<vm, temp, out, runner>>

RemovableListed == ListDevices("listRemovable", "remove", Removable)
CDRomsListed    == ListDevices("listCDRoms", "eject", CDRom)

(* The commands whose output is not captured, and everything else.          *)
PackagerStep ==
  /\ \/ ValidateConfig \/ ValidateSourceParameters \/ RemoveDevice \/ EjectCDRom
     \/ MakeDirectories \/ ExportVM \/ ExportEnds \/ CreateImage \/ TarImage
     \/ WriteManifest \/ CreateStemcell \/ TarStemcell \/ Kill
  /\ UNCHANGED runner

(* A new process.                                                           *)
RerunAfresh ==
  /\ Rerun
  /\ gpc' = "idle" /\ call' = 0 /\ stdout' = "real" /\ writer' = "none"
  /\ toPrint' = 0 /\ lost' = 0 /\ pipe' = 0 /\ buf' = 0 /\ length' = 0
  /\ copier' = "gone" /\ result' = "none"

GovcNext == \/ StartListing \/ RunnerStep \/ RemovableListed \/ CDRomsListed
            \/ PackagerStep \/ RerunAfresh

GovcInit == Init /\ G!Init

GovcSpec == GovcInit /\ [][GovcNext]_govcVars

(* The caller, govc and the goroutine are scheduled while the process runs. *)
GovcFairSpec ==
  /\ GovcSpec
  /\ WF_govcVars(exit = "running" /\ (G!Print1 \/ G!CommandEnds \/ G!Close \/ G!Select)
                 /\ UNCHANGED vars)
  /\ WF_govcVars(exit = "running" /\ G!Copier /\ UNCHANGED vars)

-----------------------------------------------------------------------------
(* Correctness, besides VcenterPackager's own properties.                   *)

(* A listing that is returned is all that govc printed, and os.Stdout is the *)
(* real one between two listings, whichever way the last one ended: govc     *)
(* prints to it in every other command.                                     *)
CaptureIsTrue == G!OutputIsComplete /\ G!StdoutIsBack

(* A listing returns however many devices it prints, unless the copy failed *)
(* or the process is killed.                                                *)
ListingReturns ==
  gpc = "run" ~> (gpc = "returned" \/ copier = "sendErr" \/ exit = "killed")

(* With the runner in between, package still does what VcenterPackager says: *)
(* a listing is one step that yields every matching device, or fails.       *)
ListsAtOnce == Spec

-----------------------------------------------------------------------------
(* The inductive invariant of the proofs.                                   *)
Listing ==
  /\ call <= 2
  /\ exit = "running" /\ gpc \notin {"idle", "returned"} =>
       pc \in {"listRemovable", "listCDRoms"} /\ ~NoCallYet
GovcInv == IInv /\ G!IInv /\ Listing
=============================================================================
