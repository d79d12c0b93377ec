------------------------ MODULE VcenterPackagerProof ------------------------
(* Proofs about VcenterPackager, for every set of devices and any number of *)
(* runs, and about VcenterGovc, which composes it with GovcRunner, for every *)
(* capacity of the pipe too.                                                *)
EXTENDS VcenterGovc, FiniteSetTheorems, TLAPS

R == INSTANCE GovcRunnerProof WITH pc <- gpc

(* Initial states satisfy the invariant.                                    *)
LEMMA InitInv == Init => IInv
  BY MaxRunsAssumption DEF Init, IInv, TypeOK, DevicesGone, OutputUntouched,
     StemcellIsStripped, FailureLeavesNoOutput, Phase, Tree, Output, Stripped, Ejected

(* One step of PackageCmd.Execute or of the operator preserves it.          *)
LEMMA NextInv == IInv /\ [Next]_vars => IInv'
<1> SUFFICES ASSUME IInv, [Next]_vars PROVE IInv'
  OBVIOUS
<1> USE DEF IInv, TypeOK, DevicesGone, OutputUntouched, StemcellIsStripped,
     FailureLeavesNoOutput, Phase, Tree, Output, Stripped, Ejected, process, vm, temp,
     At, Proceed, Fail
<1>1. CASE ValidateConfig
  BY <1>1 DEF ValidateConfig
<1>2. CASE ValidateSourceParameters
  BY <1>2 DEF ValidateSourceParameters
<1>3. CASE ListRemovable
  BY <1>3 DEF ListRemovable
<1>4. CASE RemoveDevice
  BY <1>4 DEF RemoveDevice
<1>5. CASE ListCDRoms
  BY <1>5 DEF ListCDRoms
<1>6. CASE EjectCDRom
  BY <1>6 DEF EjectCDRom
<1>7. CASE MakeDirectories
  BY <1>7 DEF MakeDirectories
<1>8. CASE ExportVM
  BY <1>8 DEF ExportVM
<1>9. CASE ExportEnds
  BY <1>9 DEF ExportEnds
<1>10. CASE CreateImage
  BY <1>10 DEF CreateImage
<1>11. CASE TarImage
  BY <1>11 DEF TarImage
<1>12. CASE WriteManifest
  BY <1>12 DEF WriteManifest
<1>13. CASE CreateStemcell
  BY <1>13 DEF CreateStemcell, Succeed
<1>14. CASE TarStemcell
  BY <1>14 DEF TarStemcell, Succeed, Packed
<1>15. CASE Kill
  BY <1>15 DEF Kill
<1>16. CASE Rerun
  BY <1>16, MaxRunsAssumption DEF Rerun
<1>17. CASE UNCHANGED vars
  BY <1>17 DEF vars
<1>18. QED
  BY <1>1, <1>2, <1>3, <1>4, <1>5, <1>6, <1>7, <1>8, <1>9, <1>10, <1>11, <1>12,
     <1>13, <1>14, <1>15, <1>16, <1>17 DEF Next, Command

(* The inductive invariant of a package run against vCenter.                *)
THEOREM Invariance == Spec => []IInv
  BY InitInv, NextInv, PTL DEF Spec

(* No stemcell is made of a VM that has not been stripped of its devices by *)
(* VCenterPackager.Package, whichever device failed in whichever run.       *)
THEOREM OnlyStripped == Spec => []StemcellIsStripped
<1>1. IInv => StemcellIsStripped
  BY DEF IInv
<1>2. QED
  BY <1>1, Invariance, PTL

(* A failing PackageCmd.Execute leaves the output path as it was.           *)
THEOREM FailureIsClean == Spec => []FailureLeavesNoOutput
<1>1. IInv => FailureLeavesNoOutput
  BY DEF IInv
<1>2. QED
  BY <1>1, Invariance, PTL

(* ValidateConfig's refusal precedes every effect on the VM and the output. *)
THEOREM RefusalIsHarmless == Spec => RefusedRunIsHarmless
<1>1. ASSUME IInv, [Next]_vars, exit = "running", prior # "none"
      PROVE  UNCHANGED <<attached, loaded, out>>
  <2>1. pc = "validateConfig"
    BY <1>1 DEF IInv, OutputUntouched
  <2>2. out # "none"
    BY <1>1, <2>1 DEF IInv, OutputUntouched
  <2>3. CASE ValidateConfig
    BY <2>3 DEF ValidateConfig, vm
  <2>4. CASE Kill
    BY <2>4 DEF Kill, vm
  <2>5. CASE UNCHANGED vars
    BY <2>5 DEF vars
  <2>6. ASSUME Next, ~ValidateConfig, ~Kill PROVE FALSE
    BY <1>1, <2>1, <2>6 DEF Next, Command, Rerun, At, ValidateSourceParameters,
       ListRemovable, RemoveDevice, ListCDRoms, EjectCDRom, MakeDirectories,
       ExportVM, ExportEnds, CreateImage, TarImage, WriteManifest, CreateStemcell,
       TarStemcell
  <2>7. QED
    BY <1>1, <2>3, <2>4, <2>5, <2>6
<1>2. QED
  BY <1>1, Invariance, PTL DEF Spec, RefusedRunIsHarmless

-----------------------------------------------------------------------------
(* The refinement of PackageAbs.                                            *)

LEMMA AbsStep == IInv /\ [Next]_vars => [Abs!Next]_(Abs!vars)
  <1> SUFFICES ASSUME IInv, [Next]_vars PROVE [Abs!Next]_(Abs!vars)
    OBVIOUS
  <1>1. exit = "running" => Verdict = "running"
    BY DEF Verdict
  <1>2. ASSUME UNCHANGED <<out, exit, prior>> PROVE UNCHANGED Abs!vars
    BY <1>2 DEF Abs!vars, Verdict
  <1>3. ASSUME exit = "running", Fail, UNCHANGED out, out = prior PROVE Abs!Fail
    <2>1. exit' = "failure" /\ UNCHANGED <<out, prior>>
      BY <1>3 DEF Fail
    <2>2. Verdict' = "failed"
      BY <2>1 DEF Verdict
    <2> QED BY <1>1, <1>3, <2>1, <2>2 DEF Abs!Fail
  <1>4. ASSUME exit = "running", Succeed, prior = "none",
               out' \in {"none", "partial", "hollow", "stemcell"}
        PROVE  Abs!Succeed
    <2>1. exit' = "success" /\ UNCHANGED prior
      BY <1>4 DEF Succeed
    <2>2. Verdict' = "succeeded"
      BY <2>1 DEF Verdict
    <2> QED BY <1>1, <1>4, <2>1, <2>2 DEF Abs!Succeed
  <1>5. CASE ValidateConfig \/ ValidateSourceParameters \/ ListRemovable \/ RemoveDevice
             \/ ListCDRoms \/ EjectCDRom \/ MakeDirectories \/ ExportVM \/ ExportEnds
             \/ CreateImage \/ TarImage \/ WriteManifest
    <2>1. exit = "running" /\ UNCHANGED out /\ pc # "tarringStemcell"
      BY <1>5 DEF At, ValidateConfig, ValidateSourceParameters, ListRemovable,
         RemoveDevice, ListCDRoms, EjectCDRom, MakeDirectories, ExportVM, ExportEnds,
         CreateImage, TarImage, WriteManifest
    <2>2. Fail \/ UNCHANGED process
      BY <1>5 DEF Proceed, ValidateConfig, ValidateSourceParameters, ListRemovable,
         RemoveDevice, ListCDRoms, EjectCDRom, MakeDirectories, ExportVM, ExportEnds,
         CreateImage, TarImage, WriteManifest
    <2>3. out = prior
      BY <2>1 DEF IInv, OutputUntouched
    <2> QED BY <1>2, <1>3, <2>1, <2>2, <2>3 DEF process, Abs!Next
  <1>6. CASE CreateStemcell
    <2>1. exit = "running" /\ prior = "none" /\ out = prior
      BY <1>6 DEF CreateStemcell, At, IInv, OutputUntouched
    <2>2. CASE out' = "partial" /\ UNCHANGED process
      <3>1. Verdict' = Verdict /\ UNCHANGED prior
        BY <2>2 DEF Verdict, process
      <3> QED BY <1>1, <2>1, <2>2, <3>1 DEF Abs!Next, Abs!Write, Abs!Output
    <2>3. CASE UNCHANGED out /\ Succeed
      BY <1>4, <2>1, <2>3 DEF Abs!Next
    <2> QED BY <1>6, <2>2, <2>3 DEF CreateStemcell, Proceed
  <1>7. CASE TarStemcell
    <2>1. exit = "running" /\ prior = "none" /\ Succeed
      BY <1>7 DEF TarStemcell, At, IInv, OutputUntouched
    <2>2. out' \in {"none", "partial", "hollow", "stemcell"}
      BY <1>7 DEF TarStemcell, Packed, IInv, TypeOK, Output, Tree, StemcellIsStripped
    <2> QED BY <1>4, <2>1, <2>2 DEF Abs!Next
  <1>8. CASE Kill
    <2>1. exit = "running" /\ exit' = "killed" /\ UNCHANGED <<out, prior>>
      BY <1>8 DEF Kill
    <2>2. Verdict' = "cutOff"
      BY <2>1 DEF Verdict
    <2> QED BY <1>1, <2>1, <2>2 DEF Abs!Next, Abs!CutOff
  <1>9. CASE Rerun
    <2>1. exit # "running" /\ exit' = "running"
          /\ out' \in {out, "none"} /\ prior' = out'
      BY <1>9 DEF Rerun
    <2>2. Verdict # "running"
      BY <2>1 DEF Verdict, IInv, TypeOK
    <2>3. Verdict' = "running"
      BY <2>1 DEF Verdict
    <2> QED BY <2>1, <2>2, <2>3 DEF Abs!Next, Abs!NextCommand
  <1>10. CASE UNCHANGED vars
    BY <1>2, <1>10 DEF vars
  <1> QED BY <1>5, <1>6, <1>7, <1>8, <1>9, <1>10 DEF Next, Command

(* Package against vCenter, killed and repeated, implements the sequence of  *)
(* commands of PackageAbs.                                                  *)
THEOREM Refinement == Spec => DeliversOrLeaves
  <1>1. Init => Abs!Init
    BY DEF Init, Abs!Init, Abs!Output, Verdict
  <1> QED BY <1>1, AbsStep, Invariance, PTL DEF Spec, Abs!Spec, DeliversOrLeaves

(* What every implementation of PackageAbs promises, from the abstract       *)
(* steps alone.                                                             *)
THEOREM AbsPromise == DeliversOrLeaves => []Abs!Promise
  <1>1. Abs!Init => Abs!Promise
    BY DEF Abs!Init, Abs!Promise
  <1>2. Abs!Promise /\ [Abs!Next]_(Abs!vars) => Abs!Promise'
    BY DEF Abs!Promise, Abs!Next, Abs!Write, Abs!Succeed, Abs!Fail, Abs!CutOff,
       Abs!NextCommand, Abs!vars
  <1> QED BY <1>1, <1>2, PTL DEF DeliversOrLeaves, Abs!Spec

-----------------------------------------------------------------------------
(* The composition.                                                         *)

(* The runner's proofs speak of the same definitions.                       *)
LEMMA SameRunner ==
  /\ R!Init <=> G!Init
  /\ R!IInv <=> G!IInv
  /\ G!Next => [R!Next]_(R!vars)
  /\ R!IInv' <=> G!IInv'
  /\ UNCHANGED runner => UNCHANGED R!vars
  <1>1. /\ R!IInv <=> G!IInv
        /\ R!IInv' <=> G!IInv'
    BY DEF R!IInv, R!TypeOK, R!Conservation, R!WriteEnd, R!TextIsWhole,
       R!OutputIsComplete, R!StdoutIsBack, G!IInv, G!TypeOK, G!Conservation, G!WriteEnd,
       G!TextIsWhole, G!OutputIsComplete, G!StdoutIsBack
  <1>2. R!Init <=> G!Init
    BY DEF R!Init, G!Init
  <1>3. G!Next => R!Next
    BY Zenon DEF R!Next, R!Caller, R!RunWithOutput, R!Print1, R!CommandEnds, R!Close, R!Select,
       R!Read, R!ReadEnds, R!ReadFails, R!file, G!Next, G!Caller, G!RunWithOutput, G!Print1,
       G!CommandEnds, G!Close, G!Select, G!Read, G!ReadEnds, G!ReadFails, G!file
  <1>4. UNCHANGED runner => UNCHANGED R!vars
    BY DEF runner, R!vars
  <1> QED BY <1>1, <1>2, <1>3, <1>4

LEMMA GovcInitInv == GovcInit => GovcInv
  <1> SUFFICES ASSUME GovcInit PROVE GovcInv
    OBVIOUS
  <1>1. IInv
    BY InitInv DEF GovcInit
  <1>2. G!IInv
    BY R!InitInv, SameRunner, CapacityAssumption, BoundsAssumption DEF GovcInit
  <1> QED BY <1>1, <1>2 DEF GovcInit, GovcInv, Listing, G!Init

(* A step of the runner, or none, keeps its invariant.                      *)
LEMMA RunnerInv == G!IInv /\ (G!Next \/ UNCHANGED runner) => G!IInv'
  BY R!NextInv, SameRunner, CapacityAssumption, BoundsAssumption

(* A listing that is answered names exactly the devices there are: as many   *)
(* lines arrived as there are devices.                                      *)
LEMMA ListingIsWhole ==
  ASSUME GovcInv, result = "output", length = Cardinality(Devices),
         NEW lines \in SUBSET Devices, Cardinality(lines) = buf
  PROVE  /\ lines \intersect Removable = attached
         /\ lines \intersect CDRom = CDRom
  <1>1. attached \subseteq Removable /\ Removable \intersect CDRom = {}
    BY DevicesAssumption DEF GovcInv, IInv, TypeOK
  <1>2. buf = length
    BY DEF GovcInv, G!IInv, G!OutputIsComplete
  <1>3. IsFiniteSet(Devices)
    BY <1>1, DevicesFit, FS_Subset DEF Devices
  <1>4. lines = Devices
    BY <1>2, <1>3, FS_Subset
  <1> QED BY <1>1, <1>4 DEF Devices

(* A step of the composition is a step of VcenterPackager or none of its     *)
(* business.                                                                *)
LEMMA GovcStep == GovcInv /\ [GovcNext]_govcVars => [Next]_vars
  <1> SUFFICES ASSUME GovcInv, [GovcNext]_govcVars PROVE [Next]_vars
    OBVIOUS
  <1>1. CASE StartListing \/ RunnerStep \/ UNCHANGED govcVars
    BY <1>1 DEF StartListing, RunnerStep, govcVars
  <1>2. CASE RemovableListed
    <2>1. ListRemovable
      BY <1>2, ListingIsWhole DEF RemovableListed, ListDevices, ListRemovable
    <2> QED BY <2>1 DEF Next, Command
  <1>3. CASE CDRomsListed
    <2>1. ListCDRoms
      BY <1>3, ListingIsWhole DEF CDRomsListed, ListDevices, ListCDRoms
    <2> QED BY <2>1 DEF Next, Command
  <1>4. CASE PackagerStep \/ RerunAfresh
    BY <1>4, Zenon DEF PackagerStep, RerunAfresh, Next, Command
  <1> QED BY <1>1, <1>2, <1>3, <1>4 DEF GovcNext

LEMMA ListingInv == GovcInv /\ [GovcNext]_govcVars => Listing'
  <1> SUFFICES ASSUME GovcInv, [GovcNext]_govcVars PROVE Listing'
    OBVIOUS
  <1> USE DEF GovcInv, Listing, NoCallYet
  <1>0. call \in Nat
    BY BoundsAssumption DEF G!IInv, G!TypeOK
  <1>1. CASE StartListing
    <2>1. call' = call + 1 /\ UNCHANGED <<pc, exit>>
          /\ (pc = "listRemovable" \/ pc = "listCDRoms")
      BY <1>1 DEF StartListing, G!RunWithOutput, vars, At
    <2> QED BY <1>0, <1>1, <2>1 DEF StartListing
  <1>2. CASE RunnerStep
    <2>1. UNCHANGED <<pc, exit, call>>
      BY <1>2 DEF RunnerStep, vars, G!Print1, G!CommandEnds, G!Close, G!Select, G!Read,
         G!ReadEnds, G!ReadFails
    <2>2. gpc' \notin {"idle", "returned"} => gpc \notin {"idle", "returned"}
      BY <1>2 DEF RunnerStep, vars, G!Print1, G!CommandEnds, G!Close, G!Select, G!Read,
         G!ReadEnds, G!ReadFails
    <2> QED BY <2>1, <2>2
  <1>3. CASE RemovableListed \/ CDRomsListed
    BY <1>3 DEF RemovableListed, CDRomsListed, ListDevices, runner
  <1>4. CASE PackagerStep
    <2>1. UNCHANGED <<call, gpc>>
      BY <1>4 DEF PackagerStep, runner
    <2>2. CASE Kill
      BY <2>1, <2>2 DEF Kill
    <2>3. CASE ~Kill
      <3>1. pc \notin {"listRemovable", "listCDRoms"} /\ exit = "running"
        BY <1>4, <2>3 DEF PackagerStep, At, ValidateConfig, ValidateSourceParameters,
           RemoveDevice, EjectCDRom, MakeDirectories, ExportVM, ExportEnds, CreateImage,
           TarImage, WriteManifest, CreateStemcell, TarStemcell
      <3> QED BY <2>1, <3>1
    <2> QED BY <2>2, <2>3
  <1>5. CASE RerunAfresh
    BY <1>5 DEF RerunAfresh
  <1>6. CASE UNCHANGED govcVars
    BY <1>6 DEF govcVars, vars, runner
  <1> QED BY <1>1, <1>2, <1>3, <1>4, <1>5, <1>6 DEF GovcNext

LEMMA GovcNextInv == GovcInv /\ [GovcNext]_govcVars => GovcInv'
  <1> SUFFICES ASSUME GovcInv, [GovcNext]_govcVars PROVE GovcInv'
    OBVIOUS
  <1>1. IInv'
    BY GovcStep, NextInv DEF GovcInv
  <1>2. G!IInv'
    <2>1. CASE RerunAfresh
      BY <2>1, CapacityAssumption, BoundsAssumption
         DEF RerunAfresh, G!IInv, G!TypeOK, G!Conservation, G!WriteEnd, G!TextIsWhole,
             G!OutputIsComplete, G!StdoutIsBack
    <2>2. CASE ~RerunAfresh
      <3>1. G!Next \/ UNCHANGED runner
        BY <2>2, Zenon DEF GovcNext, StartListing, RunnerStep, RemovableListed, CDRomsListed,
           ListDevices, PackagerStep, govcVars, G!Next, G!Caller
      <3> QED BY <3>1, RunnerInv DEF GovcInv
    <2> QED BY <2>1, <2>2
  <1> QED BY <1>1, <1>2, ListingInv DEF GovcInv

(* The inductive invariant of the packager with its runner.                 *)
THEOREM GovcInvariance == GovcSpec => []GovcInv
  BY GovcInitInv, GovcNextInv, PTL DEF GovcSpec

(* Listing the devices through RunWithOutput's pipe implements the atomic    *)
(* listing of VcenterPackager, so every theorem above holds of it too.      *)
THEOREM PipedListing == GovcSpec => ListsAtOnce
  <1>1. GovcInit => Init
    BY DEF GovcInit
  <1> QED BY <1>1, GovcStep, GovcInvariance, PTL DEF GovcSpec, Spec, ListsAtOnce

(* What ListDevices parses is all that govc printed, and os.Stdout is the    *)
(* real one whenever no listing is under way.                               *)
THEOREM ListingIsTrue == GovcSpec => []CaptureIsTrue
  <1>1. GovcInv => CaptureIsTrue
    BY DEF GovcInv, G!IInv, CaptureIsTrue
  <1> QED BY <1>1, GovcInvariance, PTL

(* The stripped export, with the listing piped.                             *)
THEOREM PipedIsStripped == GovcSpec => []StemcellIsStripped
  <1>1. GovcInv => StemcellIsStripped
    BY DEF GovcInv, IInv
  <1> QED BY <1>1, GovcInvariance, PTL

(* With the listings piped, package still is the abstract command, and keeps *)
(* its promise about the output path.                                       *)
THEOREM PipedRefinement == GovcSpec => DeliversOrLeaves /\ []Abs!Promise
  BY PipedListing, Refinement, AbsPromise, PTL DEF ListsAtOnce

(* A run that finds a file at its output path is harmless with the listings *)
(* piped, too.                                                              *)
THEOREM PipedRefusal == GovcSpec => RefusedRunIsHarmless
  BY PipedListing, RefusalIsHarmless, PTL DEF ListsAtOnce
=============================================================================
