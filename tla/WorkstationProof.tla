--------------------------- MODULE WorkstationProof ---------------------------
(***************************************************************************)
(* Proofs about Workstation, for any number of processes, any mix of        *)
(* commands and any machine.                                                *)
(***************************************************************************)
EXTENDS Workstation, TLAPS

Finished == {"unborn", "open", "write", "ended"}
Looked   == {"source", "space", "params", "ovftool", "convert", "create"}

USE MachinesAssumption, MixesAssumption

LEMMA InitInv == Init => IInv
  <1> SUFFICES ASSUME Init PROVE IInv
    OBVIOUS
  <1>1. NoOutput \in [state : {"none", "partial", "whole"}, by : SUBSET Proc]
    BY SMT DEF NoOutput
  <1>2. TypeOK
    <2>1. cmd \in [Proc -> Command]
      BY DEF Init
    <2>2. present \in BOOLEAN /\ machine \in Machines
      BY DEF Init
    <2> QED BY <1>1, <2>1, <2>2, SMT DEF Init, TypeOK, Phase
  <1> QED
    BY <1>2, SMT DEF Init, IInv, Bookkeeping, AloneIsAlone, OwnArchive, OutputSeen,
                     UploadIsOwn, ArchiveIsExplained, Alive

LEMMA StutterInv == IInv /\ UNCHANGED vars => IInv'
  BY SMT DEF vars, archive, IInv, TypeOK, Bookkeeping, AloneIsAlone, OwnArchive, OutputSeen,
         UploadIsOwn, ArchiveIsExplained, Alive

(* A step of a process that holds its archive and goes on, touching nothing  *)
(* that is shared.                                                          *)
LEMMA QuietStep ==
  ASSUME IInv, NEW p \in Proc, NEW next \in Phase \ Finished,
         pc[p] \notin Finished,
         pc' = [pc EXCEPT ![p] = next],
         status' \in [Proc -> {"none", "success", "failure", "usage"}],
         next \in Looked => out = NoOutput \/ pc[p] \in Looked,
         UNCHANGED <<machine, cmd, left, present, bytes, linked, uploaded, out, alone>>
  PROVE  IInv'
  <1>1. TypeOK'
    <2>1. pc' \in [Proc -> Phase]
      BY SMT DEF IInv, TypeOK
    <2> QED BY <2>1 DEF IInv, TypeOK
  <1>2. Bookkeeping'
    BY SMT DEF IInv, TypeOK, Bookkeeping, Finished
  <1>3. AloneIsAlone'
    BY SMT DEF IInv, TypeOK, AloneIsAlone, Alive, Finished
  <1>4. OwnArchive'
    BY SMT DEF IInv, TypeOK, OwnArchive, Finished
  <1>5. OutputSeen'
    BY SMT DEF IInv, TypeOK, OutputSeen, Looked
  <1>6. UploadIsOwn' /\ ArchiveIsExplained'
    BY SMT DEF IInv, TypeOK, UploadIsOwn, ArchiveIsExplained, Finished
  <1> QED BY <1>1, <1>2, <1>3, <1>4, <1>5, <1>6 DEF IInv

(* A process that ends early leaves the archive to whoever comes next.      *)
LEMMA LeaveStep ==
  ASSUME IInv, NEW p \in Proc, Alive(p),
         NEW how \in {"unwritten", "flags", "panic", "killed"}, Leave(p, how),
         bytes' \in {bytes, {}}, bytes' # bytes => p \in linked,
         UNCHANGED <<machine, cmd, present, uploaded, out, alone>>
  PROVE  IInv'
  <1> USE DEF Leave
  <1>1. TypeOK'
    BY SMT DEF IInv, TypeOK, Phase
  <1>2. Bookkeeping'
    BY SMT DEF IInv, TypeOK, Bookkeeping, Alive
  <1>3. AloneIsAlone'
    BY SMT DEF IInv, TypeOK, AloneIsAlone, Alive
  <1>4. OwnArchive'
    <2> SUFFICES ASSUME NEW q \in alone, q # p, pc[q] \notin {"unborn", "ended"}
                 PROVE  FALSE
      BY SMT DEF IInv, TypeOK, OwnArchive, Alive
    <2> QED BY SMT DEF IInv, TypeOK, AloneIsAlone, Alive
  <1>5. OutputSeen' /\ UploadIsOwn'
    BY SMT DEF IInv, TypeOK, OutputSeen, UploadIsOwn
  <1>6. ArchiveIsExplained'
    BY SMT DEF IInv, TypeOK, ArchiveIsExplained, Alive
  <1> QED BY <1>1, <1>2, <1>3, <1>4, <1>5, <1>6 DEF IInv

LEMMA StartInv ==
  ASSUME IInv, NEW p \in Proc, Start(p)
  PROVE  IInv'
  <1> USE DEF Start, At, Goto, archive
  <1>1. TypeOK'
    BY SMT DEF IInv, TypeOK, Phase
  <1>2. Bookkeeping'
    BY SMT DEF IInv, TypeOK, Bookkeeping, Alive
  <1>3. AloneIsAlone'
    BY SMT DEF IInv, TypeOK, Bookkeeping, AloneIsAlone, Alive
  <1>4. OwnArchive' /\ OutputSeen'
    BY SMT DEF IInv, TypeOK, Bookkeeping, OwnArchive, OutputSeen, Alive
  <1>5. UploadIsOwn' /\ ArchiveIsExplained'
    BY SMT DEF IInv, TypeOK, Bookkeeping, UploadIsOwn, ArchiveIsExplained
  <1> QED BY <1>1, <1>2, <1>3, <1>4, <1>5 DEF IInv

LEMMA OpenInv ==
  ASSUME IInv, NEW p \in Proc, OpenArchive(p)
  PROVE  IInv'
  <1>1. CASE Leave(p, "unwritten") /\ UNCHANGED <<present, bytes>>
    BY <1>1, LeaveStep DEF OpenArchive, At, Alive
  <1>2. CASE /\ present' = TRUE /\ bytes' = {} /\ linked' = linked \union {p}
             /\ Goto(p, "write")
    <2> USE <1>2 DEF OpenArchive, At, Goto
    <2>1. TypeOK'
      BY SMT DEF IInv, TypeOK, Phase
    <2>2. Bookkeeping'
      BY SMT DEF IInv, TypeOK, Bookkeeping
    <2>3. AloneIsAlone'
      BY SMT DEF IInv, TypeOK, AloneIsAlone, Alive
    <2>4. OwnArchive' /\ OutputSeen'
      BY SMT DEF IInv, TypeOK, AloneIsAlone, OwnArchive, OutputSeen, Alive
    <2>5. UploadIsOwn' /\ ArchiveIsExplained'
      BY SMT DEF IInv, TypeOK, UploadIsOwn, ArchiveIsExplained
    <2> QED BY <2>1, <2>2, <2>3, <2>4, <2>5 DEF IInv
  <1> QED BY <1>1, <1>2 DEF OpenArchive

LEMMA WriteInv ==
  ASSUME IInv, NEW p \in Proc, WriteArchive(p)
  PROVE  IInv'
  <1>1. CASE /\ bytes' = IF p \in linked THEN {} ELSE bytes
             /\ Leave(p, "unwritten")
    BY <1>1, LeaveStep DEF WriteArchive, At, Alive
  <1>2. CASE /\ bytes' = IF p \in linked THEN bytes \union {p} ELSE bytes
             /\ linked' = linked \ {p}
             /\ Goto(p, "parse")
    <2> USE <1>2 DEF WriteArchive, At, Goto
    <2>1. TypeOK'
      BY SMT DEF IInv, TypeOK, Phase
    <2>2. Bookkeeping'
      BY SMT DEF IInv, TypeOK, Bookkeeping
    <2>3. AloneIsAlone'
      BY SMT DEF IInv, TypeOK, AloneIsAlone, Alive
    <2>4. OwnArchive' /\ OutputSeen'
      BY SMT DEF IInv, TypeOK, AloneIsAlone, OwnArchive, OutputSeen, Alive
    <2>5. UploadIsOwn' /\ ArchiveIsExplained'
      BY SMT DEF IInv, TypeOK, UploadIsOwn, ArchiveIsExplained
    <2> QED BY <2>1, <2>2, <2>3, <2>4, <2>5 DEF IInv
  <1> QED BY <1>1, <1>2 DEF WriteArchive

LEMMA RemoveInv ==
  ASSUME IInv, NEW p \in Proc, RemoveArchive(p)
  PROVE  IInv'
  <1> USE DEF RemoveArchive, At, archive
  <1>1. TypeOK'
    <2>1. /\ pc' \in [Proc -> Phase]
          /\ left' \in [Proc -> {"no", "exit", "unwritten", "flags", "panic", "killed", "stuck"}]
          /\ bytes' \subseteq Proc /\ linked' \subseteq Proc
      BY SMT DEF IInv, TypeOK, Phase
    <2>2. present' \in BOOLEAN
      BY Zenon DEF IInv, TypeOK
    <2> QED BY <2>1, <2>2 DEF IInv, TypeOK
  <1>2. Bookkeeping'
    BY SMT DEF IInv, TypeOK, Bookkeeping
  <1>3. AloneIsAlone'
    BY SMT DEF IInv, TypeOK, AloneIsAlone, Alive
  <1>4. OwnArchive'
    <2> SUFFICES ASSUME NEW q \in alone, q # p, pc[q] \notin {"unborn", "ended"}
                 PROVE  FALSE
      BY SMT DEF IInv, TypeOK, OwnArchive
    <2> QED BY SMT DEF IInv, TypeOK, AloneIsAlone, Alive
  <1>5. OutputSeen' /\ UploadIsOwn'
    BY SMT DEF IInv, TypeOK, OutputSeen, UploadIsOwn
  <1>6. ArchiveIsExplained'
    BY SMT DEF IInv, TypeOK, ArchiveIsExplained
  <1> QED BY <1>1, <1>2, <1>3, <1>4, <1>5, <1>6 DEF IInv

LEMMA UploadInv ==
  ASSUME IInv, NEW p \in Proc, UploadAutomation(p)
  PROVE  IInv'
  <1> USE DEF UploadAutomation, At, Goto, Return, archive
  <1>1. TypeOK'
    BY SMT DEF IInv, TypeOK, Phase
  <1>2. Bookkeeping'
    BY SMT DEF IInv, TypeOK, Bookkeeping
  <1>3. AloneIsAlone'
    BY SMT DEF IInv, TypeOK, AloneIsAlone, Alive
  <1>4. OwnArchive' /\ OutputSeen'
    BY SMT DEF IInv, TypeOK, OwnArchive, OutputSeen
  <1>5. UploadIsOwn'
    BY SMT DEF IInv, TypeOK, OwnArchive, UploadIsOwn
  <1>6. ArchiveIsExplained'
    BY SMT DEF IInv, TypeOK, ArchiveIsExplained
  <1> QED BY <1>1, <1>2, <1>3, <1>4, <1>5, <1>6 DEF IInv

(* A step that only writes the output path, and perhaps returns.            *)
LEMMA OutputStep ==
  ASSUME IInv, NEW p \in Proc, NEW next \in Phase \ (Finished \union Looked),
         pc[p] \notin Finished,
         pc' = [pc EXCEPT ![p] = next],
         status' \in [Proc -> {"none", "success", "failure", "usage"}],
         out' \in [state : {"none", "partial", "whole"}, by : SUBSET Proc],
         UNCHANGED <<machine, cmd, left, present, bytes, linked, uploaded, alone>>
  PROVE  IInv'
  <1>1. TypeOK'
    <2>1. pc' \in [Proc -> Phase]
      BY SMT DEF IInv, TypeOK
    <2> QED BY <2>1 DEF IInv, TypeOK
  <1>2. Bookkeeping'
    BY SMT DEF IInv, TypeOK, Bookkeeping, Finished
  <1>3. AloneIsAlone'
    BY SMT DEF IInv, TypeOK, AloneIsAlone, Alive, Finished
  <1>4. OwnArchive'
    BY SMT DEF IInv, TypeOK, OwnArchive, Finished
  <1>5. OutputSeen'
    <2> SUFFICES ASSUME NEW q \in alone, q # p, pc[q] \in Looked
                 PROVE  FALSE
      BY SMT DEF IInv, TypeOK, OutputSeen, Looked
    <2> QED BY SMT DEF IInv, TypeOK, AloneIsAlone, Alive, Looked, Finished
  <1>6. UploadIsOwn' /\ ArchiveIsExplained'
    BY SMT DEF IInv, TypeOK, UploadIsOwn, ArchiveIsExplained, Finished
  <1> QED BY <1>1, <1>2, <1>3, <1>4, <1>5, <1>6 DEF IInv

LEMMA ClearInv ==
  ASSUME IInv, ClearOutput
  PROVE  IInv'
  <1> USE DEF ClearOutput, archive
  <1>1. NoOutput \in [state : {"none", "partial", "whole"}, by : SUBSET Proc]
    BY SMT DEF NoOutput
  <1>2. TypeOK'
    BY <1>1 DEF IInv, TypeOK
  <1>3. Bookkeeping' /\ AloneIsAlone' /\ OwnArchive' /\ OutputSeen'
    BY DEF IInv, Bookkeeping, AloneIsAlone, OwnArchive, OutputSeen, Alive
  <1>4. UploadIsOwn' /\ ArchiveIsExplained'
    BY DEF IInv, UploadIsOwn, ArchiveIsExplained
  <1> QED BY <1>2, <1>3, <1>4 DEF IInv

LEMMA ReturnType ==
  ASSUME IInv, NEW p \in Proc, NEW s \in {"success", "failure", "usage"}, Return(p, s)
  PROVE  status' \in [Proc -> {"none", "success", "failure", "usage"}]
  BY SMT DEF IInv, TypeOK, Return

(* The other actions that leave everything shared alone: each either goes to *)
(* a phase or returns.                                                      *)
LEMMA MoveInv ==
  ASSUME IInv, NEW p \in Proc, pc[p] \notin Finished,
         \/ \E next \in Phase \ Finished :
              Goto(p, next) /\ (next \in Looked => out = NoOutput \/ pc[p] \in Looked)
         \/ \E s \in {"success", "failure", "usage"} : Return(p, s),
         UNCHANGED <<machine, cmd, present, bytes, linked, uploaded, out, alone>>
  PROVE  IInv'
  <1>1. ASSUME NEW next \in Phase \ Finished, Goto(p, next),
               next \in Looked => out = NoOutput \/ pc[p] \in Looked
        PROVE  IInv'
    <2>1. pc' = [pc EXCEPT ![p] = next] /\ UNCHANGED <<status, left>>
      BY <1>1 DEF Goto
    <2>2. status' \in [Proc -> {"none", "success", "failure", "usage"}]
      BY <2>1 DEF IInv, TypeOK
    <2>3. UNCHANGED <<machine, cmd, left, present, bytes, linked, uploaded, out, alone>>
      BY <2>1
    <2> QED BY <1>1, <2>1, <2>2, <2>3, QuietStep
  <1>2. ASSUME NEW s \in {"success", "failure", "usage"}, Return(p, s)
        PROVE  IInv'
    <2>1. "remove" \in Phase \ Finished /\ "remove" \notin Looked
      BY SMT DEF Phase, Finished, Looked
    <2>2. pc' = [pc EXCEPT ![p] = "remove"] /\ UNCHANGED left
      BY <1>2 DEF Return
    <2>3. status' \in [Proc -> {"none", "success", "failure", "usage"}]
      BY <1>2, ReturnType
    <2>4. UNCHANGED <<machine, cmd, left, present, bytes, linked, uploaded, out, alone>>
      BY <2>2
    <2> QED BY <2>1, <2>2, <2>3, <2>4, QuietStep
  <1> QED BY <1>1, <1>2

LEMMA TryInv ==
  ASSUME IInv, NEW p \in Proc, NEW phase \in Phase \ Finished,
         NEW next \in Phase \ Finished, Try(p, phase, next),
         next \in Looked => phase \in Looked
  PROVE  IInv'
  <1>1. pc[p] = phase /\ (Goto(p, next) \/ Return(p, "failure"))
        /\ UNCHANGED <<machine, cmd, present, bytes, linked, uploaded, out, alone>>
    BY DEF Try, At, archive
  <1>2. pc[p] \notin Finished
    BY <1>1
  <1> QED BY <1>1, <1>2, MoveInv

LEMMA TriesInv ==
  ASSUME IInv, NEW p \in Proc,
         \/ ValidateArgs(p) \/ VCenterManager(p) \/ Login(p) \/ FindVM(p)
         \/ GuestManager(p) \/ ValidateFreeSpaceForPackage(p)
  PROVE  IInv'
  <1>1. /\ {"validate", "connect", "login", "findVM", "guest", "upload", "space", "params"}
              \subseteq Phase \ Finished
        /\ {"connect", "login", "findVM", "guest", "upload"} \intersect Looked = {}
        /\ "space" \in Looked
    BY SMT DEF Phase, Finished, Looked
  <1>2. CASE ValidateArgs(p)   BY <1>1, <1>2, TryInv, Zenon DEF ValidateArgs
  <1>3. CASE VCenterManager(p) BY <1>1, <1>3, TryInv, Zenon DEF VCenterManager
  <1>4. CASE Login(p)          BY <1>1, <1>4, TryInv, Zenon DEF Login
  <1>5. CASE FindVM(p)         BY <1>1, <1>5, TryInv, Zenon DEF FindVM
  <1>6. CASE GuestManager(p)   BY <1>1, <1>6, TryInv, Zenon DEF GuestManager
  <1>7. CASE ValidateFreeSpaceForPackage(p)
    BY <1>1, <1>7, TryInv, Zenon DEF ValidateFreeSpaceForPackage
  <1> QED BY <1>2, <1>3, <1>4, <1>5, <1>6, <1>7

LEMMA ParseInv ==
  ASSUME IInv, NEW p \in Proc, Parse(p)
  PROVE  IInv'
  <1>1. {"validate", "versions", "remove"} \subseteq (Phase \ Finished) \ Looked
    BY SMT DEF Phase, Finished, Looked
  <1>2. pc[p] \notin Finished /\ Alive(p)
    BY SMT DEF Parse, At, Finished, Alive
  <1>3. CASE cmd[p] = "badFlag"
    BY <1>2, <1>3, LeaveStep, SMT DEF Parse
  <1>4. CASE cmd[p] = "version"
    <2>1. Goto(p, "remove") /\ UNCHANGED linked
      BY <1>4, SMT DEF Parse
    <2> QED BY <1>1, <1>2, <2>1, MoveInv, SMT DEF Parse
  <1>5. CASE cmd[p] = "usage"
    <2>1. (Return(p, "usage") \/ Return(p, "success")) /\ UNCHANGED linked
      BY <1>5, SMT DEF Parse
    <2> QED BY <1>1, <1>2, <2>1, MoveInv, SMT DEF Parse
  <1>6. CASE cmd[p] = "construct"
    <2>1. (Goto(p, "validate") \/ Return(p, "usage")) /\ UNCHANGED linked
      BY <1>6, SMT DEF Parse
    <2> QED BY <1>1, <1>2, <2>1, MoveInv, SMT DEF Parse
  <1>7. CASE cmd[p] \notin {"badFlag", "version", "usage", "construct"}
    <2>1. (Goto(p, "versions") \/ Return(p, "usage")) /\ UNCHANGED linked
      BY <1>7, SMT DEF Parse
    <2> QED BY <1>1, <1>2, <2>1, MoveInv, SMT DEF Parse
  <1> QED BY <1>3, <1>4, <1>5, <1>6, <1>7

LEMMA PackagerGoes ==
  ASSUME NEW p \in Proc, Packager(p)
  PROVE  Goto(p, "space") \/ Goto(p, "params") \/ Return(p, "failure")
  <1>1. GetSource(cmd[p]) \in {"VMDK", "VCENTER", "NIL"}
    BY DEF GetSource
  <1>2. CASE GetSource(cmd[p]) = "VMDK"
    BY <1>2, Zenon DEF Packager
  <1>3. CASE GetSource(cmd[p]) = "VCENTER"
    BY <1>3, Zenon DEF Packager
  <1>4. CASE GetSource(cmd[p]) = "NIL"
    BY <1>4, Zenon DEF Packager
  <1> QED BY <1>1, <1>2, <1>3, <1>4

LEMMA PackageMoves ==
  ASSUME IInv, NEW p \in Proc,
         \/ PrepareVM(p) \/ SetVersions(p) \/ ValidateConfig(p) \/ Packager(p)
         \/ ValidateSourceParameters(p) \/ LocateOvftool(p)
  PROVE  IInv'
  <1>1. {"config", "source", "space", "params", "ovftool", "convert", "create"}
              \subseteq Phase \ Finished
        /\ {"space", "params", "ovftool", "source"} \subseteq Looked /\ "config" \notin Looked
        /\ {"prepare", "versions"} \intersect Finished = {}
    BY SMT DEF Phase, Finished, Looked
  <1>2. CASE PrepareVM(p)
    <2>1. pc[p] \notin Finished /\ (Return(p, "success") \/ Return(p, "failure"))
      BY <1>1, <1>2, SMT DEF PrepareVM, At
    <2> QED BY <1>2, <2>1, MoveInv DEF PrepareVM, archive
  <1>3. CASE SetVersions(p)
    <2>1. pc[p] \notin Finished /\ Alive(p)
      BY <1>3, SMT DEF SetVersions, At, Finished, Alive
    <2>2. CASE Leave(p, "panic")
      BY <1>3, <2>1, <2>2, LeaveStep DEF SetVersions
    <2>3. CASE Goto(p, "config") /\ UNCHANGED linked
      BY <1>1, <1>3, <2>1, <2>3, MoveInv DEF SetVersions
    <2> QED BY <1>3, <2>2, <2>3 DEF SetVersions
  <1>4. CASE ValidateConfig(p)
    <2>1. pc[p] \notin Finished
          /\ ((out = NoOutput /\ Goto(p, "source")) \/ Return(p, "failure"))
      BY <1>1, <1>4, SMT DEF ValidateConfig, At
    <2> QED BY <1>1, <1>4, <2>1, MoveInv DEF ValidateConfig, archive
  <1>5. CASE Packager(p)
    <2>1. pc[p] \in Looked \ Finished
          /\ (Goto(p, "space") \/ Goto(p, "params") \/ Return(p, "failure"))
      <3>1. pc[p] = "source"
        BY <1>5, Zenon DEF Packager, At
      <3> QED BY <1>1, <1>5, <3>1, PackagerGoes DEF Finished
    <2> QED BY <1>1, <1>5, <2>1, MoveInv DEF Packager, archive
  <1>6. CASE ValidateSourceParameters(p)
    <2>1. pc[p] \in Looked \ Finished
          /\ (Goto(p, "ovftool") \/ Goto(p, "create") \/ Return(p, "failure"))
      BY <1>1, <1>6, SMT DEF ValidateSourceParameters, At, Finished
    <2> QED BY <1>1, <1>6, <2>1, MoveInv DEF ValidateSourceParameters, archive
  <1>7. CASE LocateOvftool(p)
    <2>1. pc[p] \in Looked \ Finished
          /\ (Goto(p, "convert") \/ Return(p, "failure"))
      BY <1>1, <1>7, SMT DEF LocateOvftool, At, Finished
    <2> QED BY <1>1, <1>7, <2>1, MoveInv DEF LocateOvftool, archive
  <1> QED BY <1>2, <1>3, <1>4, <1>5, <1>6, <1>7

LEMMA OutputInv ==
  ASSUME IInv, NEW p \in Proc, Convert(p) \/ CreateStemcell(p) \/ FillStemcell(p)
  PROVE  IInv'
  <1> DEFINE Outputs == [state : {"none", "partial", "whole"}, by : SUBSET Proc]
  <1>1. /\ pc[p] \notin Finished
        /\ UNCHANGED <<machine, cmd, present, bytes, linked, uploaded, alone>>
    BY SMT DEF Convert, CreateStemcell, FillStemcell, At, Finished, archive
  <1>2. out' \in Outputs
    <2>1. out \in Outputs
      BY DEF IInv, TypeOK
    <2> QED BY <2>1, SMT DEF Convert, CreateStemcell, FillStemcell
  <1>3. Goto(p, "fill") \/ Return(p, "success") \/ Return(p, "failure")
    BY SMT DEF Convert, CreateStemcell, FillStemcell
  <1>4. {"fill", "remove"} \subseteq Phase \ (Finished \union Looked)
    BY SMT DEF Phase, Finished, Looked
  <1>5. /\ status' \in [Proc -> {"none", "success", "failure", "usage"}]
        /\ UNCHANGED left
    BY <1>3, ReturnType DEF Goto, Return, IInv, TypeOK
  <1>6. pc' = [pc EXCEPT ![p] = "fill"] \/ pc' = [pc EXCEPT ![p] = "remove"]
    BY <1>3 DEF Goto, Return
  <1> QED BY <1>1, <1>2, <1>4, <1>5, <1>6, OutputStep

LEMMA StepInv == IInv /\ [Next]_vars => IInv'
  <1> SUFFICES ASSUME IInv, [Next]_vars PROVE IInv'
    OBVIOUS
  <1>1. CASE UNCHANGED vars
    BY <1>1, StutterInv
  <1>2. CASE ClearOutput
    BY <1>2, ClearInv
  <1>3. ASSUME NEW p \in Proc, Main(p) PROVE IInv'
    BY <1>3, StartInv, OpenInv, WriteInv, ParseInv, RemoveInv DEF Main
  <1>4. ASSUME NEW p \in Proc, Construct(p) PROVE IInv'
    BY <1>4, TriesInv, UploadInv, PackageMoves DEF Construct, VMPreparer
  <1>5. ASSUME NEW p \in Proc, Package(p) PROVE IInv'
    BY <1>5, TriesInv, PackageMoves, OutputInv DEF Package
  <1>6. ASSUME NEW p \in Proc, Kill(p) PROVE IInv'
    BY <1>6, LeaveStep DEF Kill
  <1> QED BY <1>1, <1>2, <1>3, <1>4, <1>5, <1>6 DEF Next

(* Every reachable state satisfies the inductive invariant.                 *)
THEOREM Invariance == Spec => []IInv
  BY InitInv, StepInv, PTL DEF Spec

(* A process that has the directory to itself uploads its own archive,       *)
(* whatever earlier ones left in main.go's way.                             *)
THEOREM OwnUpload == Spec => []UploadIsOwn
  <1>1. IInv => UploadIsOwn
    BY DEF IInv
  <1> QED BY <1>1, Invariance, PTL

(* main.go leaves an archive behind only where it does not get to its end.  *)
THEOREM ExplainedArchive == Spec => []ArchiveIsExplained
  <1>1. IInv => ArchiveIsExplained
    BY DEF IInv
  <1> QED BY <1>1, Invariance, PTL

(* A lone package process never replaces the output of another one.         *)
LEMMA OutputAction ==
  ASSUME IInv, [Next]_vars, NEW p \in alone, out.state # "none", p \notin out.by
  PROVE  p \notin out'.by
  <1>1. CASE UNCHANGED out
    BY <1>1
  <1>2. CASE ClearOutput
    BY <1>2, SMT DEF ClearOutput, NoOutput
  <1>3. ASSUME NEW q \in Proc, Convert(q) \/ CreateStemcell(q)
        PROVE  p \notin out'.by
    <2>1. CASE q = p
      <3>1. pc[p] \in Looked
        BY <1>3, <2>1, SMT DEF Convert, CreateStemcell, At, Looked
      <3>2. out = NoOutput
        BY <3>1 DEF IInv, OutputSeen, Looked
      <3> QED BY <3>2, SMT DEF NoOutput
    <2>2. CASE q # p
      <3>1. \/ UNCHANGED out \/ out'.by = {q}
            \/ out'.by = (IF out.state = "partial" THEN out.by ELSE {}) \union {q}
        BY <1>3, SMT DEF Convert, CreateStemcell
      <3> QED BY <2>2, <3>1, SMT
    <2> QED BY <2>1, <2>2
  <1>4. ASSUME NEW q \in Proc, FillStemcell(q)
        PROVE  p \notin out'.by
    <2>1. out \in [state : {"none", "partial", "whole"}, by : SUBSET Proc]
      BY DEF IInv, TypeOK
    <2> QED BY <1>4, <2>1, SMT DEF FillStemcell
  <1>5. \/ UNCHANGED out \/ ClearOutput
        \/ \E q \in Proc : Convert(q) \/ CreateStemcell(q) \/ FillStemcell(q)
    BY Zenon DEF Next, vars, Main, Construct, Package, Kill, Start, OpenArchive, WriteArchive,
           Parse, RemoveArchive, ValidateArgs, VCenterManager, VMPreparer, Login,
           FindVM, GuestManager,
           UploadAutomation, PrepareVM, SetVersions, ValidateConfig, Packager,
           ValidateFreeSpaceForPackage, ValidateSourceParameters, LocateOvftool, Try
  <1> QED BY <1>1, <1>2, <1>3, <1>4, <1>5

(* What is at the output path is replaced only by a process that overlapped  *)
(* with another one.                                                        *)
THEOREM ReplacedByOverlap == Spec => OutputIsReplacedByOverlap
  <1>1. IInv /\ [Next]_vars =>
          [\A p \in alone : out.state # "none" /\ p \notin out.by => p \notin out'.by]_vars
    BY OutputAction
  <1> QED BY <1>1, Invariance, PTL DEF Spec, OutputIsReplacedByOverlap

-----------------------------------------------------------------------------
(* A lone package process keeps the promise of PackageAbs.                  *)

(* How a process moves: what it does to its own place and verdict, and that  *)
(* the places of the packagers are entered from the right ones only.        *)
WayStep(p, next) ==
  /\ pc' = [pc EXCEPT ![p] = next]
  /\ pc[p] # "ended"
  /\ \A q \in Proc \ {p} : status'[q] = status[q]
  /\ next \notin {"remove", "ended"} => pc[p] # "remove" /\ UNCHANGED status
  /\ next = "ovftool" => cmd[p] = "vmdk"
  /\ next = "convert" => pc[p] = "ovftool"
  /\ next = "create"  => cmd[p] = "vcenter"
  /\ next = "fill"    => pc[p] = "create"

Step(p) == Main(p) \/ Construct(p) \/ Package(p) \/ Kill(p)

LEMMA GoWay ==
  ASSUME IInv, NEW p \in Proc, pc[p] # "ended",
         \/ /\ pc[p] # "remove"
            /\ \E next \in Phase \ {"ovftool", "convert", "create", "fill"} : Goto(p, next)
         \/ \E s \in {"success", "failure", "usage"} : Return(p, s)
         \/ \E how \in {"unwritten", "flags", "panic", "killed"} : Leave(p, how)
  PROVE  \E next \in Phase : WayStep(p, next)
  <1>1. ASSUME pc[p] # "remove",
               NEW next \in Phase \ {"ovftool", "convert", "create", "fill"}, Goto(p, next)
        PROVE  \E n \in Phase : WayStep(p, n)
    <2>1. WayStep(p, next)
      BY <1>1, SMT DEF Goto, WayStep
    <2> QED BY <2>1
  <1>2. ASSUME NEW s \in {"success", "failure", "usage"}, Return(p, s)
        PROVE  \E n \in Phase : WayStep(p, n)
    <2>1. "remove" \in Phase /\ status' = [status EXCEPT ![p] = s]
      BY <1>2 DEF Phase, Return
    <2>2. WayStep(p, "remove")
      BY <1>2, <2>1, SMT DEF Return, WayStep, IInv, TypeOK
    <2> QED BY <2>1, <2>2
  <1>3. ASSUME NEW how \in {"unwritten", "flags", "panic", "killed"}, Leave(p, how)
        PROVE  \E n \in Phase : WayStep(p, n)
    <2>1. "ended" \in Phase
      BY DEF Phase
    <2>2. WayStep(p, "ended")
      BY <1>3, SMT DEF Leave, WayStep
    <2> QED BY <2>1, <2>2
  <1> QED BY <1>1, <1>2, <1>3

LEMMA MainWay ==
  ASSUME IInv, NEW p \in Proc, Main(p) \/ Kill(p)
  PROVE  cmd' = cmd /\ \E next \in Phase : WayStep(p, next)
  <1>0. {"open", "write", "parse", "validate", "versions", "remove"}
          \subseteq Phase \ {"ovftool", "convert", "create", "fill"}
    BY SMT DEF Phase
  <1>1. cmd' = cmd
    BY DEF Main, Kill, Start, OpenArchive, WriteArchive, Parse, RemoveArchive
  <1>2. CASE Start(p)
    BY <1>0, <1>2, GoWay, SMT DEF Start, At
  <1>3. CASE OpenArchive(p)
    BY <1>0, <1>3, GoWay, SMT DEF OpenArchive, At
  <1>4. CASE WriteArchive(p)
    BY <1>0, <1>4, GoWay, SMT DEF WriteArchive, At
  <1>5. CASE Parse(p)
    <2>1. \/ Leave(p, "flags") \/ Goto(p, "remove") \/ Goto(p, "validate")
          \/ Goto(p, "versions") \/ Return(p, "usage") \/ Return(p, "success")
      BY <1>5, Zenon DEF Parse
    <2>2. pc[p] = "parse"
      BY <1>5 DEF Parse, At
    <2>3. pc[p] \notin {"remove", "ended"}
      BY <2>2
    <2>4. CASE \E next \in {"remove", "validate", "versions"} : Goto(p, next)
      <3>1. \E next \in Phase \ {"ovftool", "convert", "create", "fill"} : Goto(p, next)
        BY <1>0, <2>4, Zenon
      <3> QED BY <1>1, <2>3, <3>1, GoWay
    <2>5. CASE Leave(p, "flags") \/ Return(p, "usage") \/ Return(p, "success")
      <3>1. \/ \E how \in {"unwritten", "flags", "panic", "killed"} : Leave(p, how)
            \/ \E s \in {"success", "failure", "usage"} : Return(p, s)
        BY <2>5, Zenon
      <3> QED BY <1>1, <2>3, <3>1, GoWay
    <2> QED BY <2>1, <2>4, <2>5
  <1>6. CASE RemoveArchive(p)
    <2>1. pc[p] = "remove" /\ pc' = [pc EXCEPT ![p] = "ended"] /\ status' = status
      BY <1>6, SMT DEF RemoveArchive, At
    <2>2. WayStep(p, "ended")
      BY <2>1, SMT DEF WayStep
    <2>3. "ended" \in Phase
      BY DEF Phase
    <2> QED BY <1>1, <2>2, <2>3
  <1>7. CASE Kill(p)
    BY <1>7, GoWay, SMT DEF Kill, Alive
  <1> QED BY <1>1, <1>2, <1>3, <1>4, <1>5, <1>6, <1>7 DEF Main

LEMMA ConstructWay ==
  ASSUME IInv, NEW p \in Proc, Construct(p)
  PROVE  cmd' = cmd /\ \E next \in Phase : WayStep(p, next)
  <1>1. cmd' = cmd
    BY DEF Construct, VMPreparer, ValidateArgs, VCenterManager, Login, FindVM, GuestManager,
           Try, UploadAutomation, PrepareVM
  <1>2. pc[p] \in {"validate", "connect", "login", "findVM", "guest", "upload", "prepare"}
    BY SMT DEF Construct, VMPreparer, ValidateArgs, VCenterManager, Login, FindVM, GuestManager,
           Try, UploadAutomation, PrepareVM, At
  <1>3. \/ \E next \in {"connect", "login", "findVM", "guest", "upload", "prepare"} : Goto(p, next)
        \/ \E s \in {"success", "failure"} : Return(p, s)
    BY Zenon DEF Construct, VMPreparer, ValidateArgs, VCenterManager, Login, FindVM, GuestManager,
           Try, UploadAutomation, PrepareVM
  <1>4. {"connect", "login", "findVM", "guest", "upload", "prepare"}
          \subseteq Phase \ {"ovftool", "convert", "create", "fill"}
    BY SMT DEF Phase
  <1> QED BY <1>1, <1>2, <1>3, <1>4, GoWay

LEMMA PackageWay ==
  ASSUME IInv, NEW p \in Proc, Package(p)
  PROVE  cmd' = cmd /\ \E next \in Phase : WayStep(p, next)
  <1>1. cmd' = cmd
    BY DEF Package, SetVersions, ValidateConfig, Packager, ValidateFreeSpaceForPackage, Try,
           ValidateSourceParameters, LocateOvftool, Convert, CreateStemcell, FillStemcell
  <1>2. pc[p] \in {"versions", "config"} \union Packaging
    <2>1. \E phase \in {"versions", "config"} \union Packaging : At(p, phase)
      BY Zenon DEF Package, SetVersions, ValidateConfig, Packager, ValidateFreeSpaceForPackage,
             Try, ValidateSourceParameters, LocateOvftool, Convert, CreateStemcell,
             FillStemcell, Packaging
    <2> QED BY <2>1 DEF At
  <1>3. pc[p] \notin {"remove", "ended"}
    BY <1>2, SMT DEF Packaging
  <1>4. /\ {"config", "source", "space", "params"}
             \subseteq Phase \ {"ovftool", "convert", "create", "fill"}
        /\ {"ovftool", "convert", "create", "fill"} \subseteq Phase
    BY SMT DEF Phase
  <1>5. CASE \/ \E next \in {"config", "source", "space", "params"} : Goto(p, next)
             \/ \E s \in {"success", "failure"} : Return(p, s)
             \/ Leave(p, "panic")
    BY <1>1, <1>3, <1>4, <1>5, GoWay
  <1>6. CASE \/ cmd[p] = "vmdk" /\ Goto(p, "ovftool")
             \/ cmd[p] = "vcenter" /\ Goto(p, "create")
             \/ pc[p] = "ovftool" /\ Goto(p, "convert")
             \/ pc[p] = "create" /\ Goto(p, "fill")
    <2>1. \E next \in {"ovftool", "convert", "create", "fill"} : WayStep(p, next)
      BY <1>3, <1>6, SMT DEF Goto, WayStep
    <2> QED BY <1>1, <1>4, <2>1
  <1>7. \/ \E next \in {"config", "source", "space", "params"} : Goto(p, next)
        \/ \E s \in {"success", "failure"} : Return(p, s)
        \/ Leave(p, "panic")
        \/ cmd[p] = "vmdk" /\ Goto(p, "ovftool")
        \/ cmd[p] = "vcenter" /\ Goto(p, "create")
        \/ pc[p] = "ovftool" /\ Goto(p, "convert")
        \/ pc[p] = "create" /\ Goto(p, "fill")
    <2>1. ASSUME Packager(p)
          PROVE  Goto(p, "space") \/ Goto(p, "params") \/ Return(p, "failure")
      BY <2>1, PackagerGoes
    <2> QED BY <2>1, Zenon DEF Package, SetVersions, ValidateConfig,
              ValidateFreeSpaceForPackage, Try, ValidateSourceParameters, LocateOvftool,
              Convert, CreateStemcell, FillStemcell, At
  <1> QED BY <1>5, <1>6, <1>7

LEMMA Way ==
  ASSUME IInv, NEW p \in Proc, Step(p)
  PROVE  cmd' = cmd /\ \E next \in Phase : WayStep(p, next)
  BY MainWay, ConstructWay, PackageWay DEF Step

LEMMA WayInit == Init => OwnWay
  BY SMT DEF Init, OwnWay

LEMMA WayInv == IInv /\ OwnWay /\ [Next]_vars => OwnWay'
  <1> SUFFICES ASSUME IInv, OwnWay, [Next]_vars PROVE OwnWay'
    OBVIOUS
  <1>1. CASE UNCHANGED vars \/ ClearOutput
    BY <1>1, SMT DEF vars, ClearOutput, OwnWay
  <1>2. ASSUME NEW p \in Proc, Step(p) PROVE OwnWay'
    <2>1. cmd' = cmd /\ \E next \in Phase : WayStep(p, next)
      BY <1>2, Way
    <2>2. PICK next \in Phase : WayStep(p, next)
      BY <2>1
    <2>3. ASSUME NEW q \in Proc, q # p
          PROVE  pc'[q] = pc[q] /\ status'[q] = status[q]
      BY <2>2, <2>3, SMT DEF WayStep, IInv, TypeOK
    <2>4. pc'[p] = next
      BY <2>2, SMT DEF WayStep, IInv, TypeOK
    <2>5. /\ pc'[p] \notin {"remove", "ended"} => status'[p] = "none"
          /\ pc'[p] \in {"ovftool", "convert"} => cmd'[p] = "vmdk"
          /\ pc'[p] \in {"create", "fill"} => cmd'[p] = "vcenter"
      BY <2>1, <2>2, <2>4, SMT DEF WayStep, OwnWay
    <2> QED BY <2>1, <2>3, <2>5, SMT DEF OwnWay
  <1> QED BY <1>1, <1>2 DEF Next, Step

LEMMA WayInvariance == Spec => []OwnWay
  BY WayInit, WayInv, Invariance, PTL DEF Spec

(* Only the process at work, or the operator, touches the output path, and   *)
(* the process only in a packager.                                          *)
LEMMA OutputTouched ==
  ASSUME IInv, NEW p \in Proc, Step(p)
  PROVE  \/ out' = out
         \/ pc[p] \in Packaging /\ (Convert(p) \/ CreateStemcell(p) \/ FillStemcell(p))
  <1>1. out' = out \/ Convert(p) \/ CreateStemcell(p) \/ FillStemcell(p)
    BY Zenon DEF Step, Main, Construct, Package, Kill, Start, OpenArchive, WriteArchive,
           Parse, RemoveArchive, ValidateArgs, VCenterManager, VMPreparer, Login,
           FindVM, GuestManager,
           UploadAutomation, PrepareVM, SetVersions, ValidateConfig, Packager,
           ValidateFreeSpaceForPackage, ValidateSourceParameters, LocateOvftool, Try
  <1>2. Convert(p) \/ CreateStemcell(p) \/ FillStemcell(p) => pc[p] \in Packaging
    BY SMT DEF Convert, CreateStemcell, FillStemcell, At, Packaging
  <1> QED BY <1>1, <1>2

(* What the process itself does between its look and its end.               *)
LEMMA LoneStep ==
  ASSUME IInv, OwnWay, NEW p \in alone, NEW c \in Command, cmd[p] = c,
         pc[p] \in Packaging, Step(p)
  PROVE  Lone(p, c)!Next \/ UNCHANGED Lone(p, c)!vars
  <1>1. p \in Proc /\ status[p] = "none" /\ PackageVerdict(p) = "running"
    BY SMT DEF IInv, TypeOK, OwnWay, Packaging, PackageVerdict
  <1>2. pc[p] # "fill" => out.state = "none"
    BY SMT DEF IInv, OutputSeen, NoOutput, Packaging
  <1>3. out.state \in {"none", "partial", "whole"} /\ out'.state \in {"none", "partial", "whole"}
    <2>1. IInv'
      BY <1>1, StepInv DEF Next, Step
    <2> QED BY <2>1 DEF IInv, TypeOK
  <1>4. \/ /\ \E next \in Packaging : Goto(p, next)
           /\ c = "vmdk" => out'.state = "none"
        \/ Return(p, "failure") /\ out' = out /\ pc[p] # "fill"
        \/ Return(p, "success") /\ out'.state \in Deliveries(c)
        \/ Leave(p, "killed") /\ out' = out
    <2>1. Package(p) \/ Kill(p)
      BY <1>1, SMT DEF Step, Main, Construct, VMPreparer, Start, OpenArchive, WriteArchive, Parse,
            RemoveArchive, ValidateArgs, VCenterManager, Login, FindVM, GuestManager, Try,
            UploadAutomation, PrepareVM, At, Packaging
    <2>2. CASE Kill(p)
      BY <2>2 DEF Kill
    <2>3. CASE Convert(p)
      <3>1. c = "vmdk"
        BY <1>1, <2>3 DEF Convert, At, OwnWay
      <3> QED BY <2>3, <3>1, SMT DEF Convert, At, Deliveries
    <2>4. CASE CreateStemcell(p)
      <3>1. c = "vcenter" /\ pc[p] = "create"
        BY <1>1, <2>4 DEF CreateStemcell, At, OwnWay
      <3>2. CASE Goto(p, "fill")
        BY <3>1, <3>2 DEF Packaging
      <3>3. CASE out' = out /\ (Return(p, "failure") \/ Return(p, "success"))
        BY <1>3, <3>1, <3>3 DEF Deliveries
      <3> QED BY <2>4, <3>2, <3>3 DEF CreateStemcell
    <2>5. CASE FillStemcell(p)
      <3>1. c = "vcenter"
        BY <1>1, <2>5 DEF FillStemcell, At, OwnWay
      <3> QED BY <1>3, <2>5, <3>1 DEF FillStemcell, Deliveries
    <2>6. CASE SetVersions(p) \/ ValidateConfig(p)
      BY <2>6, SMT DEF SetVersions, ValidateConfig, At, Packaging
    <2>7. CASE \/ Packager(p) \/ ValidateFreeSpaceForPackage(p)
               \/ ValidateSourceParameters(p) \/ LocateOvftool(p)
      <3>1. out' = out
        BY <2>7 DEF Packager, ValidateFreeSpaceForPackage, Try, ValidateSourceParameters,
               LocateOvftool
      <3>2. pc[p] # "fill"
        <4>1. \E phase \in {"source", "space", "params", "ovftool"} : At(p, phase)
          BY <2>7, Zenon DEF Packager, ValidateFreeSpaceForPackage, Try,
                 ValidateSourceParameters, LocateOvftool
        <4> QED BY <4>1 DEF At
      <3>3. ASSUME Packager(p)
            PROVE  Goto(p, "space") \/ Goto(p, "params") \/ Return(p, "failure")
        BY <1>1, <3>3, PackagerGoes
      <3>4. \/ \E next \in {"space", "params", "ovftool", "create", "convert"} : Goto(p, next)
            \/ Return(p, "failure")
        BY <2>7, <3>3, Zenon DEF ValidateFreeSpaceForPackage, Try, ValidateSourceParameters,
               LocateOvftool
      <3> QED BY <1>2, <3>1, <3>2, <3>4 DEF Packaging
    <2> QED BY <2>1, <2>2, <2>3, <2>4, <2>5, <2>6, <2>7 DEF Package
  <1>5. CASE \E next \in Packaging : Goto(p, next) /\ (c = "vmdk" => out'.state = "none")
    <2>1. PackageVerdict(p)' = "running"
      BY <1>1, <1>5, SMT DEF Goto, PackageVerdict, IInv, TypeOK
    <2>2. Lone(p, c)!Write
      BY <1>1, <1>3, <1>5, <2>1, SMT DEF Lone!Write, Lone!Output, Remains, Deliveries
    <2> QED BY <2>2 DEF Lone!Next
  <1>6. CASE Return(p, "failure") /\ out' = out /\ pc[p] # "fill"
    <2>1. PackageVerdict(p)' = "failed"
      BY <1>1, <1>6, SMT DEF Return, PackageVerdict, Packaging, IInv, TypeOK
    <2>2. Lone(p, c)!Fail
      BY <1>1, <1>2, <1>6, <2>1 DEF Lone!Fail
    <2> QED BY <2>2 DEF Lone!Next
  <1>7. CASE Return(p, "success") /\ out'.state \in Deliveries(c)
    <2>1. PackageVerdict(p)' = "succeeded"
      BY <1>1, <1>7, SMT DEF Return, PackageVerdict, Packaging, IInv, TypeOK
    <2>2. Lone(p, c)!Succeed
      BY <1>1, <1>7, <2>1 DEF Lone!Succeed
    <2> QED BY <2>2 DEF Lone!Next
  <1>8. CASE Leave(p, "killed") /\ out' = out
    <2>1. PackageVerdict(p)' = "cutOff"
      BY <1>1, <1>8, SMT DEF Leave, PackageVerdict, Packaging, IInv, TypeOK
    <2>2. Lone(p, c)!CutOff
      BY <1>1, <1>8, <2>1 DEF Lone!CutOff
    <2> QED BY <2>2 DEF Lone!Next
  <1> QED BY <1>4, <1>5, <1>6, <1>7, <1>8

(* Nobody else is at work while a process is alone, and a start ends that.   *)
LEMMA LoneAction ==
  ASSUME IInv, OwnWay, [Next]_vars, NEW p \in alone, NEW c \in Command, cmd[p] = c,
         pc[p] \in Packaging
  PROVE  Lone(p, c)!Next \/ UNCHANGED Lone(p, c)!vars
  <1>1. p \in Proc /\ PackageVerdict(p) = "running"
    BY SMT DEF IInv, TypeOK, OwnWay, PackageVerdict, Packaging
  <1>2. CASE UNCHANGED vars
    BY <1>2 DEF vars, PackageVerdict, Lone!vars
  <1>3. CASE ClearOutput
    <2>1. PackageVerdict(p)' = PackageVerdict(p) /\ out'.state = "none"
      BY <1>3 DEF ClearOutput, PackageVerdict, NoOutput
    <2>2. Lone(p, c)!Write
      BY <1>1, <2>1 DEF Lone!Write, Lone!Output
    <2> QED BY <2>2 DEF Lone!Next
  <1>4. ASSUME NEW q \in Proc, q # p, Step(q)
        PROVE  UNCHANGED Lone(p, c)!vars
    <2>1. PICK next \in Phase : WayStep(q, next)
      BY <1>4, Way
    <2>2. PackageVerdict(p)' = PackageVerdict(p)
      BY <1>1, <1>4, <2>1, SMT DEF WayStep, PackageVerdict, IInv, TypeOK
    <2>3. pc[q] \notin Packaging
      BY <1>1, <1>4, SMT DEF IInv, AloneIsAlone, Alive, Packaging
    <2>4. out' = out
      BY <1>4, <2>3, OutputTouched
    <2> QED BY <2>2, <2>4 DEF Lone!vars
  <1>5. CASE Step(p)
    BY <1>5, LoneStep
  <1> QED BY <1>1, <1>2, <1>3, <1>4, <1>5 DEF Next, Step

(* A package that found the output path free and is alone with it does with  *)
(* it what PackageAbs says, whichever packager it runs.                     *)
THEOREM LonePackage == Spec => LonePackageIsPackage
  <1>1. IInv /\ OwnWay /\ [Next]_vars =>
          [\A p \in alone, c \in Command :
             cmd[p] = c /\ pc[p] \in Packaging
               => Lone(p, c)!Next \/ UNCHANGED Lone(p, c)!vars]_vars
    BY LoneAction
  <1> QED BY <1>1, Invariance, WayInvariance, PTL DEF Spec, LonePackageIsPackage

-----------------------------------------------------------------------------
(* The search for ovftool, on every machine.                                *)

(* ovftool is never found where the message of package says it cannot be.    *)
THEOREM LocatedIsAvailable ==
  ASSUME NEW m \in Machine, Located(m)
  PROVE  Available(m)
  <1>1. m.platform \in Platform
    BY DEF Machine
  <1>2. CASE m.platform = "windows"
    <2>1. PICK k \in KeyPaths : m.key[k] = "withPath"
      BY <1>2 DEF Located, SearchPaths, VmwareInstallPaths
    <2> QED BY <1>2, <2>1 DEF Located, Found, OvftoolWindows, Available
  <1>3. CASE m.platform = "darwin"
    BY <1>3 DEF Located, Found, OvftoolDarwin, Available
  <1>4. CASE m.platform = "other"
    BY <1>4 DEF Located, Found, OvftoolPortable, Available
  <1> QED BY <1>1, <1>2, <1>3, <1>4 DEF Platform

(* Where an available ovftool is not found, the machine runs Windows, and no *)
(* registry key has an install path, or a key without one is opened first:   *)
(* that includes every Windows machine with ovftool on the PATH only.        *)
THEOREM MissedOnWindows ==
  ASSUME NEW m \in Machine, Available(m)
  PROVE  Located(m) <=>
           ~ /\ m.platform = "windows"
             /\ \A k \in KeyPaths :
                  m.key[k] = "withPath" => \E j \in 1 .. k - 1 : m.key[j] # "absent"
  <1>1. m.platform \in Platform
    BY DEF Machine
  <1>2. CASE m.platform = "windows"
    <2>1. Found(m)
      BY <1>2 DEF Available, Found, OvftoolWindows
    <2> QED BY <1>2, <2>1, Zenon DEF Located, SearchPaths, VmwareInstallPaths
  <1>3. CASE m.platform = "darwin"
    BY <1>3 DEF Available, Located, SearchPaths, Found, OvftoolDarwin
  <1>4. CASE m.platform = "other"
    BY <1>4 DEF Available, Located, SearchPaths, Found, OvftoolPortable
  <1> QED BY <1>1, <1>2, <1>3, <1>4 DEF Platform
=============================================================================
