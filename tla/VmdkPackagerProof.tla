-------------------------- MODULE VmdkPackagerProof --------------------------
(***************************************************************************)
(* The invariants of VmdkPackager for every number of interrupts, proved    *)
(* with TLAPS.                                                              *)
(***************************************************************************)
EXTENDS VmdkPackager, TLAPS

USE MaxSignalsAssumption
    DEF Entry, Contents, Cause, Building, Phase, Handler, Goroutine, NeedsOva,
        NeedsImage, NeedsManifest, NeedsStemcell, Transferring

LEMMA InitInv == Init => IInv
<1> SUFFICES ASSUME Init PROVE IInv
  OBVIOUS
<1>1. TypeOK
  <2>1. /\ named \in BOOLEAN /\ dir \in BOOLEAN /\ sameDisk \in BOOLEAN
        /\ zip \in BOOLEAN /\ stop \in BOOLEAN
    BY Zenon DEF Init
  <2>. QED
    BY <2>1 DEF Init, TypeOK
<1>. QED
  BY <1>1 DEF Init, IInv, DirectoryKnown, OvftoolHasPhase, IntactUntilStopped,
              RemovalCompletes, Delivery, GoneOnlyWhenStopped

LEMMA MkTempInv == IInv /\ MkTemp => IInv'
<1> SUFFICES ASSUME IInv, MkTemp PROVE IInv'
  OBVIOUS
<1> USE DEF MkTemp, At, Proceed, Fail, tmp, result, os, handler, removal
<1>1. TypeOK'
  BY DEF IInv, TypeOK
<1>2. DirectoryKnown' /\ OvftoolHasPhase'
  BY DEF IInv, TypeOK, DirectoryKnown, OvftoolHasPhase
<1>3. IntactUntilStopped' /\ GoneOnlyWhenStopped'
  BY DEF IInv, TypeOK, IntactUntilStopped, GoneOnlyWhenStopped, OvftoolHasPhase
<1>4. RemovalCompletes'
  BY DEF IInv, TypeOK, RemovalCompletes, DirectoryKnown, OvftoolHasPhase
<1>5. Delivery'
  BY DEF IInv, TypeOK, Delivery
<1>. QED
  BY <1>1, <1>2, <1>3, <1>4, <1>5 DEF IInv

LEMMA NameTmpInv == IInv /\ NameTmp => IInv'
<1> SUFFICES ASSUME IInv, NameTmp PROVE IInv'
  OBVIOUS
<1> USE DEF NameTmp, At, Proceed, Fail, tmp, result, os, handler, removal
<1>1. TypeOK'
  BY DEF IInv, TypeOK
<1>2. DirectoryKnown' /\ OvftoolHasPhase'
  BY DEF IInv, TypeOK, DirectoryKnown, OvftoolHasPhase
<1>3. IntactUntilStopped' /\ GoneOnlyWhenStopped'
  BY DEF IInv, TypeOK, IntactUntilStopped, GoneOnlyWhenStopped, OvftoolHasPhase
<1>4. RemovalCompletes'
  BY DEF IInv, TypeOK, RemovalCompletes, DirectoryKnown, OvftoolHasPhase
<1>5. Delivery'
  BY DEF IInv, TypeOK, Delivery
<1>. QED
  BY <1>1, <1>2, <1>3, <1>4, <1>5 DEF IInv

LEMMA WriteVMXInv == IInv /\ WriteVMX => IInv'
<1> SUFFICES ASSUME IInv, WriteVMX PROVE IInv'
  OBVIOUS
<1> USE DEF WriteVMX, WriteVMXTemplate, CreateAndWrite, CreateAndWrite, At, Create, Proceed, Fail, tmp, result, os, handler, removal
<1>1. TypeOK'
  <2>1. /\ pc' \in Phase /\ cause' \in Cause /\ sig' \in Handler
        /\ exit' \in {"running", "success", "failure", "second", "default", "panic"}
    BY DEF IInv, TypeOK
  <2>2. files' \subseteq Entry /\ stemcell' \in Contents /\ out' \in Contents
    BY DEF IInv, TypeOK
  <2>3. /\ named' \in BOOLEAN /\ dir' \in BOOLEAN /\ sameDisk' \in BOOLEAN
        /\ zip' \in BOOLEAN /\ stop' \in BOOLEAN
    BY DEF IInv, TypeOK
  <2>4. /\ sent' \in 0 .. MaxSignals /\ pending' \in 0 .. sent'
        /\ listed' \in [Goroutine -> SUBSET Entry] /\ refused' \subseteq {"tmp", "zip"}
        /\ ovftool' \in {"none", "starting", "writing", "exit0", "failed", "dying", "dead"}
    BY DEF IInv, TypeOK
  <2>. QED
    BY <2>1, <2>2, <2>3, <2>4 DEF TypeOK
<1>2. DirectoryKnown' /\ OvftoolHasPhase'
  <2>1. ~dir' => files' = {}
    BY DEF IInv, TypeOK, DirectoryKnown
  <2>2. dir' => dir
    BY DEF IInv, TypeOK, DirectoryKnown
  <2>. QED
    BY <2>1, <2>2 DEF IInv, DirectoryKnown, OvftoolHasPhase
<1>3. IntactUntilStopped' /\ GoneOnlyWhenStopped'
  BY DEF IInv, TypeOK, IntactUntilStopped, GoneOnlyWhenStopped, OvftoolHasPhase
<1>4. RemovalCompletes'
  BY DEF IInv, TypeOK, RemovalCompletes, DirectoryKnown, OvftoolHasPhase
<1>5. Delivery'
  BY DEF IInv, TypeOK, Delivery
<1>. QED
  BY <1>1, <1>2, <1>3, <1>4, <1>5 DEF IInv

LEMMA StartOvftoolInv == IInv /\ StartOvftool => IInv'
<1> SUFFICES ASSUME IInv, StartOvftool PROVE IInv'
  OBVIOUS
<1> USE DEF StartOvftool, At, Proceed, Fail, tmp, result, os, handler, removal
<1>1. TypeOK'
  BY DEF IInv, TypeOK
<1>2. DirectoryKnown' /\ OvftoolHasPhase'
  BY DEF IInv, TypeOK, DirectoryKnown, OvftoolHasPhase
<1>3. IntactUntilStopped' /\ GoneOnlyWhenStopped'
  BY DEF IInv, TypeOK, IntactUntilStopped, GoneOnlyWhenStopped, OvftoolHasPhase
<1>4. RemovalCompletes'
  BY DEF IInv, TypeOK, RemovalCompletes, DirectoryKnown, OvftoolHasPhase
<1>5. Delivery'
  BY DEF IInv, TypeOK, Delivery
<1>. QED
  BY <1>1, <1>2, <1>3, <1>4, <1>5 DEF IInv

LEMMA WaitOvftoolInv == IInv /\ WaitOvftool => IInv'
<1> SUFFICES ASSUME IInv, WaitOvftool PROVE IInv'
  OBVIOUS
<1> USE DEF WaitOvftool, At, Proceed, Fail, tmp, result, os, handler, removal
<1>1. TypeOK'
  BY DEF IInv, TypeOK
<1>2. DirectoryKnown' /\ OvftoolHasPhase'
  BY DEF IInv, TypeOK, DirectoryKnown, OvftoolHasPhase
<1>3. IntactUntilStopped' /\ GoneOnlyWhenStopped'
  BY DEF IInv, TypeOK, IntactUntilStopped, GoneOnlyWhenStopped, OvftoolHasPhase
<1>4. RemovalCompletes'
  BY DEF IInv, TypeOK, RemovalCompletes, DirectoryKnown, OvftoolHasPhase
<1>5. Delivery'
  BY DEF IInv, TypeOK, Delivery
<1>. QED
  BY <1>1, <1>2, <1>3, <1>4, <1>5 DEF IInv

LEMMA CreateImageInv == IInv /\ CreateImage => IInv'
<1> SUFFICES ASSUME IInv, CreateImage PROVE IInv'
  OBVIOUS
<1> USE DEF CreateImage, At, Create, Proceed, Fail, tmp, result, os, handler, removal
<1>1. TypeOK'
  <2>1. /\ pc' \in Phase /\ cause' \in Cause /\ sig' \in Handler
        /\ exit' \in {"running", "success", "failure", "second", "default", "panic"}
    BY DEF IInv, TypeOK
  <2>2. files' \subseteq Entry /\ stemcell' \in Contents /\ out' \in Contents
    BY DEF IInv, TypeOK
  <2>3. /\ named' \in BOOLEAN /\ dir' \in BOOLEAN /\ sameDisk' \in BOOLEAN
        /\ zip' \in BOOLEAN /\ stop' \in BOOLEAN
    BY DEF IInv, TypeOK
  <2>4. /\ sent' \in 0 .. MaxSignals /\ pending' \in 0 .. sent'
        /\ listed' \in [Goroutine -> SUBSET Entry] /\ refused' \subseteq {"tmp", "zip"}
        /\ ovftool' \in {"none", "starting", "writing", "exit0", "failed", "dying", "dead"}
    BY DEF IInv, TypeOK
  <2>. QED
    BY <2>1, <2>2, <2>3, <2>4 DEF TypeOK
<1>2. DirectoryKnown' /\ OvftoolHasPhase'
  BY DEF IInv, TypeOK, DirectoryKnown, OvftoolHasPhase
<1>3. IntactUntilStopped' /\ GoneOnlyWhenStopped'
  BY DEF IInv, TypeOK, IntactUntilStopped, GoneOnlyWhenStopped, OvftoolHasPhase
<1>4. RemovalCompletes'
  BY DEF IInv, TypeOK, RemovalCompletes, DirectoryKnown, OvftoolHasPhase
<1>5. Delivery'
  BY DEF IInv, TypeOK, Delivery
<1>. QED
  BY <1>1, <1>2, <1>3, <1>4, <1>5 DEF IInv

LEMMA CopyImageInv == IInv /\ CopyImage => IInv'
<1> SUFFICES ASSUME IInv, CopyImage PROVE IInv'
  OBVIOUS
<1> USE DEF CopyImage, At, Proceed, Fail, tmp, result, os, handler, removal
<1>1. TypeOK'
  BY DEF IInv, TypeOK
<1>2. DirectoryKnown' /\ OvftoolHasPhase'
  BY DEF IInv, TypeOK, DirectoryKnown, OvftoolHasPhase
<1>3. IntactUntilStopped' /\ GoneOnlyWhenStopped'
  BY DEF IInv, TypeOK, IntactUntilStopped, GoneOnlyWhenStopped, OvftoolHasPhase
<1>4. RemovalCompletes'
  BY DEF IInv, TypeOK, RemovalCompletes, DirectoryKnown, OvftoolHasPhase
<1>5. Delivery'
  BY DEF IInv, TypeOK, Delivery
<1>. QED
  BY <1>1, <1>2, <1>3, <1>4, <1>5 DEF IInv

LEMMA WriteManifestInv == IInv /\ WriteManifest => IInv'
<1> SUFFICES ASSUME IInv, WriteManifest PROVE IInv'
  OBVIOUS
<1> USE DEF WriteManifest, CreateAndWrite, At, Create, Proceed, Fail, tmp, result, os, handler, removal
<1>1. TypeOK'
  <2>1. /\ pc' \in Phase /\ cause' \in Cause /\ sig' \in Handler
        /\ exit' \in {"running", "success", "failure", "second", "default", "panic"}
    BY DEF IInv, TypeOK
  <2>2. files' \subseteq Entry /\ stemcell' \in Contents /\ out' \in Contents
    BY DEF IInv, TypeOK
  <2>3. /\ named' \in BOOLEAN /\ dir' \in BOOLEAN /\ sameDisk' \in BOOLEAN
        /\ zip' \in BOOLEAN /\ stop' \in BOOLEAN
    BY DEF IInv, TypeOK
  <2>4. /\ sent' \in 0 .. MaxSignals /\ pending' \in 0 .. sent'
        /\ listed' \in [Goroutine -> SUBSET Entry] /\ refused' \subseteq {"tmp", "zip"}
        /\ ovftool' \in {"none", "starting", "writing", "exit0", "failed", "dying", "dead"}
    BY DEF IInv, TypeOK
  <2>. QED
    BY <2>1, <2>2, <2>3, <2>4 DEF TypeOK
<1>2. DirectoryKnown' /\ OvftoolHasPhase'
  <2>1. ~dir' => files' = {}
    BY DEF IInv, TypeOK, DirectoryKnown
  <2>2. dir' => dir
    BY DEF IInv, TypeOK, DirectoryKnown
  <2>. QED
    BY <2>1, <2>2 DEF IInv, DirectoryKnown, OvftoolHasPhase
<1>3. IntactUntilStopped' /\ GoneOnlyWhenStopped'
  BY DEF IInv, TypeOK, IntactUntilStopped, GoneOnlyWhenStopped, OvftoolHasPhase
<1>4. RemovalCompletes'
  BY DEF IInv, TypeOK, RemovalCompletes, DirectoryKnown, OvftoolHasPhase
<1>5. Delivery'
  BY DEF IInv, TypeOK, Delivery
<1>. QED
  BY <1>1, <1>2, <1>3, <1>4, <1>5 DEF IInv

LEMMA OpenStemcellInv == IInv /\ OpenStemcell => IInv'
<1> SUFFICES ASSUME IInv, OpenStemcell PROVE IInv'
  OBVIOUS
<1> USE DEF OpenStemcell, At, Create, Proceed, Fail, tmp, result, os, handler, removal
<1>1. TypeOK'
  <2>1. /\ pc' \in Phase /\ cause' \in Cause /\ sig' \in Handler
        /\ exit' \in {"running", "success", "failure", "second", "default", "panic"}
    BY DEF IInv, TypeOK
  <2>2. files' \subseteq Entry /\ stemcell' \in Contents /\ out' \in Contents
    BY DEF IInv, TypeOK
  <2>3. /\ named' \in BOOLEAN /\ dir' \in BOOLEAN /\ sameDisk' \in BOOLEAN
        /\ zip' \in BOOLEAN /\ stop' \in BOOLEAN
    BY DEF IInv, TypeOK
  <2>4. /\ sent' \in 0 .. MaxSignals /\ pending' \in 0 .. sent'
        /\ listed' \in [Goroutine -> SUBSET Entry] /\ refused' \subseteq {"tmp", "zip"}
        /\ ovftool' \in {"none", "starting", "writing", "exit0", "failed", "dying", "dead"}
    BY DEF IInv, TypeOK
  <2>. QED
    BY <2>1, <2>2, <2>3, <2>4 DEF TypeOK
<1>2. DirectoryKnown' /\ OvftoolHasPhase'
  BY DEF IInv, TypeOK, DirectoryKnown, OvftoolHasPhase
<1>3. IntactUntilStopped' /\ GoneOnlyWhenStopped'
  BY DEF IInv, TypeOK, IntactUntilStopped, GoneOnlyWhenStopped, OvftoolHasPhase
<1>4. RemovalCompletes'
  BY DEF IInv, TypeOK, RemovalCompletes, DirectoryKnown, OvftoolHasPhase
<1>5. Delivery'
  BY DEF IInv, TypeOK, Delivery
<1>. QED
  BY <1>1, <1>2, <1>3, <1>4, <1>5 DEF IInv

LEMMA AddImageInv == IInv /\ AddImage => IInv'
<1> SUFFICES ASSUME IInv, AddImage PROVE IInv'
  OBVIOUS
<1> USE DEF AddImage, At, AddTarFile, Transfers, Discard, Proceed, Fail, tmp, result, os, handler, removal
<1>1. TypeOK'
  <2>1. /\ pc' \in Phase /\ cause' \in Cause /\ sig' \in Handler
        /\ exit' \in {"running", "success", "failure", "second", "default", "panic"}
    BY DEF IInv, TypeOK
  <2>2. files' \subseteq Entry /\ stemcell' \in Contents /\ out' \in Contents
    BY DEF IInv, TypeOK
  <2>3. /\ named' \in BOOLEAN /\ dir' \in BOOLEAN /\ sameDisk' \in BOOLEAN
        /\ zip' \in BOOLEAN /\ stop' \in BOOLEAN
    BY DEF IInv, TypeOK
  <2>4. /\ sent' \in 0 .. MaxSignals /\ pending' \in 0 .. sent'
        /\ listed' \in [Goroutine -> SUBSET Entry] /\ refused' \subseteq {"tmp", "zip"}
        /\ ovftool' \in {"none", "starting", "writing", "exit0", "failed", "dying", "dead"}
    BY DEF IInv, TypeOK
  <2>. QED
    BY <2>1, <2>2, <2>3, <2>4 DEF TypeOK
<1>2. DirectoryKnown' /\ OvftoolHasPhase'
  <2>1. ~dir' => files' = {}
    BY DEF IInv, TypeOK, DirectoryKnown
  <2>2. dir' => dir
    BY DEF IInv, TypeOK, DirectoryKnown
  <2>. QED
    BY <2>1, <2>2 DEF IInv, DirectoryKnown, OvftoolHasPhase
<1>3. IntactUntilStopped' /\ GoneOnlyWhenStopped'
  BY DEF IInv, TypeOK, IntactUntilStopped, GoneOnlyWhenStopped, OvftoolHasPhase
<1>4. RemovalCompletes'
  BY DEF IInv, TypeOK, RemovalCompletes, DirectoryKnown, OvftoolHasPhase
<1>5. Delivery'
  BY DEF IInv, TypeOK, Delivery
<1>. QED
  BY <1>1, <1>2, <1>3, <1>4, <1>5 DEF IInv

LEMMA AddManifestInv == IInv /\ AddManifest => IInv'
<1> SUFFICES ASSUME IInv, AddManifest PROVE IInv'
  OBVIOUS
<1> USE DEF AddManifest, At, AddTarFile, Transfers, Discard, Proceed, Fail, tmp, result, os, handler, removal
<1>1. TypeOK'
  <2>1. /\ pc' \in Phase /\ cause' \in Cause /\ sig' \in Handler
        /\ exit' \in {"running", "success", "failure", "second", "default", "panic"}
    BY DEF IInv, TypeOK
  <2>2. files' \subseteq Entry /\ stemcell' \in Contents /\ out' \in Contents
    BY DEF IInv, TypeOK
  <2>3. /\ named' \in BOOLEAN /\ dir' \in BOOLEAN /\ sameDisk' \in BOOLEAN
        /\ zip' \in BOOLEAN /\ stop' \in BOOLEAN
    BY DEF IInv, TypeOK
  <2>4. /\ sent' \in 0 .. MaxSignals /\ pending' \in 0 .. sent'
        /\ listed' \in [Goroutine -> SUBSET Entry] /\ refused' \subseteq {"tmp", "zip"}
        /\ ovftool' \in {"none", "starting", "writing", "exit0", "failed", "dying", "dead"}
    BY DEF IInv, TypeOK
  <2>. QED
    BY <2>1, <2>2, <2>3, <2>4 DEF TypeOK
<1>2. DirectoryKnown' /\ OvftoolHasPhase'
  <2>1. ~dir' => files' = {}
    BY DEF IInv, TypeOK, DirectoryKnown
  <2>2. dir' => dir
    BY DEF IInv, TypeOK, DirectoryKnown
  <2>. QED
    BY <2>1, <2>2 DEF IInv, DirectoryKnown, OvftoolHasPhase
<1>3. IntactUntilStopped' /\ GoneOnlyWhenStopped'
  BY DEF IInv, TypeOK, IntactUntilStopped, GoneOnlyWhenStopped, OvftoolHasPhase
<1>4. RemovalCompletes'
  BY DEF IInv, TypeOK, RemovalCompletes, DirectoryKnown, OvftoolHasPhase
<1>5. Delivery'
  BY DEF IInv, TypeOK, Delivery
<1>. QED
  BY <1>1, <1>2, <1>3, <1>4, <1>5 DEF IInv

LEMMA TransferInv == IInv /\ Transfer => IInv'
<1> SUFFICES ASSUME IInv, Transfer PROVE IInv'
  OBVIOUS
<1> USE DEF Transfer, At, Discard, Proceed, Fail, tmp, result, os, handler, removal
<1>1. TypeOK'
  <2>1. /\ pc' \in Phase /\ cause' \in Cause /\ sig' \in Handler
        /\ exit' \in {"running", "success", "failure", "second", "default", "panic"}
    BY DEF IInv, TypeOK
  <2>2. files' \subseteq Entry /\ stemcell' \in Contents /\ out' \in Contents
    BY DEF IInv, TypeOK
  <2>3. /\ named' \in BOOLEAN /\ dir' \in BOOLEAN /\ sameDisk' \in BOOLEAN
        /\ zip' \in BOOLEAN /\ stop' \in BOOLEAN
    BY DEF IInv, TypeOK
  <2>4. /\ sent' \in 0 .. MaxSignals /\ pending' \in 0 .. sent'
        /\ listed' \in [Goroutine -> SUBSET Entry] /\ refused' \subseteq {"tmp", "zip"}
        /\ ovftool' \in {"none", "starting", "writing", "exit0", "failed", "dying", "dead"}
    BY DEF IInv, TypeOK
  <2>. QED
    BY <2>1, <2>2, <2>3, <2>4 DEF TypeOK
<1>2. DirectoryKnown' /\ OvftoolHasPhase'
  <2>1. ~dir' => files' = {}
    BY DEF IInv, TypeOK, DirectoryKnown
  <2>2. dir' => dir
    BY DEF IInv, TypeOK, DirectoryKnown
  <2>. QED
    BY <2>1, <2>2 DEF IInv, DirectoryKnown, OvftoolHasPhase
<1>3. IntactUntilStopped' /\ GoneOnlyWhenStopped'
  BY DEF IInv, TypeOK, IntactUntilStopped, GoneOnlyWhenStopped, OvftoolHasPhase
<1>4. RemovalCompletes'
  BY DEF IInv, TypeOK, RemovalCompletes, DirectoryKnown, OvftoolHasPhase
<1>5. Delivery'
  BY DEF IInv, TypeOK, Delivery
<1>. QED
  BY <1>1, <1>2, <1>3, <1>4, <1>5 DEF IInv

LEMMA CloseStemcellInv == IInv /\ CloseStemcell => IInv'
<1> SUFFICES ASSUME IInv, CloseStemcell PROVE IInv'
  OBVIOUS
<1> USE DEF CloseStemcell, Transfers, At, Discard, Proceed, Fail, tmp, result, os, handler, removal
<1>1. TypeOK'
  <2>1. /\ pc' \in Phase /\ cause' \in Cause /\ sig' \in Handler
        /\ exit' \in {"running", "success", "failure", "second", "default", "panic"}
    BY DEF IInv, TypeOK
  <2>2. files' \subseteq Entry /\ stemcell' \in Contents /\ out' \in Contents
    BY DEF IInv, TypeOK
  <2>3. /\ named' \in BOOLEAN /\ dir' \in BOOLEAN /\ sameDisk' \in BOOLEAN
        /\ zip' \in BOOLEAN /\ stop' \in BOOLEAN
    BY DEF IInv, TypeOK
  <2>4. /\ sent' \in 0 .. MaxSignals /\ pending' \in 0 .. sent'
        /\ listed' \in [Goroutine -> SUBSET Entry] /\ refused' \subseteq {"tmp", "zip"}
        /\ ovftool' \in {"none", "starting", "writing", "exit0", "failed", "dying", "dead"}
    BY DEF IInv, TypeOK
  <2>. QED
    BY <2>1, <2>2, <2>3, <2>4 DEF TypeOK
<1>2. DirectoryKnown' /\ OvftoolHasPhase'
  <2>1. ~dir' => files' = {}
    BY DEF IInv, TypeOK, DirectoryKnown
  <2>2. dir' => dir
    BY DEF IInv, TypeOK, DirectoryKnown
  <2>. QED
    BY <2>1, <2>2 DEF IInv, DirectoryKnown, OvftoolHasPhase
<1>3. IntactUntilStopped' /\ GoneOnlyWhenStopped'
  BY DEF IInv, TypeOK, IntactUntilStopped, GoneOnlyWhenStopped, OvftoolHasPhase
<1>4. RemovalCompletes'
  BY DEF IInv, TypeOK, RemovalCompletes, DirectoryKnown, OvftoolHasPhase
<1>5. Delivery'
  BY DEF IInv, TypeOK, Delivery
<1>. QED
  BY <1>1, <1>2, <1>3, <1>4, <1>5 DEF IInv

LEMMA WriteTrailerInv == IInv /\ WriteTrailer => IInv'
<1> SUFFICES ASSUME IInv, WriteTrailer PROVE IInv'
  OBVIOUS
<1> USE DEF WriteTrailer, At, Discard, Proceed, Fail, tmp, result, os, handler, removal
<1>1. TypeOK'
  <2>1. /\ pc' \in Phase /\ cause' \in Cause /\ sig' \in Handler
        /\ exit' \in {"running", "success", "failure", "second", "default", "panic"}
    BY DEF IInv, TypeOK
  <2>2. files' \subseteq Entry /\ stemcell' \in Contents /\ out' \in Contents
    BY DEF IInv, TypeOK
  <2>3. /\ named' \in BOOLEAN /\ dir' \in BOOLEAN /\ sameDisk' \in BOOLEAN
        /\ zip' \in BOOLEAN /\ stop' \in BOOLEAN
    BY DEF IInv, TypeOK
  <2>4. /\ sent' \in 0 .. MaxSignals /\ pending' \in 0 .. sent'
        /\ listed' \in [Goroutine -> SUBSET Entry] /\ refused' \subseteq {"tmp", "zip"}
        /\ ovftool' \in {"none", "starting", "writing", "exit0", "failed", "dying", "dead"}
    BY DEF IInv, TypeOK
  <2>. QED
    BY <2>1, <2>2, <2>3, <2>4 DEF TypeOK
<1>2. DirectoryKnown' /\ OvftoolHasPhase'
  <2>1. ~dir' => files' = {}
    BY DEF IInv, TypeOK, DirectoryKnown
  <2>2. dir' => dir
    BY DEF IInv, TypeOK, DirectoryKnown
  <2>. QED
    BY <2>1, <2>2 DEF IInv, DirectoryKnown, OvftoolHasPhase
<1>3. IntactUntilStopped' /\ GoneOnlyWhenStopped'
  BY DEF IInv, TypeOK, IntactUntilStopped, GoneOnlyWhenStopped, OvftoolHasPhase
<1>4. RemovalCompletes'
  BY DEF IInv, TypeOK, RemovalCompletes, DirectoryKnown, OvftoolHasPhase
<1>5. Delivery'
  BY DEF IInv, TypeOK, Delivery
<1>. QED
  BY <1>1, <1>2, <1>3, <1>4, <1>5 DEF IInv

LEMMA RenameInv == IInv /\ Rename => IInv'
<1> SUFFICES ASSUME IInv, Rename PROVE IInv'
  OBVIOUS
<1> USE DEF Rename, At, Proceed, Fail, tmp, result, os, handler, removal
<1>1. TypeOK'
  <2>1. /\ pc' \in Phase /\ cause' \in Cause /\ sig' \in Handler
        /\ exit' \in {"running", "success", "failure", "second", "default", "panic"}
    BY DEF IInv, TypeOK
  <2>2. files' \subseteq Entry /\ stemcell' \in Contents /\ out' \in Contents
    BY DEF IInv, TypeOK
  <2>3. /\ named' \in BOOLEAN /\ dir' \in BOOLEAN /\ sameDisk' \in BOOLEAN
        /\ zip' \in BOOLEAN /\ stop' \in BOOLEAN
    BY DEF IInv, TypeOK
  <2>4. /\ sent' \in 0 .. MaxSignals /\ pending' \in 0 .. sent'
        /\ listed' \in [Goroutine -> SUBSET Entry] /\ refused' \subseteq {"tmp", "zip"}
        /\ ovftool' \in {"none", "starting", "writing", "exit0", "failed", "dying", "dead"}
    BY DEF IInv, TypeOK
  <2>. QED
    BY <2>1, <2>2, <2>3, <2>4 DEF TypeOK
<1>2. DirectoryKnown' /\ OvftoolHasPhase'
  BY DEF IInv, TypeOK, DirectoryKnown, OvftoolHasPhase
<1>3. IntactUntilStopped' /\ GoneOnlyWhenStopped'
  BY DEF IInv, TypeOK, IntactUntilStopped, GoneOnlyWhenStopped, OvftoolHasPhase
<1>4. RemovalCompletes'
  BY DEF IInv, TypeOK, RemovalCompletes, DirectoryKnown, OvftoolHasPhase
<1>5. Delivery'
  BY DEF IInv, TypeOK, Delivery
<1>. QED
  BY <1>1, <1>2, <1>3, <1>4, <1>5 DEF IInv

LEMMA CleanupInv == IInv /\ Cleanup => IInv'
<1> SUFFICES ASSUME IInv, Cleanup PROVE IInv'
  OBVIOUS
<1> USE DEF Cleanup, At, Proceed, StartRemoval, Refuse, tmp, result, os, handler, removal
<1>1. TypeOK'
  <2>1. /\ pc' \in Phase /\ cause' \in Cause /\ sig' \in Handler
        /\ exit' \in {"running", "success", "failure", "second", "default", "panic"}
    BY DEF IInv, TypeOK
  <2>2. files' \subseteq Entry /\ stemcell' \in Contents /\ out' \in Contents
    BY DEF IInv, TypeOK
  <2>3. /\ named' \in BOOLEAN /\ dir' \in BOOLEAN /\ sameDisk' \in BOOLEAN
        /\ zip' \in BOOLEAN /\ stop' \in BOOLEAN
    BY DEF IInv, TypeOK
  <2>4. /\ sent' \in 0 .. MaxSignals /\ pending' \in 0 .. sent'
        /\ listed' \in [Goroutine -> SUBSET Entry] /\ refused' \subseteq {"tmp", "zip"}
        /\ ovftool' \in {"none", "starting", "writing", "exit0", "failed", "dying", "dead"}
    BY DEF IInv, TypeOK
  <2>. QED
    BY <2>1, <2>2, <2>3, <2>4 DEF TypeOK
<1>2. DirectoryKnown' /\ OvftoolHasPhase'
  BY DEF IInv, TypeOK, DirectoryKnown, OvftoolHasPhase
<1>3. IntactUntilStopped' /\ GoneOnlyWhenStopped'
  BY DEF IInv, TypeOK, IntactUntilStopped, GoneOnlyWhenStopped, OvftoolHasPhase
<1>4. RemovalCompletes'
  BY DEF IInv, TypeOK, RemovalCompletes, DirectoryKnown, OvftoolHasPhase
<1>5. Delivery'
  BY DEF IInv, TypeOK, Delivery
<1>. QED
  BY <1>1, <1>2, <1>3, <1>4, <1>5 DEF IInv

LEMMA RemoveInv == IInv /\ Remove => IInv'
<1> SUFFICES ASSUME IInv, Remove PROVE IInv'
  OBVIOUS
<1> USE DEF Remove, At, Unlink, RemoveDir, Refuse, tmp, result, os, handler, removal
<1>1. TypeOK'
  <2>1. /\ pc' \in Phase /\ cause' \in Cause /\ sig' \in Handler
        /\ exit' \in {"running", "success", "failure", "second", "default", "panic"}
    BY DEF IInv, TypeOK
  <2>2. files' \subseteq Entry /\ stemcell' \in Contents /\ out' \in Contents
    BY DEF IInv, TypeOK
  <2>3. /\ named' \in BOOLEAN /\ dir' \in BOOLEAN /\ sameDisk' \in BOOLEAN
        /\ zip' \in BOOLEAN /\ stop' \in BOOLEAN
    BY DEF IInv, TypeOK
  <2>4. /\ sent' \in 0 .. MaxSignals /\ pending' \in 0 .. sent'
        /\ listed' \in [Goroutine -> SUBSET Entry] /\ refused' \subseteq {"tmp", "zip"}
        /\ ovftool' \in {"none", "starting", "writing", "exit0", "failed", "dying", "dead"}
    BY DEF IInv, TypeOK
  <2>. QED
    BY <2>1, <2>2, <2>3, <2>4 DEF TypeOK
<1>2. DirectoryKnown' /\ OvftoolHasPhase'
  <2>1. ~dir' => files' = {}
    <3>1. CASE Unlink("main") \/ UNCHANGED tmp
      BY <3>1 DEF IInv, TypeOK, DirectoryKnown
    <3>2. CASE RemoveDir("main")
      <4>1. dir' = (files # {}) /\ files' = files
        BY <3>2 DEF RemoveDir
      <4>. QED
        BY <4>1, Zenon
    <3>. QED
      BY <3>1, <3>2
  <2>2. dir' => dir
    BY DEF IInv, TypeOK, DirectoryKnown
  <2>. QED
    BY <2>1, <2>2 DEF IInv, DirectoryKnown, OvftoolHasPhase
<1>3. IntactUntilStopped' /\ GoneOnlyWhenStopped'
  BY DEF IInv, TypeOK, IntactUntilStopped, GoneOnlyWhenStopped, OvftoolHasPhase
<1>4. RemovalCompletes'
  BY DEF IInv, TypeOK, RemovalCompletes, DirectoryKnown, OvftoolHasPhase
<1>5. Delivery'
  BY DEF IInv, TypeOK, Delivery
<1>. QED
  BY <1>1, <1>2, <1>3, <1>4, <1>5 DEF IInv

LEMMA RemoveZipInv == IInv /\ RemoveZip => IInv'
<1> SUFFICES ASSUME IInv, RemoveZip PROVE IInv'
  OBVIOUS
<1> USE DEF RemoveZip, At, Proceed, Refuse, tmp, result, os, handler, removal
<1>1. TypeOK'
  <2>1. /\ pc' \in Phase /\ cause' \in Cause /\ sig' \in Handler
        /\ exit' \in {"running", "success", "failure", "second", "default", "panic"}
    BY DEF IInv, TypeOK
  <2>2. files' \subseteq Entry /\ stemcell' \in Contents /\ out' \in Contents
    BY DEF IInv, TypeOK
  <2>3. /\ named' \in BOOLEAN /\ dir' \in BOOLEAN /\ sameDisk' \in BOOLEAN
        /\ zip' \in BOOLEAN /\ stop' \in BOOLEAN
    BY DEF IInv, TypeOK
  <2>4. /\ sent' \in 0 .. MaxSignals /\ pending' \in 0 .. sent'
        /\ listed' \in [Goroutine -> SUBSET Entry] /\ refused' \subseteq {"tmp", "zip"}
        /\ ovftool' \in {"none", "starting", "writing", "exit0", "failed", "dying", "dead"}
    BY DEF IInv, TypeOK
  <2>. QED
    BY <2>1, <2>2, <2>3, <2>4 DEF TypeOK
<1>2. DirectoryKnown' /\ OvftoolHasPhase'
  BY DEF IInv, TypeOK, DirectoryKnown, OvftoolHasPhase
<1>3. IntactUntilStopped' /\ GoneOnlyWhenStopped'
  BY DEF IInv, TypeOK, IntactUntilStopped, GoneOnlyWhenStopped, OvftoolHasPhase
<1>4. RemovalCompletes'
  BY DEF IInv, TypeOK, RemovalCompletes, DirectoryKnown, OvftoolHasPhase
<1>5. Delivery'
  BY DEF IInv, TypeOK, Delivery
<1>. QED
  BY <1>1, <1>2, <1>3, <1>4, <1>5 DEF IInv

LEMMA ExitInv == IInv /\ Exit => IInv'
<1> SUFFICES ASSUME IInv, Exit PROVE IInv'
  OBVIOUS
<1> USE DEF Exit, At, Proceed, Fail, tmp, result, os, handler, removal
<1>1. TypeOK'
  BY DEF IInv, TypeOK
<1>2. DirectoryKnown' /\ OvftoolHasPhase'
  BY DEF IInv, TypeOK, DirectoryKnown, OvftoolHasPhase
<1>3. IntactUntilStopped' /\ GoneOnlyWhenStopped'
  BY DEF IInv, TypeOK, IntactUntilStopped, GoneOnlyWhenStopped, OvftoolHasPhase
<1>4. RemovalCompletes'
  BY DEF IInv, TypeOK, RemovalCompletes, DirectoryKnown, OvftoolHasPhase
<1>5. Delivery'
  BY DEF IInv, TypeOK, Delivery
<1>. QED
  BY <1>1, <1>2, <1>3, <1>4, <1>5 DEF IInv

LEMMA NotifyInv == IInv /\ Notify => IInv'
<1> SUFFICES ASSUME IInv, Notify PROVE IInv'
  OBVIOUS
<1> USE DEF Notify, Sig, tmp, result, os, handler, removal
<1>1. TypeOK'
  BY DEF IInv, TypeOK
<1>2. DirectoryKnown' /\ OvftoolHasPhase'
  BY DEF IInv, TypeOK, DirectoryKnown, OvftoolHasPhase
<1>3. IntactUntilStopped' /\ GoneOnlyWhenStopped'
  BY DEF IInv, TypeOK, IntactUntilStopped, GoneOnlyWhenStopped, OvftoolHasPhase
<1>4. RemovalCompletes'
  BY DEF IInv, TypeOK, RemovalCompletes, DirectoryKnown, OvftoolHasPhase
<1>5. Delivery'
  BY DEF IInv, TypeOK, Delivery
<1>. QED
  BY <1>1, <1>2, <1>3, <1>4, <1>5 DEF IInv

LEMMA ReceiveInv == IInv /\ Receive => IInv'
<1> SUFFICES ASSUME IInv, Receive PROVE IInv'
  OBVIOUS
<1> USE DEF Receive, Sig, tmp, result, os, handler, removal
<1>1. TypeOK'
  BY DEF IInv, TypeOK
<1>2. DirectoryKnown' /\ OvftoolHasPhase'
  BY DEF IInv, TypeOK, DirectoryKnown, OvftoolHasPhase
<1>3. IntactUntilStopped' /\ GoneOnlyWhenStopped'
  BY DEF IInv, TypeOK, IntactUntilStopped, GoneOnlyWhenStopped, OvftoolHasPhase
<1>4. RemovalCompletes'
  BY DEF IInv, TypeOK, RemovalCompletes, DirectoryKnown, OvftoolHasPhase
<1>5. Delivery'
  BY DEF IInv, TypeOK, Delivery
<1>. QED
  BY <1>1, <1>2, <1>3, <1>4, <1>5 DEF IInv

LEMMA CloseStopInv == IInv /\ CloseStop => IInv'
<1> SUFFICES ASSUME IInv, CloseStop PROVE IInv'
  OBVIOUS
<1> USE DEF CloseStop, Sig, tmp, result, os, handler, removal
<1>1. TypeOK'
  BY DEF IInv, TypeOK
<1>2. DirectoryKnown' /\ OvftoolHasPhase'
  BY DEF IInv, TypeOK, DirectoryKnown, OvftoolHasPhase
<1>3. IntactUntilStopped' /\ GoneOnlyWhenStopped'
  BY DEF IInv, TypeOK, IntactUntilStopped, GoneOnlyWhenStopped, OvftoolHasPhase
<1>4. RemovalCompletes'
  BY DEF IInv, TypeOK, RemovalCompletes, DirectoryKnown, OvftoolHasPhase
<1>5. Delivery'
  BY DEF IInv, TypeOK, Delivery
<1>. QED
  BY <1>1, <1>2, <1>3, <1>4, <1>5 DEF IInv

LEMMA StopCleanupInv == IInv /\ StopCleanup => IInv'
<1> SUFFICES ASSUME IInv, StopCleanup PROVE IInv'
  OBVIOUS
<1> USE DEF StopCleanup, Sig, StartRemoval, Cleaned, tmp, result, os, handler, removal
<1>1. TypeOK'
  <2>1. /\ pc' \in Phase /\ cause' \in Cause /\ sig' \in Handler
        /\ exit' \in {"running", "success", "failure", "second", "default", "panic"}
    BY DEF IInv, TypeOK
  <2>2. files' \subseteq Entry /\ stemcell' \in Contents /\ out' \in Contents
    BY DEF IInv, TypeOK
  <2>3. /\ named' \in BOOLEAN /\ dir' \in BOOLEAN /\ sameDisk' \in BOOLEAN
        /\ zip' \in BOOLEAN /\ stop' \in BOOLEAN
    BY DEF IInv, TypeOK
  <2>4. /\ sent' \in 0 .. MaxSignals /\ pending' \in 0 .. sent'
        /\ listed' \in [Goroutine -> SUBSET Entry] /\ refused' \subseteq {"tmp", "zip"}
        /\ ovftool' \in {"none", "starting", "writing", "exit0", "failed", "dying", "dead"}
    BY DEF IInv, TypeOK
  <2>. QED
    BY <2>1, <2>2, <2>3, <2>4 DEF TypeOK
<1>2. DirectoryKnown' /\ OvftoolHasPhase'
  BY DEF IInv, TypeOK, DirectoryKnown, OvftoolHasPhase
<1>3. IntactUntilStopped' /\ GoneOnlyWhenStopped'
  BY DEF IInv, TypeOK, IntactUntilStopped, GoneOnlyWhenStopped, OvftoolHasPhase
<1>4. RemovalCompletes'
  BY DEF IInv, TypeOK, RemovalCompletes, DirectoryKnown, OvftoolHasPhase
<1>5. Delivery'
  BY DEF IInv, TypeOK, Delivery
<1>. QED
  BY <1>1, <1>2, <1>3, <1>4, <1>5 DEF IInv

LEMMA StopRemoveInv == IInv /\ StopRemove => IInv'
<1> SUFFICES ASSUME IInv, StopRemove PROVE IInv'
  OBVIOUS
<1> USE DEF StopRemove, Sig, Unlink, RemoveDir, Cleaned, tmp, result, os, handler, removal
<1>1. TypeOK'
  <2>1. /\ pc' \in Phase /\ cause' \in Cause /\ sig' \in Handler
        /\ exit' \in {"running", "success", "failure", "second", "default", "panic"}
    BY DEF IInv, TypeOK
  <2>2. files' \subseteq Entry /\ stemcell' \in Contents /\ out' \in Contents
    BY DEF IInv, TypeOK
  <2>3. /\ named' \in BOOLEAN /\ dir' \in BOOLEAN /\ sameDisk' \in BOOLEAN
        /\ zip' \in BOOLEAN /\ stop' \in BOOLEAN
    BY DEF IInv, TypeOK
  <2>4. /\ sent' \in 0 .. MaxSignals /\ pending' \in 0 .. sent'
        /\ listed' \in [Goroutine -> SUBSET Entry] /\ refused' \subseteq {"tmp", "zip"}
        /\ ovftool' \in {"none", "starting", "writing", "exit0", "failed", "dying", "dead"}
    BY DEF IInv, TypeOK
  <2>. QED
    BY <2>1, <2>2, <2>3, <2>4 DEF TypeOK
<1>2. DirectoryKnown' /\ OvftoolHasPhase'
  <2>1. ~dir' => files' = {}
    <3>1. CASE Unlink("signal")
      BY <3>1 DEF IInv, TypeOK, DirectoryKnown
    <3>0. CASE UNCHANGED tmp
      <4>1. dir' = dir /\ files' = files
        BY <3>0
      <4>. QED
        BY <4>1, Zenon DEF IInv, DirectoryKnown
    <3>2. CASE RemoveDir("signal")
      <4>1. dir' = (files # {}) /\ files' = files
        BY <3>2 DEF RemoveDir
      <4>. QED
        BY <4>1, Zenon
    <3>. QED
      BY <3>0, <3>1, <3>2
  <2>2. dir' => dir
    BY DEF IInv, TypeOK, DirectoryKnown
  <2>. QED
    BY <2>1, <2>2 DEF IInv, DirectoryKnown, OvftoolHasPhase
<1>3. IntactUntilStopped' /\ GoneOnlyWhenStopped'
  BY DEF IInv, TypeOK, IntactUntilStopped, GoneOnlyWhenStopped, OvftoolHasPhase
<1>4. RemovalCompletes'
  BY DEF IInv, TypeOK, RemovalCompletes, DirectoryKnown, OvftoolHasPhase
<1>5. Delivery'
  BY DEF IInv, TypeOK, Delivery
<1>. QED
  BY <1>1, <1>2, <1>3, <1>4, <1>5 DEF IInv

LEMMA InterruptInv == IInv /\ Interrupt => IInv'
<1> SUFFICES ASSUME IInv, Interrupt PROVE IInv'
  OBVIOUS
<1> USE DEF Interrupt, Proceed, Fail, tmp, result, os, handler, removal
<1>1. TypeOK'
  <2>1. /\ pc' \in Phase /\ cause' \in Cause /\ sig' \in Handler
        /\ exit' \in {"running", "success", "failure", "second", "default", "panic"}
    BY DEF IInv, TypeOK
  <2>2. files' \subseteq Entry /\ stemcell' \in Contents /\ out' \in Contents
    BY DEF IInv, TypeOK
  <2>3. /\ named' \in BOOLEAN /\ dir' \in BOOLEAN /\ sameDisk' \in BOOLEAN
        /\ zip' \in BOOLEAN /\ stop' \in BOOLEAN
    BY DEF IInv, TypeOK
  <2>4. /\ sent' \in 0 .. MaxSignals /\ pending' \in 0 .. sent'
        /\ listed' \in [Goroutine -> SUBSET Entry] /\ refused' \subseteq {"tmp", "zip"}
        /\ ovftool' \in {"none", "starting", "writing", "exit0", "failed", "dying", "dead"}
    BY DEF IInv, TypeOK
  <2>. QED
    BY <2>1, <2>2, <2>3, <2>4 DEF TypeOK
<1>2. DirectoryKnown' /\ OvftoolHasPhase'
  BY DEF IInv, TypeOK, DirectoryKnown, OvftoolHasPhase
<1>3. IntactUntilStopped' /\ GoneOnlyWhenStopped'
  BY DEF IInv, TypeOK, IntactUntilStopped, GoneOnlyWhenStopped, OvftoolHasPhase
<1>4. RemovalCompletes'
  BY DEF IInv, TypeOK, RemovalCompletes, DirectoryKnown, OvftoolHasPhase
<1>5. Delivery'
  BY DEF IInv, TypeOK, Delivery
<1>. QED
  BY <1>1, <1>2, <1>3, <1>4, <1>5 DEF IInv

LEMMA OvftoolCreatesInv == IInv /\ OvftoolCreates => IInv'
<1> SUFFICES ASSUME IInv, OvftoolCreates PROVE IInv'
  OBVIOUS
<1> USE DEF OvftoolCreates, tmp, result, os, handler, removal
<1>1. TypeOK'
  BY DEF IInv, TypeOK
<1>2. DirectoryKnown' /\ OvftoolHasPhase'
  BY DEF IInv, TypeOK, DirectoryKnown, OvftoolHasPhase
<1>3. IntactUntilStopped' /\ GoneOnlyWhenStopped'
  BY DEF IInv, TypeOK, IntactUntilStopped, GoneOnlyWhenStopped, OvftoolHasPhase
<1>4. RemovalCompletes'
  BY DEF IInv, TypeOK, RemovalCompletes, DirectoryKnown, OvftoolHasPhase
<1>5. Delivery'
  BY DEF IInv, TypeOK, Delivery
<1>. QED
  BY <1>1, <1>2, <1>3, <1>4, <1>5 DEF IInv

LEMMA OvftoolEndsInv == IInv /\ OvftoolEnds => IInv'
<1> SUFFICES ASSUME IInv, OvftoolEnds PROVE IInv'
  OBVIOUS
<1> USE DEF OvftoolEnds, tmp, result, os, handler, removal
<1>1. TypeOK'
  BY DEF IInv, TypeOK
<1>2. DirectoryKnown' /\ OvftoolHasPhase'
  BY DEF IInv, TypeOK, DirectoryKnown, OvftoolHasPhase
<1>3. IntactUntilStopped' /\ GoneOnlyWhenStopped'
  BY DEF IInv, TypeOK, IntactUntilStopped, GoneOnlyWhenStopped, OvftoolHasPhase
<1>4. RemovalCompletes'
  BY DEF IInv, TypeOK, RemovalCompletes, DirectoryKnown, OvftoolHasPhase
<1>5. Delivery'
  BY DEF IInv, TypeOK, Delivery
<1>. QED
  BY <1>1, <1>2, <1>3, <1>4, <1>5 DEF IInv

LEMMA StutterInv == IInv /\ UNCHANGED vars => IInv'
<1> SUFFICES ASSUME IInv, UNCHANGED vars PROVE IInv'
  OBVIOUS
<1>1. TypeOK'
  BY DEF vars, IInv, TypeOK
<1>2. DirectoryKnown' /\ OvftoolHasPhase' /\ IntactUntilStopped'
  BY DEF vars, IInv, DirectoryKnown, OvftoolHasPhase, IntactUntilStopped
<1>3. RemovalCompletes' /\ Delivery' /\ GoneOnlyWhenStopped'
  BY DEF vars, IInv, RemovalCompletes, Delivery, GoneOnlyWhenStopped
<1>. QED
  BY <1>1, <1>2, <1>3 DEF IInv

LEMMA NextInv == IInv /\ [Next]_vars => IInv'
<1> SUFFICES ASSUME IInv, [Next]_vars PROVE IInv'
  OBVIOUS
<1>1. CASE Main
  BY <1>1, MkTempInv, NameTmpInv, WriteVMXInv, StartOvftoolInv, WaitOvftoolInv,
     CreateImageInv, CopyImageInv, WriteManifestInv, OpenStemcellInv, AddImageInv,
     AddManifestInv, TransferInv, CloseStemcellInv, WriteTrailerInv, RenameInv, CleanupInv, RemoveInv,
     RemoveZipInv, ExitInv DEF Main
<1>2. CASE CatchInterruptSignal
  BY <1>2, NotifyInv, ReceiveInv, CloseStopInv, StopCleanupInv, StopRemoveInv
     DEF CatchInterruptSignal
<1>3. CASE Interrupt \/ OvftoolCreates \/ OvftoolEnds
  BY <1>3, InterruptInv, OvftoolCreatesInv, OvftoolEndsInv
<1>4. CASE UNCHANGED vars
  BY <1>4, StutterInv
<1>. QED
  BY <1>1, <1>2, <1>3, <1>4 DEF Next

(* The inductive invariant of the conversion, for any number of interrupts. *)
THEOREM Invariance == Spec => []IInv
<1>. QED
  BY InitInv, NextInv, PTL DEF Spec

(* No interleaving of conversion, interrupt and removal leaves a truncated  *)
(* file at the output path.                                                 *)
THEOREM WholeOutput == Spec => []OutputIsWhole
<1>1. IInv => OutputIsWhole
  BY DEF IInv, Delivery, OutputIsWhole
<1>. QED
  BY <1>1, Invariance, PTL

(* The exit status of a command that returned tells whether a stemcell was  *)
(* written.                                                                 *)
THEOREM StatusIsTrue == Spec => []StatusTellsOutput
<1>1. IInv => StatusTellsOutput
  BY DEF IInv, Delivery, StatusTellsOutput
<1>. QED
  BY <1>1, Invariance, PTL

(* A command that returned has removed what it created, unless it had to    *)
(* kill ovftool, although two goroutines may have removed the directory at  *)
(* once.                                                                    *)
THEOREM CleanReturn == Spec => []ReturnCleansUp
<1>1. IInv => ReturnCleansUp
  BY DEF IInv, Delivery, RemovalCompletes, OvftoolHasPhase, ReturnCleansUp
<1>. QED
  BY <1>1, Invariance, PTL

(* Files vanish under the conversion only after Stop has been closed.       *)
THEOREM GoneMeansStopped == Spec => []GoneOnlyWhenStopped
<1>1. IInv => GoneOnlyWhenStopped
  BY DEF IInv
<1>. QED
  BY <1>1, Invariance, PTL

(* After Stop is closed no transfer begins, and no unfinished stemcell is    *)
(* finished or delivered except by a last Write that had begun.             *)
THEOREM InterruptFinal == Spec => InterruptIsFinal
<1> DEFINE Begins == pc' \in Transferring /\ pc' # pc
           Final == stop => /\ pc' \in Transferring => pc' = pc
                            /\ stemcell # "complete" /\ pc # "writeTrailer"
                                 => stemcell' # "complete" /\ out' = out
<1>1. IInv /\ [Next]_vars => [Final]_vars
  <2> SUFFICES ASSUME IInv, [Next]_vars, stop
               PROVE  /\ ~Begins
                      /\ stemcell # "complete" /\ pc # "writeTrailer"
                           => stemcell' # "complete" /\ out' = out
    OBVIOUS
  <2> USE DEF result, tmp, At, Proceed, Fail
  <2>1. CASE OpenStemcell \/ AddImage \/ AddManifest
    BY <2>1 DEF OpenStemcell, AddImage, AddManifest, Create, AddTarFile, Transfers, Discard
  <2>2. CASE Transfer \/ CloseStemcell
    BY <2>2 DEF Transfer, CloseStemcell, Transfers, Discard
  <2>3. CASE WriteTrailer \/ Rename
    BY <2>3 DEF WriteTrailer, Rename, Discard, IInv, Delivery
  <2>4. CASE \/ MkTemp \/ NameTmp \/ WriteVMX \/ StartOvftool \/ WaitOvftool
             \/ CreateImage \/ CopyImage \/ WriteManifest
    BY <2>4 DEF MkTemp, NameTmp, WriteVMX, WriteVMXTemplate, CreateAndWrite, Create,
       StartOvftool, WaitOvftool, CreateImage, CopyImage, WriteManifest
  <2>5. CASE Cleanup \/ Remove \/ RemoveZip \/ Exit
    BY <2>5 DEF Cleanup, Remove, RemoveZip, Exit
  <2>6. CASE CatchInterruptSignal \/ Interrupt \/ OvftoolCreates \/ OvftoolEnds
    BY <2>6 DEF CatchInterruptSignal, Notify, Receive, CloseStop, StopCleanup,
                StopRemove, Interrupt, OvftoolCreates, OvftoolEnds
  <2>7. CASE UNCHANGED vars
    BY <2>7 DEF vars
  <2>. QED
    BY <2>1, <2>2, <2>3, <2>4, <2>5, <2>6, <2>7 DEF Next, Main
<1>. QED
  BY <1>1, Invariance, PTL DEF Spec, InterruptIsFinal

-----------------------------------------------------------------------------
(* The refinement of PackageAbs.                                            *)

(* Everything before the process ends keeps the verdict, everything but the *)
(* rename keeps the output.                                                 *)
LEMMA QuietSteps ==
  ASSUME Next, ~Rename, ~Exit, ~StopCleanup, ~StopRemove, ~Interrupt
  PROVE  UNCHANGED <<out, exit>>
  <1> USE DEF result
  <1>1. CASE MkTemp \/ NameTmp \/ WriteVMX \/ StartOvftool \/ WaitOvftool \/ CreateImage
    BY <1>1 DEF MkTemp, NameTmp, WriteVMX, StartOvftool, WaitOvftool, CreateImage
  <1>2. CASE CopyImage \/ WriteManifest \/ OpenStemcell \/ AddImage \/ AddManifest
    BY <1>2 DEF CopyImage, WriteManifest, OpenStemcell, AddImage, AddManifest
  <1>3. CASE \/ Transfer \/ CloseStemcell \/ WriteTrailer
             \/ Cleanup \/ Remove \/ RemoveZip
    BY <1>3 DEF Transfer, CloseStemcell, WriteTrailer, Cleanup, Remove, RemoveZip
  <1>4. CASE Notify \/ Receive \/ CloseStop \/ OvftoolCreates \/ OvftoolEnds
    BY <1>4 DEF Notify, Receive, CloseStop, OvftoolCreates, OvftoolEnds
  <1> QED BY <1>1, <1>2, <1>3, <1>4 DEF Next, Main, CatchInterruptSignal

(* Every step of the two goroutines is one of the abstract command or none. *)
LEMMA AbsStep == IInv /\ [Next]_vars => [Abs!Next]_(Abs!vars)
  <1> SUFFICES ASSUME IInv, [Next]_vars PROVE [Abs!Next]_(Abs!vars)
    OBVIOUS
  <1>1. ASSUME UNCHANGED <<out, exit>> PROVE UNCHANGED Abs!vars
    BY <1>1 DEF Abs!vars, Verdict
  <1>2. CASE Rename
    \* What is renamed is the stemcell that has been closed.
    <2>1. exit = "running" /\ UNCHANGED exit
      BY <1>2 DEF Rename, At
    <2>2. stemcell = "complete" /\ out = "none"
      BY <1>2 DEF Rename, At, IInv, Delivery, Building
    <2>3. out' \in {"none", "complete"}
      BY <1>2, <2>2 DEF Rename
    <2>4. Verdict = "running" /\ Verdict' = Verdict
      BY <2>1 DEF Verdict
    <2> QED BY <2>3, <2>4 DEF Abs!Next, Abs!Write, Abs!Output
  <1>3. CASE Exit
    <2>1. /\ exit = "running" /\ UNCHANGED out
          /\ out = IF cause = "none" THEN "complete" ELSE "none"
          /\ exit' = IF cause = "none" THEN "success" ELSE "failure"
      BY <1>3 DEF Exit, At, IInv, Delivery, Building, result
    <2>2. Verdict = "running"
      BY <2>1 DEF Verdict
    <2>3. CASE cause = "none"
      <3>1. exit' = "success"
        BY <2>1, <2>3
      <3>2. Verdict' = "succeeded"
        BY <3>1 DEF Verdict
      <3> QED BY <2>1, <2>2, <2>3, <3>2 DEF Abs!Next, Abs!Succeed
    <2>4. CASE cause # "none"
      <3>1. exit' = "failure"
        BY <2>1, <2>4
      <3>2. Verdict' = "failed"
        BY <3>1 DEF Verdict
      <3> QED BY <2>1, <2>2, <2>4, <3>2 DEF Abs!Next, Abs!Fail
    <2> QED BY <2>3, <2>4
  <1>4. CASE StopCleanup \/ StopRemove \/ Interrupt
    <2>1. /\ exit = "running" /\ UNCHANGED out
          /\ exit' \in {"running", "second", "default", "panic"}
      BY <1>4 DEF StopCleanup, StopRemove, Interrupt, Cleaned, Sig, result
    <2>2. Verdict = "running" /\ Verdict' \in {"running", "cutOff"}
      BY <2>1 DEF Verdict
    <2> QED BY <2>1, <2>2 DEF Abs!Next, Abs!CutOff, Abs!vars
  <1>5. CASE UNCHANGED vars
    BY <1>1, <1>5 DEF vars
  <1> QED BY <1>1, <1>2, <1>3, <1>4, <1>5, QuietSteps

(* Package with its interrupt handler implements the abstract command, with  *)
(* no unfinished output and with a whole stemcell as the only delivery.     *)
THEOREM Refinement == Spec => DeliversOrLeaves
  <1>1. Init => Abs!Init
    BY DEF Init, Abs!Init, Abs!Output, Verdict
  <1> QED BY <1>1, AbsStep, Invariance, PTL DEF Spec, Abs!Spec, DeliversOrLeaves

-----------------------------------------------------------------------------
(* The end of the command.  Every step of the main goroutine lowers Rank,   *)
(* and no step of anybody else raises it, however the handler and ovftool   *)
(* work on the directory main is removing.                                  *)

(* ovftool creates its output once, and not before it is started.           *)
OvftoolOnce ==
  /\ pc \in {"mkTemp", "nameTmp", "writeVMX", "startOvftool"} => ovftool = "none"
  /\ ovftool \in {"none", "starting", "dying"}
       => "ova" \notin files /\ "ova" \notin listed["main"]

Position == [mkTemp |-> 24, nameTmp |-> 23, writeVMX |-> 22, startOvftool |-> 21,
             waitOvftool |-> 20, createImage |-> 19, copyImage |-> 18,
             writeManifest |-> 17, openStemcell |-> 16, addImage |-> 15,
             writeImage |-> 14, addManifest |-> 13, writeMF |-> 12,
             closeStemcell |-> 11, writeTrailer |-> 10, rename |-> 9, cleanup |-> 8,
             removing |-> 2, removeZip |-> 1, exit |-> 0]

(* What main's removal still has to unlink.                                 *)
Unlinks(f) ==
  IF pc = "removing" /\ f \in listed["main"] /\ f \in files THEN 1 ELSE 0

Unlinking == Unlinks("vmx") + Unlinks("ova") + Unlinks("image")
               + Unlinks("manifest") + Unlinks("stemcell")

Rank == Position[pc] + Unlinking

LEMMA OnceInv == IInv /\ OvftoolOnce /\ [Next]_vars => OvftoolOnce'
  <1> SUFFICES ASSUME IInv, OvftoolOnce, [Next]_vars PROVE OvftoolOnce'
    OBVIOUS
  <1> USE DEF OvftoolOnce, At, Proceed, Fail, tmp, result, os, handler, removal
  <1>0. listed \in [Goroutine -> SUBSET Entry] /\ "main" \in Goroutine
    BY DEF IInv, TypeOK, Goroutine
  <1>1. CASE MkTemp \/ NameTmp \/ WriteVMX
    BY <1>1 DEF MkTemp, NameTmp, WriteVMX, WriteVMXTemplate, CreateAndWrite, Create
  <1>2. CASE StartOvftool \/ WaitOvftool
    BY <1>2 DEF StartOvftool, WaitOvftool
  <1>3. CASE CreateImage \/ CopyImage \/ WriteManifest \/ OpenStemcell
    BY <1>3 DEF CreateImage, CopyImage, WriteManifest, OpenStemcell, Create, CreateAndWrite
  <1>4. CASE \/ AddImage \/ AddManifest \/ Transfer
             \/ CloseStemcell \/ WriteTrailer \/ Rename
    BY <1>4 DEF AddImage, AddManifest, Transfer, CloseStemcell, WriteTrailer, Rename,
                AddTarFile, Discard
  <1>5. CASE Cleanup
    <2>1. listed' = listed \/ listed'["main"] = files
      BY <1>0, <1>5 DEF Cleanup, StartRemoval
    <2> QED BY <1>5, <2>1 DEF Cleanup
  <1>6. CASE Remove \/ RemoveZip \/ Exit
    BY <1>6 DEF Remove, RemoveZip, Exit, Unlink, RemoveDir
  <1>7. CASE Notify \/ Receive \/ CloseStop \/ Interrupt
    BY <1>7 DEF Notify, Receive, CloseStop, Interrupt
  <1>8. CASE StopCleanup
    <2>1. listed'["main"] = listed["main"]
      BY <1>0, <1>8 DEF StopCleanup, StartRemoval
    <2> QED BY <1>8, <2>1 DEF StopCleanup
  <1>9. CASE StopRemove
    BY <1>9 DEF StopRemove, Unlink, RemoveDir
  <1>10. CASE OvftoolCreates \/ OvftoolEnds
    BY <1>10 DEF OvftoolCreates, OvftoolEnds
  <1>11. CASE UNCHANGED vars
    BY <1>11 DEF vars
  <1> QED BY <1>1, <1>2, <1>3, <1>4, <1>5, <1>6, <1>7, <1>8, <1>9, <1>10, <1>11
             DEF Next, Main, CatchInterruptSignal

LEMMA Once == Spec => []OvftoolOnce
  <1>1. Init => OvftoolOnce
    BY DEF Init, OvftoolOnce, Goroutine
  <1> QED BY <1>1, OnceInv, Invariance, PTL DEF Spec

LEMMA UnlinksType ==
  ASSUME NEW f PROVE Unlinks(f) \in 0 .. 1 /\ Unlinks(f)' \in 0 .. 1
  BY DEF Unlinks

LEMMA UnlinkingType ==
  /\ Unlinking \in 0 .. 5 /\ Unlinking' \in 0 .. 5
  /\ pc # "removing" => Unlinking = 0
  /\ pc' # "removing" => Unlinking' = 0
  <1>1. Unlinking \in 0 .. 5 /\ Unlinking' \in 0 .. 5
    BY UnlinksType DEF Unlinking
  <1>2. pc # "removing" => Unlinking = 0
    BY DEF Unlinking, Unlinks
  <1>3. pc' # "removing" => Unlinking' = 0
    BY DEF Unlinking, Unlinks
  <1> QED BY <1>1, <1>2, <1>3

LEMMA PositionType ==
  ASSUME NEW phase \in Phase
  PROVE  /\ Position[phase] \in 0 .. 24
         /\ phase \notin {"removing", "removeZip", "exit"} => Position[phase] >= 8
  BY DEF Position, Phase, Building

LEMMA RankType == IInv => Rank \in 0 .. 24
  <1> SUFFICES ASSUME IInv PROVE Rank \in 0 .. 24
    OBVIOUS
  <1>1. pc \in Phase
    BY DEF IInv, TypeOK
  <1>2. pc = "removing" => Position[pc] = 2
    BY DEF Position
  <1> QED BY <1>1, <1>2, UnlinkingType, PositionType DEF Rank

(* The phase that follows where no error is met.                            *)
After == [mkTemp |-> "nameTmp", nameTmp |-> "writeVMX", writeVMX |-> "startOvftool",
          startOvftool |-> "waitOvftool", waitOvftool |-> "createImage",
          createImage |-> "copyImage", copyImage |-> "writeManifest",
          writeManifest |-> "openStemcell", openStemcell |-> "addImage",
          addImage |-> "writeImage", writeImage |-> "addManifest",
          addManifest |-> "writeMF", writeMF |-> "closeStemcell",
          closeStemcell |-> "writeTrailer", writeTrailer |-> "rename",
          rename |-> "cleanup"]

LEMMA LaterPhase ==
  ASSUME NEW phase \in Building, NEW next \in {After[phase], "cleanup"}
  PROVE  /\ next \in Phase \ {"removing"}
         /\ Position[next] < Position[phase]
  <1>1. After[phase] \in Phase \ {"removing"}
    BY DEF After, Building, Phase
  <1>2. Position[After[phase]] < Position[phase]
    BY DEF After, Position, Building
  <1>3. Position["cleanup"] < Position[phase]
    BY DEF Position, Building
  <1> QED BY <1>1, <1>2, <1>3 DEF Phase

(* The conversion never goes back to an earlier phase.                      *)
LEMMA BuildingDescends ==
  ASSUME pc \in Building, pc' \in {After[pc], "cleanup"}
  PROVE  Rank' < Rank
  <1>1. pc \in Phase /\ pc # "removing" /\ pc' # "removing" /\ pc' \in Phase
    BY LaterPhase DEF Building, Phase
  <1>2. Unlinking = 0 /\ Unlinking' = 0
    BY <1>1, UnlinkingType
  <1>3. Position[pc'] < Position[pc]
    BY LaterPhase
  <1>4. Position[pc'] \in 0 .. 24 /\ Position[pc] \in 0 .. 24
    BY <1>1, PositionType
  <1>5. Rank = Position[pc] /\ Rank' = Position[pc']
    BY <1>2, <1>4 DEF Rank, Position
  <1> QED BY <1>3, <1>5

LEMMA ConversionPhases ==
  ASSUME Main, pc \in Building
  PROVE  pc' \in {After[pc], "cleanup"}
  <1> USE DEF At, Proceed, Fail, After
  <1>1. CASE MkTemp \/ NameTmp \/ WriteVMX \/ StartOvftool
    BY <1>1 DEF MkTemp, NameTmp, WriteVMX, WriteVMXTemplate, CreateAndWrite, Create, StartOvftool
  <1>2. CASE WaitOvftool
    BY <1>2 DEF WaitOvftool
  <1>3. CASE CreateImage \/ CopyImage \/ WriteManifest \/ OpenStemcell
    BY <1>3 DEF CreateImage, CopyImage, WriteManifest, OpenStemcell, Create, CreateAndWrite
  <1>4. CASE AddImage \/ AddManifest \/ Transfer
    BY <1>4 DEF AddImage, AddManifest, Transfer, AddTarFile, Discard
  <1>5. CASE CloseStemcell \/ WriteTrailer \/ Rename
    BY <1>5 DEF CloseStemcell, WriteTrailer, Rename, Discard
  <1>6. CASE Cleanup \/ Remove \/ RemoveZip \/ Exit
    BY <1>6 DEF Cleanup, Remove, RemoveZip, Exit, Building
  <1> QED BY <1>1, <1>2, <1>3, <1>4, <1>5, <1>6 DEF Main

(* An entry that is unlinked is not listed and present any more.            *)
LEMMA RemoveDescends == IInv /\ Remove => Rank' < Rank
  <1> SUFFICES ASSUME IInv, Remove PROVE Rank' < Rank
    OBVIOUS
  <1>1. pc = "removing" /\ Position[pc] = 2 /\ UNCHANGED listed
    BY DEF Remove, At, Position
  <1>2. CASE Unlink("main") /\ UNCHANGED pc
    <2>1. PICK f \in listed["main"] \intersect files : files' = files \ {f}
      BY <1>2 DEF Unlink
    <2>2. f \in Entry
      BY <2>1 DEF IInv, TypeOK
    <2>3. Unlinks(f) = 1 /\ Unlinks(f)' = 0
      BY <1>1, <1>2, <2>1 DEF Unlinks
    <2>4. \A e \in Entry : Unlinks(e)' <= Unlinks(e)
      BY <1>1, <1>2, <2>1 DEF Unlinks
    <2>5. Unlinking' < Unlinking
      <3> DEFINE Sum == Unlinking
      <3>1. \A e \in Entry : Unlinks(e) \in 0 .. 1 /\ Unlinks(e)' \in 0 .. 1
        BY UnlinksType
      <3> HIDE DEF Sum
      <3> QED BY <2>2, <2>3, <2>4, <3>1 DEF Unlinking, Entry
    <2> QED BY <1>1, <1>2, <2>5, UnlinkingType DEF Rank
  <1>3. CASE RemoveDir("main") /\ pc' = "removeZip"
    <2>1. Unlinking' = 0 /\ Position[pc'] = 1
      BY <1>3, UnlinkingType DEF Position
    <2> QED BY <1>1, <2>1, UnlinkingType DEF Rank
  <1>4. CASE UNCHANGED tmp /\ pc' = "removeZip"
    <2>1. Unlinking' = 0 /\ Position[pc'] = 1
      BY <1>4, UnlinkingType DEF Position
    <2> QED BY <1>1, <2>1, UnlinkingType DEF Rank
  <1> QED BY <1>2, <1>3, <1>4 DEF Remove

LEMMA EndDescends ==
  IInv /\ (Cleanup \/ RemoveZip \/ Exit) => Rank' < Rank \/ exit' # "running"
  <1> SUFFICES ASSUME IInv, Cleanup \/ RemoveZip \/ Exit
               PROVE  Rank' < Rank \/ exit' # "running"
    OBVIOUS
  <1>1. CASE Cleanup
    <2>1. pc = "cleanup" /\ pc' \in {"removing", "removeZip"}
      BY <1>1 DEF Cleanup, At, Proceed
    <2>2. Rank = 8 /\ Position[pc'] \in 1 .. 2
      BY <2>1, UnlinkingType DEF Rank, Position
    <2> QED BY <2>2, UnlinkingType DEF Rank
  <1>2. CASE RemoveZip
    <2>1. pc = "removeZip" /\ pc' = "exit"
      BY <1>2 DEF RemoveZip, At, Proceed
    <2>2. Rank = 1 /\ Rank' = 0
      BY <2>1, UnlinkingType DEF Rank, Position
    <2> QED BY <2>2
  <1>3. CASE Exit
    BY <1>3 DEF Exit
  <1> QED BY <1>1, <1>2, <1>3

LEMMA MainDescends == IInv /\ Main => Rank' < Rank \/ exit' # "running"
  <1> SUFFICES ASSUME IInv, Main PROVE Rank' < Rank \/ exit' # "running"
    OBVIOUS
  <1>1. CASE pc \in Building
    BY <1>1, ConversionPhases, BuildingDescends
  <1>2. CASE pc \notin Building
    <2>1. Cleanup \/ Remove \/ RemoveZip \/ Exit
      BY <1>2 DEF Main, At, Building, MkTemp, NameTmp, WriteVMX, StartOvftool,
         WaitOvftool, CreateImage, CopyImage, WriteManifest, OpenStemcell, AddImage,
         AddManifest, Transfer, CloseStemcell, WriteTrailer, Rename
    <2> QED BY <2>1, RemoveDescends, EndDescends
  <1> QED BY <1>1, <1>2

(* Neither the handler's removal nor a late create of ovftool's adds to what *)
(* main has left to do.                                                     *)
LEMMA OthersKeepRank ==
  IInv /\ OvftoolOnce
    /\ (CatchInterruptSignal \/ Interrupt \/ OvftoolCreates \/ OvftoolEnds \/ UNCHANGED vars)
      => UNCHANGED pc /\ Rank' <= Rank
  <1> SUFFICES ASSUME IInv, OvftoolOnce,
                      CatchInterruptSignal \/ Interrupt \/ OvftoolCreates \/ OvftoolEnds
                        \/ UNCHANGED vars
               PROVE  UNCHANGED pc /\ Rank' <= Rank
    OBVIOUS
  <1> USE DEF tmp, result, os, handler, removal
  <1>1. UNCHANGED pc
    BY DEF CatchInterruptSignal, Notify, Receive, CloseStop, StopCleanup, StopRemove,
       Interrupt, OvftoolCreates, OvftoolEnds, vars
  <1>2. listed'["main"] = listed["main"]
    <2>0. listed \in [Goroutine -> SUBSET Entry] /\ "main" \in Goroutine
      BY DEF IInv, TypeOK, Goroutine
    <2>1. CASE StopCleanup
      BY <2>0, <2>1 DEF StopCleanup, StartRemoval
    <2>2. CASE ~StopCleanup
      BY <2>2 DEF CatchInterruptSignal, Notify, Receive, CloseStop, StopRemove,
         Interrupt, OvftoolCreates, OvftoolEnds, vars
    <2> QED BY <2>1, <2>2
  <1>3. \A e \in Entry : e \in listed["main"] /\ e \in files' => e \in files
    <2>1. CASE OvftoolCreates
      BY <2>1 DEF OvftoolCreates, OvftoolOnce
    <2>2. CASE StopRemove
      BY <2>2 DEF StopRemove, Unlink, RemoveDir
    <2>3. CASE ~OvftoolCreates /\ ~StopRemove
      BY <2>3 DEF CatchInterruptSignal, Notify, Receive, CloseStop, StopCleanup,
         Interrupt, OvftoolEnds, vars
    <2> QED BY <2>1, <2>2, <2>3
  <1>4. \A e \in Entry : Unlinks(e)' <= Unlinks(e)
    BY <1>1, <1>2, <1>3 DEF Unlinks
  <1>5. Unlinking' <= Unlinking
    <2>1. \A e \in Entry : Unlinks(e) \in 0 .. 1 /\ Unlinks(e)' \in 0 .. 1
      BY UnlinksType
    <2> QED BY <1>4, <2>1 DEF Unlinking, Entry
  <1>6. pc \in Phase
    BY DEF IInv, TypeOK
  <1> QED BY <1>1, <1>5, <1>6, UnlinkingType, PositionType DEF Rank

Running  == exit = "running"
Below(k) == Running /\ Rank < k

(* Main waits for ovftool, and nobody has asked it to stop.                 *)
Hung == Running /\ ~MainReady

(* Weak fairness of Main, with MainReady in the place of ENABLED: main is    *)
(* not ready again and again, or takes a step again and again.              *)
MainKeepsGoing == []<>~MainReady \/ []<><<Main>>_vars

LEMMA MainReadyStays ==
  IInv /\ OvftoolOnce /\ MainReady /\ [Next]_vars
    => MainReady' \/ exit' # "running" \/ Rank' < Rank
  <1> SUFFICES ASSUME IInv, OvftoolOnce, MainReady, [Next]_vars
               PROVE  MainReady' \/ exit' # "running" \/ Rank' < Rank
    OBVIOUS
  <1>1. CASE Main
    BY <1>1, MainDescends
  <1>2. CASE CatchInterruptSignal \/ Interrupt \/ OvftoolCreates \/ OvftoolEnds
             \/ UNCHANGED vars
    <2>1. UNCHANGED pc
      BY <1>2, OthersKeepRank
    <2>2. stop => stop'
      BY <1>2 DEF CatchInterruptSignal, Notify, Receive, CloseStop, StopCleanup, StopRemove,
         Interrupt, OvftoolCreates, OvftoolEnds, vars, handler
    <2>3. ovftool \in {"exit0", "failed"} => UNCHANGED ovftool
      BY <1>2 DEF CatchInterruptSignal, Notify, Receive, CloseStop, StopCleanup, StopRemove,
         Interrupt, OvftoolCreates, OvftoolEnds, vars, os
    <2> QED BY <2>1, <2>2, <2>3 DEF MainReady
  <1> QED BY <1>1, <1>2 DEF Next

(* One step down, or out.                                                   *)
Settles(k, j) ==
  Spec /\ MainKeepsGoing => (Below(k) ~> (Below(j) \/ ~Running \/ []Hung))

LEMMA OneDown ==
  ASSUME NEW j \in Nat, NEW k \in Nat, k = j + 1
  PROVE  Settles(k, j)
  <1> DEFINE At_j == Running /\ Rank = j
  <1>0. (IInv => Rank \in 0 .. 24)'
    BY RankType, PTL
  <1>1. IInv /\ Below(k) => Below(j) \/ At_j
    BY RankType DEF Below
  <1>2. IInv /\ OvftoolOnce /\ At_j /\ [Next]_vars => (At_j \/ Below(j) \/ ~Running)'
    <2> SUFFICES ASSUME IInv, OvftoolOnce, At_j, [Next]_vars
                 PROVE  (At_j \/ Below(j) \/ ~Running)'
      OBVIOUS
    <2>1. IInv'
      BY NextInv
    <2>2. Rank \in 0 .. 24 /\ Rank' \in 0 .. 24
      BY <1>0, <2>1, RankType
    <2>3. Rank' <= Rank \/ exit' # "running"
      BY <2>2, MainDescends, OthersKeepRank DEF Next
    <2> QED BY <2>2, <2>3 DEF Below, Running
  <1>3. IInv /\ At_j /\ <<Main>>_vars => (Below(j) \/ ~Running)'
    BY MainDescends DEF Below, Running
  <1>4. IInv /\ OvftoolOnce /\ At_j /\ MainReady /\ [Next]_vars
          => MainReady' \/ (Below(j) \/ ~Running)'
    BY MainReadyStays DEF Below, Running
  <1>5. At_j /\ ~MainReady => Hung
    BY DEF Hung
  <1> HIDE DEF At_j
  <1>6. Spec /\ MainKeepsGoing => (Below(k) ~> (Below(j) \/ ~Running \/ []Hung))
    BY <1>1, <1>2, <1>3, <1>4, <1>5, Invariance, Once, PTL DEF Spec, MainKeepsGoing
  <1> QED BY <1>6 DEF Settles

LEMMA AllTheWayDown ==
  /\ Settles(25, 24)
  /\ Settles(24, 23)
  /\ Settles(23, 22)
  /\ Settles(22, 21)
  /\ Settles(21, 20)
  /\ Settles(20, 19)
  /\ Settles(19, 18)
  /\ Settles(18, 17)
  /\ Settles(17, 16)
  /\ Settles(16, 15)
  /\ Settles(15, 14)
  /\ Settles(14, 13)
  /\ Settles(13, 12)
  /\ Settles(12, 11)
  /\ Settles(11, 10)
  /\ Settles(10, 9)
  /\ Settles(9, 8)
  /\ Settles(8, 7)
  /\ Settles(7, 6)
  /\ Settles(6, 5)
  /\ Settles(5, 4)
  /\ Settles(4, 3)
  /\ Settles(3, 2)
  /\ Settles(2, 1)
  /\ Settles(1, 0)
  BY OneDown

(* The command comes to its end, unless ovftool hangs and is never           *)
(* interrupted.  (InterruptEndsCommand follows: Stop stays closed.)         *)
THEOREM CommandEnds == Spec /\ MainKeepsGoing => <>(~Running \/ []Hung)
  <1>1. Init => Below(25) \/ ~Running
    <2>1. Init => Below(25)
      BY InitInv, RankType DEF Init, Below, Running
    <2> QED BY <2>1
  <1>2. IInv => ~Below(0)
    BY RankType DEF Below
  <1> QED BY <1>1, <1>2, Invariance, AllTheWayDown, PTL DEF Spec, Settles

(* The first interrupt ends the command, whatever ovftool does.              *)
THEOREM InterruptEnds == Spec /\ MainKeepsGoing => InterruptEndsCommand
  <1>1. stop /\ [Next]_vars => stop'
    BY DEF vars, Next, CatchInterruptSignal, Notify, Receive, CloseStop, StopCleanup, StopRemove,
       Interrupt, OvftoolCreates, OvftoolEnds, handler, Main, MkTemp, NameTmp, WriteVMX,
       StartOvftool, WaitOvftool, CreateImage, CopyImage, WriteManifest, OpenStemcell,
       AddImage, AddManifest, Transfer, CloseStemcell,
       WriteTrailer, Rename, Cleanup, Remove, RemoveZip, Exit
  <1>2. stop => ~Hung
    BY DEF Hung, MainReady, Running
  <1>3. ~Running /\ [Next]_vars => ~Running'
    BY DEF Running, At, Sig, vars, Next, CatchInterruptSignal, Notify, Receive, CloseStop,
       StopCleanup, StopRemove, Interrupt, OvftoolCreates, OvftoolEnds, Main, MkTemp,
       NameTmp, WriteVMX, StartOvftool, WaitOvftool, CreateImage, CopyImage,
       WriteManifest, OpenStemcell, AddImage, AddManifest, Transfer,
       CloseStemcell, WriteTrailer, Rename, Cleanup, Remove, RemoveZip, Exit
  <1>4. ~Running => exit # "running"
    BY DEF Running
  <1> QED BY <1>1, <1>2, <1>3, <1>4, CommandEnds, PTL DEF Spec, InterruptEndsCommand

=============================================================================
