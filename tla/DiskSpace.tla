------------------------------ MODULE DiskSpace ------------------------------
(***************************************************************************)
(* VmdkPackager.ValidateFreeSpaceForPackage and what it is for: before the  *)
(* conversion the free space of the VMDK's disk is compared with twice the  *)
(* VMDK's size and a margin, in unsigned arithmetic; a refused operator     *)
(* frees what the message asks for and tries again; an accepted conversion  *)
(* writes three files, each at most as large as the VMDK, on the output     *)
(* directory's disk and keeps them all until it is over.                    *)
(***************************************************************************)
EXTENDS Naturals

CONSTANTS
  Width,     \* bits of the unsigned type (64)
  Gigabyte,  \* in bytes (2^30)
  Megabyte,  \* in bytes (2^20)
  MaxSize,   \* largest VMDK considered (a bound)
  MaxFree    \* largest free space considered (a bound)

ASSUME UnitsAssumption == /\ Width \in Nat \ {0}
                          /\ Megabyte \in Nat \ {0}
                          /\ Gigabyte \in Nat
ASSUME BoundsAssumption == /\ MaxSize \in Nat
                           /\ 2 * MaxSize + Gigabyte \div 2 < 2 ^ Width
                           /\ MaxFree \in Nat /\ MaxFree < 2 ^ Width
ASSUME ModulusAssumption == 2 ^ Width \in Nat

VARIABLES
  pc,
  size,      \* of the VMDK
  sameDisk,  \* the VMDK and the output directory are on one file system
  vmdkFree,  \* free space where the VMDK is
  free,      \* free space where the files are written
  asked      \* megabytes the last refusal asked to free

vars == <<pc, size, sameDisk, vmdkFree, free, asked>>

Phase == {"validate", "refused", "ova", "image", "stemcell", "done", "noSpace"}

TypeOK ==
  /\ pc \in Phase
  /\ size \in 0 .. MaxSize
  /\ sameDisk \in BOOLEAN
  /\ vmdkFree \in 0 .. MaxFree
  /\ free \in 0 .. MaxFree
  /\ sameDisk => vmdkFree = free
  /\ asked \in 0 .. (2 * MaxSize + Gigabyte \div 2) \div Megabyte

Init ==
  /\ pc = "validate"
  /\ size \in 0 .. MaxSize
  /\ sameDisk \in BOOLEAN
  /\ vmdkFree \in 0 .. MaxFree
  /\ free \in IF sameDisk THEN {vmdkFree} ELSE 0 .. MaxFree
  /\ asked = 0

Unsigned(x) == x % (2 ^ Width)

(* Bug: the margin instead of the second file.                              *)
MinSpaceForOne == Unsigned(size + Gigabyte \div 2)

MinSpace == Unsigned(2 * size + Gigabyte \div 2)

(* Bug: the operands the wrong way round.                                   *)
RequiredSpaceSwapped == Unsigned(vmdkFree + 2 ^ Width - MinSpace)

(* Bug: what is missing for one file.                                       *)
RequiredSpaceForOne == Unsigned(MinSpaceForOne + 2 ^ Width - vmdkFree)

(* minFreeSpace - freeSpace; meaningful only when there is not enough.      *)
RequiredSpace == Unsigned(MinSpace + 2 ^ Width - vmdkFree)

ValidateFreeSpaceForPackage ==
  /\ pc = "validate"
  /\ IF vmdkFree >= MinSpace
       THEN pc' = "ova" /\ UNCHANGED asked
       ELSE pc' = "refused" /\ asked' = RequiredSpace \div Megabyte
  /\ UNCHANGED <<size, sameDisk, vmdkFree, free>>

(* The operator does what the message says.                                 *)
FreeUp ==
  /\ pc = "refused"
  /\ vmdkFree + asked * Megabyte <= MaxFree
  /\ vmdkFree' = vmdkFree + asked * Megabyte
  /\ free' = IF sameDisk THEN vmdkFree' ELSE free
  /\ pc' = "validate"
  /\ UNCHANGED <<size, sameDisk, asked>>

Write(file, next) ==
  /\ pc = file
  /\ \E n \in 0 .. size :
       IF n <= free
         THEN /\ free' = free - n
              /\ vmdkFree' = IF sameDisk THEN free' ELSE vmdkFree
              /\ pc' = next
         ELSE pc' = "noSpace" /\ UNCHANGED <<free, vmdkFree>>
  /\ UNCHANGED <<size, sameDisk, asked>>

ConvertVMX2OVA == Write("ova", "image")
CreateImage    == Write("image", "stemcell")
CreateStemcell == Write("stemcell", "done")

Next == \/ ValidateFreeSpaceForPackage \/ FreeUp
        \/ ConvertVMX2OVA \/ CreateImage \/ CreateStemcell

Spec == Init /\ [][Next]_vars

(* An operator who wants the stemcell keeps freeing and retrying.           *)
FairSpec == Spec /\ WF_vars(Next)

-----------------------------------------------------------------------------
(* On one disk, an accepted conversion can write the OVA and the image in    *)
(* full, and the margin is left for the stemcell.                           *)
TwoFilesFit ==
  sameDisk => /\ pc = "image" => free >= size
              /\ pc = "stemcell" => free >= Gigabyte \div 2

(* A refusal never asks for more than is missing, wrap-around included: an   *)
(* operator who frees what it says never ends above the minimum.             *)
AskedIsNeeded == pc = "refused" => vmdkFree + asked * Megabyte <= MinSpace

(* And it asks for less than a megabyte too little: one more than the        *)
(* message says is always enough.                                            *)
OneMoreIsEnough == pc = "refused" => vmdkFree + (asked + 1) * Megabyte > MinSpace

(* "Free up %d MB and try again" (packagers/vmdk_packager.go:436): doing so  *)
(* leads to an accepted conversion.                                          *)
FreeingIsEnough == pc = "refused" ~> pc = "ova"

-----------------------------------------------------------------------------
(* The inductive strengthening: the room left on the one disk.              *)
RoomLeft ==
  sameDisk => /\ pc = "ova" => free >= 2 * size + Gigabyte \div 2
              /\ pc = "image" => free >= size + Gigabyte \div 2
              /\ pc = "stemcell" => free >= Gigabyte \div 2

IInv == TypeOK /\ RoomLeft /\ TwoFilesFit /\ AskedIsNeeded /\ OneMoreIsEnough
=============================================================================
