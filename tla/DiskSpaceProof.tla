---------------------------- MODULE DiskSpaceProof ----------------------------
(***************************************************************************)
(* Proofs about DiskSpace, for every width, unit and size that satisfies    *)
(* its assumptions.                                                         *)
(***************************************************************************)
EXTENDS DiskSpace, TLAPS

(* Division and remainder by a positive divisor.                            *)
LEMMA DivType ==
  ASSUME NEW a \in Nat, NEW b \in Nat \ {0}
  PROVE  a \div b \in Nat
  BY SMT

LEMMA DivMul ==
  ASSUME NEW a \in Nat, NEW b \in Nat \ {0}
  PROVE  (a \div b) * b <= a
  BY SMT

LEMMA DivNext ==
  ASSUME NEW a \in Nat, NEW b \in Nat \ {0}
  PROVE  a < (a \div b + 1) * b
  BY SMT

LEMMA ModSmall ==
  ASSUME NEW m \in Nat \ {0}, NEW x \in Nat, x < m
  PROVE  x % m = x
  BY SMT

LEMMA ModOnce ==
  ASSUME NEW m \in Nat \ {0}, NEW x \in Nat, x < m
  PROVE  (m + x) % m = x
  BY SMT

LEMMA DivMono ==
  ASSUME NEW a \in Nat, NEW c \in Nat, NEW b \in Nat \ {0}, a <= c
  PROVE  a \div b <= c \div b
  BY SMT

LEMMA MulType ==
  ASSUME NEW a \in Nat, NEW b \in Nat
  PROVE  a * b \in Nat
  BY SMT

(* What the assumptions say of the arithmetic: nothing wraps around.        *)
LEMMA Modulus ==
  /\ 2 ^ Width \in Nat \ {0}
  /\ Gigabyte \div 2 \in Nat
  /\ \A n \in 0 .. MaxSize : 2 * n + Gigabyte \div 2 \in Nat
                              /\ 2 * n + Gigabyte \div 2 < 2 ^ Width
                              /\ 2 * n + Gigabyte \div 2 <= 2 * MaxSize + Gigabyte \div 2
  <1>1. Gigabyte \div 2 \in Nat
    BY UnitsAssumption, DivType
  <1>2. MaxSize \in Nat /\ 2 * MaxSize + Gigabyte \div 2 < 2 ^ Width /\ 2 ^ Width \in Nat
    BY BoundsAssumption, ModulusAssumption
  <1> QED BY <1>1, <1>2, SMT

(* The minimum, and what is missing from it, as plain numbers.              *)
LEMMA Minimum ==
  ASSUME TypeOK
  PROVE  /\ MinSpace = 2 * size + Gigabyte \div 2
         /\ MinSpace \in Nat
         /\ MinSpace <= 2 * MaxSize + Gigabyte \div 2
  <1>1. Unsigned(2 * size + Gigabyte \div 2) = 2 * size + Gigabyte \div 2
    BY Modulus, ModSmall DEF TypeOK, Unsigned
  <1> QED BY <1>1, Modulus DEF TypeOK, MinSpace

LEMMA Required ==
  ASSUME TypeOK, vmdkFree < MinSpace
  PROVE  RequiredSpace = MinSpace - vmdkFree /\ RequiredSpace \in Nat
  <1> DEFINE missing == MinSpace - vmdkFree
  <1>1. missing \in Nat /\ missing <= MinSpace
    BY Minimum, BoundsAssumption DEF TypeOK
  <1>2. missing < 2 ^ Width
    BY <1>1, Minimum, Modulus DEF TypeOK
  <1>3. MinSpace + 2 ^ Width - vmdkFree = 2 ^ Width + missing
    BY Minimum, Modulus, BoundsAssumption DEF TypeOK
  <1>4. (2 ^ Width + missing) % (2 ^ Width) = missing
    BY <1>1, <1>2, Modulus, ModOnce
  <1> QED BY <1>1, <1>3, <1>4 DEF RequiredSpace, Unsigned

-----------------------------------------------------------------------------
LEMMA InitInv == Init => IInv
  <1> SUFFICES ASSUME Init PROVE IInv
    OBVIOUS
  <1>1. 0 \in 0 .. (2 * MaxSize + Gigabyte \div 2) \div Megabyte
    <2>1. 2 * MaxSize + Gigabyte \div 2 \in Nat
      BY Modulus, BoundsAssumption
    <2> QED BY <2>1, UnitsAssumption, DivType, SMT
  <1> QED BY <1>1 DEF Init, IInv, TypeOK, RoomLeft, TwoFilesFit, AskedIsNeeded, OneMoreIsEnough, Phase

LEMMA ValidateInv == IInv /\ ValidateFreeSpaceForPackage => IInv'
  <1> SUFFICES ASSUME IInv, ValidateFreeSpaceForPackage PROVE IInv'
    OBVIOUS
  <1> USE DEF ValidateFreeSpaceForPackage
  <1>0. TypeOK /\ MinSpace' = MinSpace
    BY DEF IInv, MinSpace
  <1>1. CASE vmdkFree >= MinSpace
    <2>1. TypeOK'
      BY <1>0, <1>1 DEF TypeOK, Phase
    <2>2. RoomLeft'
      BY <1>0, <1>1, Minimum DEF TypeOK, RoomLeft
    <2> QED BY <1>1, <2>1, <2>2 DEF IInv, TwoFilesFit, AskedIsNeeded, OneMoreIsEnough
  <1>2. CASE ~(vmdkFree >= MinSpace)
    <2>1. vmdkFree < MinSpace
      BY <1>0, <1>2, Minimum DEF TypeOK
    <2>2. /\ RequiredSpace = MinSpace - vmdkFree
          /\ RequiredSpace \in Nat
          /\ RequiredSpace <= 2 * MaxSize + Gigabyte \div 2
      <3>1. RequiredSpace = MinSpace - vmdkFree /\ RequiredSpace \in Nat
        BY <1>0, <2>1, Required
      <3>2. MinSpace - vmdkFree <= MinSpace
        BY <1>0, <2>1, Minimum, BoundsAssumption DEF TypeOK
      <3>3. MinSpace \in Nat /\ MinSpace <= 2 * MaxSize + Gigabyte \div 2
        BY <1>0, Minimum
      <3>4. 2 * MaxSize + Gigabyte \div 2 \in Nat
        BY Modulus, BoundsAssumption
      <3> HIDE DEF ValidateFreeSpaceForPackage
      <3> QED BY <3>1, <3>2, <3>3, <3>4
    <2>3. asked' * Megabyte <= RequiredSpace
      BY <1>2, <2>2, UnitsAssumption, DivMul
    <2>4. asked' \in 0 .. (2 * MaxSize + Gigabyte \div 2) \div Megabyte
      <3>1. 2 * MaxSize + Gigabyte \div 2 \in Nat
        BY Modulus, BoundsAssumption
      <3> QED BY <1>2, <2>2, <3>1, UnitsAssumption, DivMono, DivType, SMT
    <2>5. TypeOK'
      BY <1>0, <1>2, <2>4 DEF TypeOK, Phase
    <2>6. AskedIsNeeded'
      <3>1. asked' \in Nat
        BY <2>4
      <3>2. asked' * Megabyte \in Nat
        BY <3>1, UnitsAssumption, MulType
      <3>3. vmdkFree + asked' * Megabyte <= MinSpace
        BY <1>0, <2>2, <2>3, <3>2, Minimum, SMT DEF TypeOK
      <3> QED BY <1>0, <3>3 DEF AskedIsNeeded
    <2>7. OneMoreIsEnough'
      <3>1. asked' = RequiredSpace \div Megabyte
        BY <1>2
      <3>2. RequiredSpace < (asked' + 1) * Megabyte
        BY <2>2, <3>1, UnitsAssumption, DivNext
      <3> HIDE DEF ValidateFreeSpaceForPackage
      <3>3. asked' + 1 \in Nat
        BY <2>2, <3>1, UnitsAssumption, DivType
      <3>4. (asked' + 1) * Megabyte \in Nat
        BY <3>3, UnitsAssumption, MulType
      <3>5. vmdkFree + (asked' + 1) * Megabyte > MinSpace
        BY <1>0, <2>2, <3>2, <3>4, Minimum, BoundsAssumption, SMT DEF TypeOK
      <3>6. vmdkFree' = vmdkFree
        BY DEF ValidateFreeSpaceForPackage
      <3> QED BY <1>0, <3>5, <3>6 DEF OneMoreIsEnough
    <2> QED BY <1>2, <2>5, <2>6, <2>7 DEF IInv, TwoFilesFit, RoomLeft
  <1> QED BY <1>1, <1>2

LEMMA FreeUpInv == IInv /\ FreeUp => IInv'
  <1> SUFFICES ASSUME IInv, FreeUp PROVE IInv'
    OBVIOUS
  <1>1. asked * Megabyte \in Nat
    <2>1. asked \in Nat
      BY DEF IInv, TypeOK
    <2> QED BY <2>1, UnitsAssumption, SMT
  <1>2. TypeOK'
    BY <1>1, BoundsAssumption DEF FreeUp, IInv, TypeOK, Phase
  <1> QED BY <1>2 DEF FreeUp, IInv, RoomLeft, TwoFilesFit, AskedIsNeeded, OneMoreIsEnough

(* A file takes at most the size of the VMDK from the room there is.        *)
LEMMA WriteInv ==
  ASSUME IInv, NEW file, NEW next,
         <<file, next>> \in {<<"ova", "image">>, <<"image", "stemcell">>, <<"stemcell", "done">>},
         Write(file, next)
  PROVE  IInv'
  <1> USE Modulus, BoundsAssumption
  <1>1. /\ pc = file /\ pc' \in {next, "noSpace"}
        /\ UNCHANGED <<size, sameDisk, asked>>
    BY DEF Write
  <1>2. PICK n \in 0 .. size :
          IF n <= free THEN /\ free' = free - n
                            /\ vmdkFree' = IF sameDisk THEN free' ELSE vmdkFree
                            /\ pc' = next
                       ELSE pc' = "noSpace" /\ UNCHANGED <<free, vmdkFree>>
    BY DEF Write
  <1>3. TypeOK'
    BY <1>1, <1>2 DEF IInv, TypeOK, Phase
  <1>4. RoomLeft'
    <2>1. CASE n <= free
      BY <1>1, <1>2, <2>1 DEF IInv, TypeOK, RoomLeft
    <2>2. CASE ~(n <= free)
      BY <1>1, <1>2, <2>2 DEF IInv, RoomLeft
    <2> QED BY <2>1, <2>2
  <1>5. TwoFilesFit'
    BY <1>3, <1>4 DEF RoomLeft, TwoFilesFit, TypeOK
  <1>6. AskedIsNeeded' /\ OneMoreIsEnough'
    BY <1>1 DEF AskedIsNeeded, OneMoreIsEnough
  <1> QED BY <1>3, <1>4, <1>5, <1>6 DEF IInv

LEMMA NextInv == IInv /\ [Next]_vars => IInv'
  <1>1. CASE UNCHANGED vars
    BY <1>1 DEF vars, IInv, TypeOK, RoomLeft, TwoFilesFit, AskedIsNeeded, OneMoreIsEnough, MinSpace,
                Unsigned
  <1>2. IInv /\ (ConvertVMX2OVA \/ CreateImage \/ CreateStemcell) => IInv'
    BY WriteInv DEF ConvertVMX2OVA, CreateImage, CreateStemcell
  <1> QED BY <1>1, <1>2, ValidateInv, FreeUpInv DEF Next

(* The inductive invariant: the room an accepted conversion still has.      *)
THEOREM Invariance == Spec => []IInv
  BY InitInv, NextInv, PTL DEF Spec

(* What hasAtLeastFreeDiskSpace accepts is room for the OVA and the image.   *)
THEOREM RoomForTwo == Spec => []TwoFilesFit
  <1>1. IInv => TwoFilesFit
    BY DEF IInv
  <1> QED BY <1>1, Invariance, PTL

(* The message of a refusal never asks for more than is missing.            *)
THEOREM AskedNeeded == Spec => []AskedIsNeeded
  <1>1. IInv => AskedIsNeeded
    BY DEF IInv
  <1> QED BY <1>1, Invariance, PTL

(* Nor does it ask for a megabyte less: the rounding the message is wrong by  *)
(* is the only thing it is wrong by.                                          *)
THEOREM OneMoreEnough == Spec => []OneMoreIsEnough
  <1>1. IInv => OneMoreIsEnough
    BY DEF IInv
  <1> QED BY <1>1, Invariance, PTL

(* Every reachable state is of the declared types.                          *)
THEOREM TypeCorrect == Spec => []TypeOK
  <1>1. IInv => TypeOK
    BY DEF IInv
  <1> QED BY <1>1, Invariance, PTL
=============================================================================
