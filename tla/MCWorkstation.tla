--------------------------- MODULE MCWorkstation ---------------------------
(* Workstation as TLC checks it: three processes, on Windows and elsewhere,   *)
(* with and without ovftool.  Every command meets every other one that        *)
(* writes what it reads, with a third process that ends early around them.    *)
EXTENDS Workstation, TLC

Teams == {<<"construct", "construct", "unstamped">>,
          <<"construct", "vmdk", "badFlag">>,
          <<"construct", "vcenter", "usage">>,
          <<"vmdk", "vmdk", "version">>,
          <<"vmdk", "vcenter", "partOfSource">>,
          <<"vcenter", "vcenter", "bothSources">>,
          <<"version", "usage", "noSource">>}

TeamMixes ==
  {c \in [Proc -> Command] : \E t \in Teams : \A k \in Command :
     Cardinality({p \in Proc : c[p] = k}) = Cardinality({i \in 1 .. 3 : t[i] = k})}

KeyWithPath == [k \in KeyPaths |-> IF k = 1 THEN "withPath" ELSE "absent"]
NoKey       == [k \in KeyPaths |-> "absent"]

Windows  == [platform |-> "windows", onPath |-> TRUE, key |-> KeyWithPath, dirs |-> {}]
Linux    == [Windows EXCEPT !.platform = "other", !.key = NoKey]
WithoutOvftool == [platform |-> "darwin", onPath |-> FALSE, key |-> NoKey, dirs |-> {}]
ThreeMachines == {Windows, Linux, WithoutOvftool}

AllVmdk == [Proc -> {"vmdk"}]

Processes == Permutations(Proc)
=============================================================================
