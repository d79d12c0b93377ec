----------------------------- MODULE GovcBounds -----------------------------
(* The parameters of a govc command run by this process, for GovcRunner and   *)
(* for the modules that compose it.                                          *)
EXTENDS Naturals

CONSTANTS
  Capacity,   \* of the pipe in the place of os.Stdout
  MaxOutput,  \* what one command prints (a bound)
  MaxCalls    \* calls of RunWithOutput by one process (a bound)

ASSUME CapacityAssumption == Capacity \in Nat \ {0}
ASSUME BoundsAssumption == MaxOutput \in Nat /\ MaxCalls \in Nat \ {0}
=============================================================================
