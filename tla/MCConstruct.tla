----------------------------- MODULE MCConstruct -----------------------------
(* Construct as TLC checks it; the bounds are in the configurations.          *)
EXTENDS Construct
=============================================================================
