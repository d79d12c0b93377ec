-------------------------- MODULE MCVcenterPackager --------------------------
(* VcenterPackager by itself, for what the tests say of a successful run.    *)
EXTENDS VcenterPackager
=============================================================================
