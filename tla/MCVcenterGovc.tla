---------------------------- MODULE MCVcenterGovc ----------------------------
(* VcenterGovc as TLC checks it: more devices than the pipe holds lines.      *)
EXTENDS VcenterGovc
=============================================================================
