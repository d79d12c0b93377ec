--------------------------- MODULE MCVmdkPackager ---------------------------
(* VmdkPackager as TLC checks it.                                           *)
EXTENDS VmdkPackager
=============================================================================
