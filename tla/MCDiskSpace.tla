---------------------------- MODULE MCDiskSpace ----------------------------
(* DiskSpace as TLC checks it, scaled down: sixteen units to the gigabyte,  *)
(* three to the megabyte, so that neither divides the sizes compared.       *)
EXTENDS DiskSpace
=============================================================================
