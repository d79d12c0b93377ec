-------------------------- MODULE MCWindowsUpdates --------------------------
(* WindowsUpdates as TLC checks it.  Logons suffice for every restart the   *)
(* updates and the faults can ask for, and wusa's.                          *)
EXTENDS WindowsUpdates

ASSUME EnoughLogons == AutoLogonCount >= Cardinality(NeedsRestart) + MaxFaults + 1
=============================================================================
