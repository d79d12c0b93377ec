----------------------------- MODULE MCProvision -----------------------------
(* Two runs: a second one meets every kind of leftover of a first.           *)
EXTENDS GuestScripts
=============================================================================
