----------------------------- MODULE MCIPSearch -----------------------------
(* Small instances of IPSearch for TLC: addresses of Top + 1 values. *)
EXTENDS IPSearch
=============================================================================
