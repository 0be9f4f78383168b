------------------------------ MODULE MCHealth ------------------------------
(***************************************************************************)
(* An instance of Health for TLC: two probes of one name, and a slot more  *)
(* for checks that have been given up than the events allow to hang.       *)
(***************************************************************************)
EXTENDS Health
=============================================================================
