---------------------------- MODULE MCReconciler ----------------------------
(***************************************************************************)
(* Instances of Reconciler for TLC.  The configurations give every         *)
(* constant a value; windows are model values, and at most one is used, so *)
(* there is no symmetry to exploit.                                        *)
(***************************************************************************)
EXTENDS Reconciler
=============================================================================
