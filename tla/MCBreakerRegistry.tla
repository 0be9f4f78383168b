-------------------------- MODULE MCBreakerRegistry --------------------------
(***************************************************************************)
(* Instances of BreakerRegistry for TLC: callers, sweepers and names are   *)
(* interchangeable, and the run checks invariants only.                    *)
(***************************************************************************)
EXTENDS BreakerRegistry, TLC

ActorSymmetry ==
  Permutations(Callers) \cup Permutations(Sweepers) \cup Permutations(Names)
=============================================================================
