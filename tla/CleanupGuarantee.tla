-------------------------- MODULE CleanupGuarantee --------------------------
(***************************************************************************)
(* What the FinalizingHandler contract (src/pkg/streamline/handler.go)     *)
(* promises to the author of a handler, without API server, cache, queue,  *)
(* retries or crashes:                                                     *)
(*                                                                         *)
(*   - an external resource is only created for the incarnation that is    *)
(*     guarded, i.e. whose stored object carries the finalizer;            *)
(*   - the guard is dropped only after Finalize has closed the             *)
(*     incarnation, and nothing is created for a closed one.               *)
(***************************************************************************)
EXTENDS Naturals

VARIABLES
  guarded,   \* the incarnation whose object carries the finalizer, 0 if none
  ext,       \* the incarnations whose external resource exists
  closed     \* the incarnations Finalize has reported cleaned up

vars == <<guarded, ext, closed>>

Init == guarded = 0 /\ ext = {} /\ closed = {}

\* The finalizer is stored on a new incarnation.
Guard ==
  /\ guarded = 0
  /\ guarded' \in Nat \ (closed \cup {0})
  /\ UNCHANGED <<ext, closed>>

Provision ==
  /\ guarded \notin closed \cup {0}
  /\ ext' = ext \cup {guarded}
  /\ UNCHANGED <<guarded, closed>>

\* Finalize has cleaned up but has not said so.
Deprovision ==
  /\ guarded # 0
  /\ ext' = ext \ {guarded}
  /\ UNCHANGED <<guarded, closed>>

Close ==
  /\ guarded # 0
  /\ ext' = ext \ {guarded}
  /\ closed' = closed \cup {guarded}
  /\ UNCHANGED guarded

Unguard ==
  /\ guarded \in closed \ ext
  /\ guarded' = 0
  /\ UNCHANGED <<ext, closed>>

Next == Guard \/ Provision \/ Deprovision \/ Close \/ Unguard

Spec == Init /\ [][Next]_vars

\* The contract's point: what exists outside is guarded.
NothingUnguarded == ext \subseteq {guarded} \ {0}
=============================================================================
