---------------------------- MODULE MCResources ----------------------------
(***************************************************************************)
(* An instance of Resources for TLC: a child whose kind has a spec and one *)
(* whose kind has none, and each update strategy.                          *)
(***************************************************************************)
EXTENDS Resources

MCNames == <<"deployment", "config">>

MCWithSpec == {"deployment"}

\* Only an apply can be forced.
MCOptions == {o \in EnsureOptions : o.forceConflicts => o.strategy = "Apply"}
=============================================================================
