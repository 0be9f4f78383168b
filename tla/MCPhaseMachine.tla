--------------------------- MODULE MCPhaseMachine ---------------------------
(***************************************************************************)
(* An instance of PhaseMachine for TLC: the phases of statemachine.go, and *)
(* late calls that give Job a phase it lacks, guard one transition, hang a *)
(* second callback on one, and retry a failure from an enter callback.     *)
(***************************************************************************)
EXTENDS PhaseMachine

MCPhases == {"Pending", "Initializing", "Running", "Updating", "Degraded",
             "Terminating", "Failed", "Succeeded"}

MCMachines == {Recorded(CommonStateMachine), Recorded(JobStateMachine)}

Call(op, from, to, fn) == [op |-> op, from |-> from, to |-> to, fn |-> fn]

MCLateCalls ==
  {Call("AllowAny", "Pending", "Terminating", "record"),
   Call("AllowWithGuard", "Succeeded", "Running", "record"),
   Call("Allow", "Succeeded", "Running", "record"),
   Call("Allow", "Updating", "Degraded", "record"),
   Call("Allow", "Degraded", "Updating", "record"),
   Call("OnTransition", "Running", "Failed", "record"),
   Call("OnExit", "Running", "Running", "notready"),
   Call("OnEnter", "Failed", "Failed", "Pending")}
=============================================================================
