--------------------------- MODULE CircuitBreaker ---------------------------
(***************************************************************************)
(* CircuitBreaker of src/pkg/streamline/circuitbreaker.go, one breaker     *)
(* shared by goroutines.  Execute takes the mutex three times - in         *)
(* allowRequest, beforeRequest and afterRequest - and holds it neither     *)
(* between them nor while the function runs, so calls interleave there.    *)
(*                                                                         *)
(* A refused call returns ErrCircuitOpen and changes nothing, so it is not *)
(* a step.  ExecuteWithContext is Execute; ExecuteWithFallback calls the   *)
(* fallback outside of the breaker.                                        *)
(***************************************************************************)
EXTENDS Integers, FiniteSets

CONSTANTS
  Callers,              \* the goroutines that call Execute
  FailureThreshold,     \* CircuitBreakerConfig, after NewCircuitBreaker has put
  SuccessThreshold,     \*   defaults in place of what is not positive
  MaxHalfOpenRequests,
  MaxPanics             \* bound: calls whose function panics

ASSUME CallersAssumption == IsFiniteSet(Callers)
ASSUME ConfigAssumption ==
  /\ FailureThreshold \in Nat \ {0} /\ SuccessThreshold \in Nat \ {0}
  /\ MaxHalfOpenRequests \in Nat \ {0} /\ MaxPanics \in Nat

VARIABLES
  state,             \* "closed", "open" or "half-open"
  failures,
  successes,
  halfOpenRequests,
  elapsed,           \* Timeout has passed since lastStateChange
  pc,                \* per caller: not in Execute, past allowRequest, in the function
  probes,            \* history: the callers that the half-open breaker let in
  panics             \* functions that have panicked so far

counters == <<failures, successes, halfOpenRequests>>
vars == <<state, counters, elapsed, pc, probes, panics>>

Init ==
  /\ state = "closed"
  /\ failures = 0 /\ successes = 0 /\ halfOpenRequests = 0
  /\ elapsed = FALSE
  /\ pc = [c \in Callers |-> "out"]
  /\ probes = {} /\ panics = 0

(***************************************************************************)
(* transitionTo, from which lastStateChange is now; f is what the caller   *)
(* has made of the failure count.                                          *)
(***************************************************************************)
\* Mutant: a breaker that closes keeps its failures.
TransitionKeepingFailures(to, f) ==
  /\ state' = to /\ elapsed' = FALSE
  /\ failures' = f /\ successes' = 0 /\ halfOpenRequests' = 0

\* Mutant: only a breaker that closes takes its slots back.
TransitionKeepingSlots(to, f) ==
  /\ state' = to /\ elapsed' = FALSE
  /\ failures' = IF to = "closed" THEN 0 ELSE f
  /\ halfOpenRequests' = IF to = "closed" THEN 0 ELSE halfOpenRequests
  /\ successes' = 0

transitionTo(to, f) ==
  /\ state' = to /\ elapsed' = FALSE
  /\ failures' = IF to = "closed" THEN 0 ELSE f
  /\ successes' = 0 /\ halfOpenRequests' = 0

Move(c, from, to) == pc[c] = from /\ pc' = [pc EXCEPT ![c] = to]

SlotFree == halfOpenRequests < MaxHalfOpenRequests

\* allowRequest, when it answers true.
allowRequest(c) ==
  /\ Move(c, "out", "allowed")
  /\ \/ /\ state = "closed"
        /\ UNCHANGED <<state, counters, elapsed, probes>>
     \/ /\ state = "half-open" /\ SlotFree
        /\ probes' = probes \cup {c}
        /\ UNCHANGED <<state, counters, elapsed>>
     \/ /\ state = "open" /\ elapsed
        /\ transitionTo("half-open", failures)
        /\ probes' = probes \cup {c}
  /\ UNCHANGED panics

beforeRequest(c) ==
  /\ Move(c, "allowed", "running")
  /\ halfOpenRequests' = IF state = "half-open" THEN halfOpenRequests + 1
                                                ELSE halfOpenRequests
  /\ UNCHANGED <<state, failures, successes, elapsed, probes, panics>>

\* The function ends.
Return(c) == Move(c, "running", "out") /\ probes' = probes \ {c}

(***************************************************************************)
(* afterRequest, whatever state the call was admitted in.                  *)
(***************************************************************************)
\* Mutant: a success of the half-open state does not give its slot back.
HalfOpenSuccessKeepingSlot ==
  IF successes + 1 >= SuccessThreshold
  THEN transitionTo("closed", failures)
  ELSE /\ successes' = successes + 1
       /\ UNCHANGED <<state, failures, halfOpenRequests, elapsed>>

\* Mutant: the two counters are stepped the wrong way round.
HalfOpenSuccessSwapped ==
  IF successes + 1 >= SuccessThreshold
  THEN transitionTo("closed", failures)
  ELSE /\ successes' = successes - 1
       /\ halfOpenRequests' = halfOpenRequests + 1
       /\ UNCHANGED <<state, failures, elapsed>>

\* The half-open case of onSuccess.
HalfOpenSuccess ==
  IF successes + 1 >= SuccessThreshold
  THEN transitionTo("closed", failures)
  ELSE /\ successes' = successes + 1
       /\ halfOpenRequests' = halfOpenRequests - 1
       /\ UNCHANGED <<state, failures, elapsed>>

onSuccess(c) ==
  /\ Return(c)
  /\ \/ /\ state = "closed"
        /\ failures' = 0
        /\ UNCHANGED <<state, successes, halfOpenRequests, elapsed>>
     \/ state = "half-open" /\ HalfOpenSuccess
     \/ state = "open" /\ UNCHANGED <<state, counters, elapsed>>
  /\ UNCHANGED panics

\* The closed case of onFailure.
ClosedFailure ==
  IF failures + 1 >= FailureThreshold
  THEN transitionTo("open", failures + 1)
  ELSE /\ failures' = failures + 1
       /\ UNCHANGED <<state, successes, halfOpenRequests, elapsed>>

onFailure(c) ==
  /\ Return(c)
  /\ \/ state = "closed" /\ ClosedFailure
     \/ state = "half-open" /\ transitionTo("open", failures)
     \/ state = "open" /\ UNCHANGED <<state, counters, elapsed>>
  /\ UNCHANGED panics

\* The function panics: Execute unwinds past afterRequest, which is not deferred.
Panic(c) ==
  /\ panics < MaxPanics /\ panics' = panics + 1
  /\ Return(c)
  /\ UNCHANGED <<state, counters, elapsed>>

(***************************************************************************)
(* Operators, and time.                                                    *)
(***************************************************************************)
Reset ==
  /\ state' = "closed" /\ elapsed' = FALSE
  /\ failures' = 0 /\ successes' = 0 /\ halfOpenRequests' = 0
  /\ UNCHANGED <<pc, probes, panics>>

ForceOpen ==
  /\ state' = "open" /\ elapsed' = FALSE
  /\ UNCHANGED <<counters, pc, probes, panics>>

\* Only allowRequest and State look at the clock, and only while open.
TimeoutElapses ==
  /\ state = "open" /\ ~elapsed
  /\ elapsed' = TRUE
  /\ UNCHANGED <<state, counters, pc, probes, panics>>

Call(c) == allowRequest(c) \/ beforeRequest(c) \/ onSuccess(c) \/ onFailure(c)

Next ==
  \/ \E c \in Callers : Call(c) \/ Panic(c)
  \/ Reset \/ ForceOpen \/ TimeoutElapses

Spec == Init /\ [][Next]_vars

(***************************************************************************)
(* Fairness, for what has to happen once traffic goes on: every caller     *)
(* calls again, its function returns and Execute runs to its end.          *)
(***************************************************************************)
FairSpec == Spec /\ \A c \in Callers : WF_vars(Call(c))

-----------------------------------------------------------------------------
States == {"closed", "open", "half-open"}

TypeOK ==
  /\ state \in States
  /\ failures \in Nat /\ successes \in Nat /\ halfOpenRequests \in Int
  /\ elapsed \in BOOLEAN
  /\ pc \in [Callers -> {"out", "allowed", "running"}]
  /\ probes \subseteq Callers /\ panics \in Nat

\* The calls whose function is running.
Running == {c \in Callers : pc[c] = "running"}

(***************************************************************************)
(* Safety                                                                  *)
(***************************************************************************)
\* A breaker never rests at a threshold: with that many failures it would be open,
\* with that many successes closed - through forced opening, resets and calls that
\* were admitted in one state and complete in another.
ThresholdsAct ==
  /\ state = "closed" => failures < FailureThreshold
  /\ state = "half-open" => successes < SuccessThreshold

\* Every half-open slot that is taken belongs to a call that is still running, or
\* to one that panicked: the calls admitted before the breaker became half-open
\* take no slots with them, and those that outlive it leave none behind.
SlotsAccounted ==
  state = "half-open" => halfOpenRequests <= Cardinality(Running) + panics

\* Unless a function has panicked, a half-open breaker in which nothing runs admits
\* the next call: it cannot get stuck half-open, refusing its own probes.
NeverWedged ==
  panics = 0 /\ Running = {} /\ state = "half-open" => SlotFree

(***************************************************************************)
(* Liveness                                                                *)
(***************************************************************************)
\* Unless a function panics, the half-open test comes to an end, one way or the other.
TestConcludes == state = "half-open" ~> state # "half-open" \/ panics # 0

(***************************************************************************)
(* What the code does not keep                                             *)
(***************************************************************************)
\* "MaxHalfOpenRequests is the maximum number of requests allowed in half-open
\* state": no more than that run of those which the half-open breaker let in.
HalfOpenLimit ==
  state = "half-open" => Cardinality(probes \cap Running) <= MaxHalfOpenRequests
=============================================================================
