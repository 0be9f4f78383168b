------------------------ MODULE CircuitBreakerProofs ------------------------
(***************************************************************************)
(* Proofs about CircuitBreaker, for any number of callers and any          *)
(* thresholds.                                                             *)
(***************************************************************************)
EXTENDS CircuitBreaker, FiniteSetTheorems, TLAPS

(***************************************************************************)
(* What each step does to the set of running calls.                        *)
(***************************************************************************)
LEMMA RunningFinite ==
  ASSUME TypeOK
  PROVE  IsFiniteSet(Running) /\ Cardinality(Running) \in Nat
<1>1. IsFiniteSet(Running)
  BY CallersAssumption, FS_Subset DEF Running
<1>2. QED BY <1>1, FS_CardinalityType

LEMMA CallStarts ==
  ASSUME TypeOK, NEW c \in Callers, Move(c, "allowed", "running")
  PROVE  Cardinality(Running)' = Cardinality(Running) + 1
<1>1. Running' = Running \cup {c} /\ c \notin Running
  BY DEF Move, Running, TypeOK
<1>2. QED BY <1>1, RunningFinite, FS_AddElement

LEMMA CallEnds ==
  ASSUME TypeOK, NEW c \in Callers, Move(c, "running", "out")
  PROVE  Cardinality(Running)' = Cardinality(Running) - 1
<1>1. Running' = Running \ {c} /\ c \in Running
  BY DEF Move, Running, TypeOK
<1>2. QED BY <1>1, RunningFinite, FS_RemoveElement

LEMMA CallIsAdmitted ==
  ASSUME TypeOK, NEW c \in Callers, Move(c, "out", "allowed")
  PROVE  Running' = Running
  BY DEF Move, Running, TypeOK

(***************************************************************************)
(* Type correctness and the thresholds                                     *)
(***************************************************************************)
Inv == TypeOK /\ ThresholdsAct

LEMMA ElapsedType ==
  ASSUME TypeOK, [Next]_vars
  PROVE  elapsed' \in BOOLEAN
  BY DEF TypeOK, Next, Call, allowRequest, beforeRequest, onSuccess, onFailure, Panic,
     Reset, ForceOpen, TimeoutElapses, HalfOpenSuccess, ClosedFailure, transitionTo, vars

LEMMA NextKeepsInv ==
  ASSUME Inv, [Next]_vars
  PROVE  Inv'
<1>0. elapsed' \in BOOLEAN
  BY ElapsedType DEF Inv
<1> USE <1>0, ConfigAssumption DEF Inv, TypeOK, ThresholdsAct, States
<1>1. ASSUME NEW c \in Callers, allowRequest(c) PROVE Inv'
  BY <1>1 DEF allowRequest, Move, transitionTo, counters
<1>2. ASSUME NEW c \in Callers, beforeRequest(c) PROVE Inv'
  BY <1>2 DEF beforeRequest, Move
<1>3. ASSUME NEW c \in Callers, onSuccess(c) PROVE Inv'
  BY <1>3 DEF onSuccess, HalfOpenSuccess, Return, Move, transitionTo, counters
<1>4. ASSUME NEW c \in Callers, onFailure(c) PROVE Inv'
  BY <1>4 DEF onFailure, ClosedFailure, Return, Move, transitionTo, counters
<1>5. ASSUME NEW c \in Callers, Panic(c) PROVE Inv'
  BY <1>5 DEF Panic, Return, Move, counters
<1>6. CASE Reset
  BY <1>6 DEF Reset
<1>7. CASE ForceOpen
  BY <1>7 DEF ForceOpen, counters
<1>8. CASE TimeoutElapses
  BY <1>8 DEF TimeoutElapses, counters
<1>9. CASE UNCHANGED vars
  BY <1>9 DEF vars, counters
<1>10. QED
  BY <1>1, <1>2, <1>3, <1>4, <1>5, <1>6, <1>7, <1>8, <1>9 DEF Next, Call

LEMMA Invariant == Spec => []Inv
<1>1. Init => Inv
  <2> SUFFICES ASSUME Init PROVE Inv
    OBVIOUS
  <2>1. elapsed \in BOOLEAN
    BY DEF Init
  <2>2. QED
    BY <2>1, ConfigAssumption DEF Init, Inv, TypeOK, ThresholdsAct, States
<1>2. QED
  BY <1>1, NextKeepsInv, PTL DEF Spec

\* Every variable keeps its type, whatever the thresholds.
THEOREM TypeCorrect == Spec => []TypeOK
<1>1. Inv => TypeOK
  BY DEF Inv
<1>2. QED BY <1>1, Invariant, PTL

\* The breaker never rests at a threshold it should have acted on.
THEOREM ThresholdsActCorrect == Spec => []ThresholdsAct
<1>1. Inv => ThresholdsAct
  BY DEF Inv
<1>2. QED BY <1>1, Invariant, PTL

(***************************************************************************)
(* The half-open slots                                                     *)
(***************************************************************************)
LEMMA NextKeepsSlots ==
  ASSUME TypeOK, SlotsAccounted, [Next]_vars
  PROVE  SlotsAccounted'
<1> DEFINE n == Cardinality(Running)
<1>0. n \in Nat /\ panics \in Nat /\ halfOpenRequests \in Int
  BY RunningFinite DEF TypeOK
<1> HIDE DEF n
<1>1. ASSUME NEW c \in Callers, allowRequest(c) PROVE SlotsAccounted'
  <2>1. Running' = Running
    BY <1>1, CallIsAdmitted DEF allowRequest
  <2>2. n' = n /\ panics' = panics
    BY <1>1, <2>1 DEF n, allowRequest
  <2>3. CASE UNCHANGED <<state, counters>>
    BY <2>2, <2>3 DEF SlotsAccounted, counters, n
  <2>4. CASE transitionTo("half-open", failures)
    BY <1>0, <2>2, <2>4 DEF SlotsAccounted, transitionTo, n
  <2>5. QED BY <1>1, <2>3, <2>4 DEF allowRequest
<1>2. ASSUME NEW c \in Callers, beforeRequest(c) PROVE SlotsAccounted'
  <2>1. n' = n + 1
    BY <1>2, CallStarts DEF beforeRequest, n
  <2>2. QED
    BY <1>0, <1>2, <2>1 DEF beforeRequest, SlotsAccounted, n
<1>3. ASSUME NEW c \in Callers, onSuccess(c) PROVE SlotsAccounted'
  <2>1. n' = n - 1
    BY <1>3, CallEnds DEF onSuccess, Return, n
  <2>2. CASE state = "half-open" /\ state' = "half-open"
    <3>1. halfOpenRequests' = halfOpenRequests - 1 /\ panics' = panics
      BY <1>3, <2>2 DEF onSuccess, HalfOpenSuccess, transitionTo
    <3>2. QED
      BY <1>0, <2>1, <2>2, <3>1 DEF SlotsAccounted, n
  <2>3. CASE state' # "half-open"
    BY <2>3 DEF SlotsAccounted
  <2>4. QED
    BY <1>3, <2>2, <2>3 DEF onSuccess
<1>4. ASSUME NEW c \in Callers, onFailure(c) PROVE SlotsAccounted'
  <2>1. state' # "half-open"
    BY <1>4 DEF onFailure, ClosedFailure, transitionTo
  <2>2. QED BY <2>1 DEF SlotsAccounted
<1>5. ASSUME NEW c \in Callers, Panic(c) PROVE SlotsAccounted'
  <2>1. n' = n - 1 /\ panics' = panics + 1 /\ UNCHANGED <<state, halfOpenRequests>>
    BY <1>5, CallEnds DEF Panic, Return, counters, n
  <2>2. QED
    BY <1>0, <2>1 DEF SlotsAccounted, n
<1>6. CASE Reset \/ ForceOpen \/ TimeoutElapses
  <2>1. state' # "half-open"
    BY <1>6 DEF Reset, ForceOpen, TimeoutElapses
  <2>2. QED BY <2>1 DEF SlotsAccounted
<1>7. CASE UNCHANGED vars
  BY <1>7 DEF vars, counters, SlotsAccounted, Running
<1>8. QED
  BY <1>1, <1>2, <1>3, <1>4, <1>5, <1>6, <1>7 DEF Next, Call

\* A half-open slot that is taken belongs to a running call or to one that panicked,
\* however many calls were already under way when the breaker became half-open.
THEOREM SlotsAccountedCorrect == Spec => []SlotsAccounted
<1>1. Init => SlotsAccounted
  BY DEF Init, SlotsAccounted
<1>2. QED
  BY <1>1, NextKeepsSlots, TypeCorrect, PTL DEF Spec

\* So a breaker whose functions do not panic never refuses every call for ever.
THEOREM NeverWedgedCorrect == Spec => []NeverWedged
<1>1. TypeOK /\ SlotsAccounted => NeverWedged
  <2>1. SUFFICES ASSUME TypeOK, SlotsAccounted, panics = 0, Running = {},
                        state = "half-open"
                 PROVE  SlotFree
    BY DEF NeverWedged
  <2>2. Cardinality(Running) = 0
    BY <2>1, FS_EmptySet
  <2>3. QED
    BY <2>1, <2>2, ConfigAssumption DEF SlotsAccounted, SlotFree, TypeOK
<1>2. QED
  BY <1>1, TypeCorrect, SlotsAccountedCorrect, PTL
=============================================================================
