---------------------------- MODULE HealthProofs ----------------------------
(***************************************************************************)
(* What is proved of the health checker, for any checks, probes and number *)
(* of check goroutines.                                                    *)
(*                                                                         *)
(* TypeOK says of a probe that waits that its goroutine's channel is still *)
(* its own.  That is inductive once the slots are typed too: whose they    *)
(* are, and that one with an owner carries a status; a free one has none,  *)
(* so that no goroutine is started over a channel somebody waits for.      *)
(***************************************************************************)
EXTENDS Health, TLAPS

Calls ==
  [stage : {"idle", "next", "waiting", "store"}, all : BOOLEAN,
   left : SUBSET (Names \X Kinds), name : Names \cup {"none"}, run : Nat,
   result : Statuses \cup {"none"}, answers : SUBSET Statuses]

Slots ==
  [state : {"free", "running", "sent", "hung"}, status : Statuses \cup {"none"},
   owner : Probes \cup {"none"}]

Typed ==
  /\ checks \in [Names -> Kinds \cup {"none"}]
  /\ results \in [Names -> Statuses \cup {"none"}]
  /\ call \in [Probes -> Calls]
  /\ run \in [Runs -> Slots]
  /\ events \in 0..MaxEvents

\* A probe that waits does so for a goroutine of its own.
WaitsForItsOwn ==
  \A p \in Probes : call[p].stage = "waiting" =>
    /\ call[p].run \in Runs /\ run[call[p].run].owner = p
    /\ call[p].name \in Names

\* What is about to be cached is a status, under a name.
StoresAStatus ==
  \A p \in Probes : call[p].stage = "store" =>
    call[p].name \in Names /\ call[p].result \in Statuses

\* A goroutine that somebody waits for has a status to send.
OwnedHasStatus == \A r \in Runs : run[r].owner # "none" => run[r].status \in Statuses

HealthInv == Typed /\ WaitsForItsOwn /\ StoresAStatus /\ OwnedHasStatus

-----------------------------------------------------------------------------
(***************************************************************************)
(* A composite check answers one of its sub-checks' statuses, or Healthy:  *)
(* among finitely many statuses there is a last (health.go, the Worst of   *)
(* CompositeCheck).                                                        *)
(***************************************************************************)
LEMMA CompositeIsAStatus ==
  ASSUME NEW S \in SUBSET Statuses
  PROVE  CompositeCheck(S) \in S \cup {"Healthy"}
<1> DEFINE T == S \cup {"Healthy"}
<1>0. T \subseteq {"Healthy", "Degraded", "Unhealthy", "Unknown"}
  BY DEF Statuses
<1>1. /\ Rank("Healthy") = 0 /\ Rank("Degraded") = 1
      /\ Rank("Unhealthy") = 2 /\ Rank("Unknown") = 3
  BY DEF Rank
<1>2. \E s \in T : \A t \in T : Rank(t) <= Rank(s)
  <2>1. CASE "Unknown" \in T
    BY <2>1, <1>0, <1>1
  <2>2. CASE "Unknown" \notin T /\ "Unhealthy" \in T
    BY <2>2, <1>0, <1>1
  <2>3. CASE "Unknown" \notin T /\ "Unhealthy" \notin T /\ "Degraded" \in T
    BY <2>3, <1>0, <1>1
  <2>4. CASE "Unknown" \notin T /\ "Unhealthy" \notin T /\ "Degraded" \notin T
    BY <2>4, <1>0, <1>1
  <2> QED
    BY <2>1, <2>2, <2>3, <2>4
<1> QED
  BY <1>2 DEF CompositeCheck

\* Whatever its kind, a registered check answers one of the statuses.
LEMMA OutcomesAreStatuses ==
  ASSUME NEW kind \in Kinds
  PROVE  Outcomes(kind) \subseteq Statuses
<1>1. \A c : HTTPCheck(c) \in Statuses
  BY DEF HTTPCheck, Statuses
<1>2. \A v : ThresholdCheck(v, 1, 2) \in Statuses
  BY DEF ThresholdCheck, Statuses
<1>3. ASSUME NEW c, NEW s \in {"Healthy", "Unknown"}
      PROVE  CompositeCheck({HTTPCheck(c), s}) \in Statuses
  <2>1. {HTTPCheck(c), s} \in SUBSET Statuses
    BY <1>1 DEF Statuses
  <2> QED
    BY <2>1, CompositeIsAStatus DEF Statuses
<1>4. kind \in {"ping", "http", "threshold", "composite", "broken"}
  BY BoundsAssumption
<1>5. CASE kind = "ping"
  BY <1>5 DEF Outcomes, Statuses
<1>6. CASE kind = "http"
  BY <1>6, <1>1 DEF Outcomes
<1>7. CASE kind = "threshold"
  BY <1>7, <1>2 DEF Outcomes
<1>8. CASE kind = "composite"
  BY <1>8, <1>3 DEF Outcomes
<1>9. CASE kind = "broken"
  BY <1>9 DEF Outcomes, Statuses
<1> QED
  BY <1>4, <1>5, <1>6, <1>7, <1>8, <1>9

LEMMA Constants ==
  /\ Idle \in Calls /\ Free \in Slots
  /\ \A kind \in Kinds : kind # "none"
  /\ \A s \in Statuses : s # "none"
  /\ \A p \in Probes : p # "none"
BY BoundsAssumption DEF Idle, Calls, Free, Slots, Statuses

-----------------------------------------------------------------------------
LEMMA InitHealth == Init => HealthInv
BY Constants, BoundsAssumption
DEF Init, HealthInv, Typed, WaitsForItsOwn, StoresAStatus, OwnedHasStatus, Idle, Free

\* Registrations, reports and the expiry of results touch neither calls nor slots.
LEMMA MapsKeepHealth ==
  ASSUME HealthInv, UNCHANGED <<call, run>>,
         checks' \in [Names -> Kinds \cup {"none"}],
         results' \in [Names -> Statuses \cup {"none"}],
         events' \in 0..MaxEvents
  PROVE  HealthInv'
BY DEF HealthInv, Typed, WaitsForItsOwn, StoresAStatus, OwnedHasStatus

LEMMA EventBound ==
  ASSUME Event, events \in 0..MaxEvents
  PROVE  events' \in 0..MaxEvents
BY BoundsAssumption DEF Event

\* A probe that starts a call, or returns from one, waits for nothing.
LEMMA CheckAllHealth ==
  ASSUME HealthInv, NEW p \in Probes,
         CheckAll(p) \/ Return(p) \/ \E n \in Names : Check(p, n)
  PROVE  HealthInv'
<1> USE DEF HealthInv
<1>1. Registered \subseteq Names \X Kinds
  BY DEF Registered, Typed
<1>2. PICK c : c \in Calls /\ c.stage \in {"idle", "next"} /\ call' = [call EXCEPT ![p] = c]
  <2>1. CASE CheckAll(p)
    <3> DEFINE c == [Idle EXCEPT !.stage = "next", !.all = TRUE, !.left = Registered]
    <3>1. c \in Calls /\ c.stage = "next"
      BY <1>1 DEF Idle, Calls
    <3> QED
      BY <2>1, <3>1 DEF CheckAll
  <2>2. CASE Return(p)
    BY <2>2, Constants DEF Return, Idle
  <2>3. ASSUME NEW n \in Names, Check(p, n)
        PROVE  \E c : c \in Calls /\ c.stage \in {"idle", "next"}
                        /\ call' = [call EXCEPT ![p] = c]
    <3> DEFINE left == {<<n, checks[n]>>}
               c == [Idle EXCEPT !.stage = "next", !.left = left]
    <3>0. checks[n] \in Kinds
      BY <2>3 DEF Check, Typed
    <3>1. left \in SUBSET (Names \X Kinds)
      BY <3>0
    <3>2. call' = [call EXCEPT ![p] = c]
      BY <2>3 DEF Check
    <3> HIDE DEF left
    <3>3. c \in Calls /\ c.stage = "next"
      BY <3>1 DEF Idle, Calls
    <3> HIDE DEF c
    <3> QED
      BY <3>2, <3>3
  <2> QED
    BY <2>1, <2>2, <2>3
<1>3. UNCHANGED <<checks, results, run>> /\ events' \in 0..MaxEvents
  BY EventBound DEF CheckAll, Return, Check, Typed
<1>4. Typed'
  BY <1>2, <1>3 DEF Typed
<1>5. \A q \in Probes : q # p => call'[q] = call[q]
  BY <1>2 DEF Typed
<1>6. call'[p].stage \notin {"waiting", "store"}
  BY <1>2 DEF Typed
<1>7. WaitsForItsOwn' /\ StoresAStatus' /\ OwnedHasStatus'
  BY <1>3, <1>5, <1>6 DEF WaitsForItsOwn, StoresAStatus, OwnedHasStatus
<1> QED
  BY <1>4, <1>7

\* A cached result is added to the answers; a goroutine starts in a free slot.
LEMMA RunCheckHealth ==
  ASSUME HealthInv, NEW p \in Probes, NEW n \in Names, NEW k \in Kinds, runCheck(p, n, k)
  PROVE  HealthInv'
<1> USE DEF HealthInv
<1> DEFINE rest == [call[p] EXCEPT !.left = @ \ {<<n, k>>}]
<1>1. call[p] \in Calls /\ rest \in Calls /\ rest.name = call[p].name
  BY DEF Typed, Calls
<1>2. UNCHANGED <<checks, results, events>>
  BY DEF runCheck
<1>3. CASE results[n] # "none" /\ call' = [call EXCEPT ![p] = Answer(rest, results[n])] /\ UNCHANGED run
  <2>1. results[n] \in Statuses
    BY <1>3 DEF Typed
  <2>2. Answer(rest, results[n]) \in Calls /\ Answer(rest, results[n]).stage = "next"
    BY <1>1, <2>1 DEF Answer, Calls
  <2> HIDE DEF rest
  <2>3. Typed'
    BY <1>2, <1>3, <2>2 DEF Typed
  <2>4. \A q \in Probes : q # p => call'[q] = call[q]
    BY <1>3 DEF Typed
  <2>5. call'[p].stage = "next"
    BY <1>3, <2>2 DEF Typed
  <2> QED
    BY <1>2, <1>3, <2>3, <2>4, <2>5 DEF WaitsForItsOwn, StoresAStatus, OwnedHasStatus
<1>4. ASSUME NEW r \in FirstFree, NEW s \in Outcomes(k),
             run' = [run EXCEPT ![r] = [state |-> "running", status |-> s, owner |-> p]],
             call' = [call EXCEPT ![p] = [rest EXCEPT !.stage = "waiting", !.name = n, !.run = r]]
      PROVE  HealthInv'
  <2> DEFINE c == [rest EXCEPT !.stage = "waiting", !.name = n, !.run = r]
             g == [state |-> "running", status |-> s, owner |-> p]
  <2>1. r \in Runs /\ r \in Nat /\ run[r].owner = "none"
    BY BoundsAssumption DEF FirstFree, Free
  <2>2. s \in Statuses
    BY OutcomesAreStatuses
  <2>3. c \in Calls /\ c.stage = "waiting" /\ c.name = n /\ c.run = r
    BY <1>1, <2>1 DEF Calls
  <2>4. g \in Slots /\ g.owner = p /\ g.status = s
    BY <2>2 DEF Slots
  <2>5. call' = [call EXCEPT ![p] = c] /\ run' = [run EXCEPT ![r] = g]
    BY <1>4
  <2> HIDE DEF c, g, rest
  <2>6. Typed'
    BY <1>2, <2>1, <2>3, <2>4, <2>5 DEF Typed
  <2>7. /\ \A q \in Probes : q # p => call'[q] = call[q]
        /\ \A q \in Runs : q # r => run'[q] = run[q]
        /\ call'[p] = c /\ run'[r] = g
    BY <2>1, <2>5 DEF Typed
  <2>8. WaitsForItsOwn'
    <3> SUFFICES ASSUME NEW q \in Probes, call'[q].stage = "waiting"
                 PROVE  call'[q].run \in Runs /\ run'[call'[q].run].owner = q
                          /\ call'[q].name \in Names
      BY DEF WaitsForItsOwn
    <3>1. CASE q = p
      BY <3>1, <2>1, <2>3, <2>4, <2>7
    <3>2. CASE q # p
      <4>1. call[q].run \in Runs /\ run[call[q].run].owner = q /\ call[q].name \in Names
        BY <3>2, <2>7 DEF WaitsForItsOwn
      <4>2. call[q].run # r
        BY <4>1, <2>1, BoundsAssumption
      <4> QED
        BY <3>2, <4>1, <4>2, <2>7
    <3> QED
      BY <3>1, <3>2
  <2>9. StoresAStatus' /\ OwnedHasStatus'
    BY <2>2, <2>3, <2>4, <2>7 DEF StoresAStatus, OwnedHasStatus
  <2> QED
    BY <2>6, <2>8, <2>9
<1> QED
  BY <1>3, <1>4 DEF runCheck

\* A goroutine that sends, hangs or ends keeps its owner and its status.
LEMMA GoroutineHealth ==
  ASSUME HealthInv, NEW r \in Runs, Returns(r) \/ Hangs(r)
  PROVE  HealthInv'
<1> USE DEF HealthInv
<1>1. run[r] \in Slots
  BY DEF Typed
<1>2. UNCHANGED <<checks, results, call>> /\ events' \in 0..MaxEvents
  BY EventBound DEF Returns, Hangs, Typed
<1>3. PICK g \in Slots : /\ run' = [run EXCEPT ![r] = g]
                         /\ g.owner = run[r].owner
                         /\ g.owner # "none" => g.status = run[r].status
  <2>1. CASE Returns(r) /\ run[r].owner = "none"
    <3>1. run' = [run EXCEPT ![r] = Free] /\ Free.owner = "none"
      BY <2>1 DEF Returns, Free, Typed
    <3> QED
      BY <2>1, <3>1, Constants
  <2>2. CASE Returns(r) /\ run[r].owner # "none"
    <3> DEFINE g == [run[r] EXCEPT !.state = "sent"]
    <3>1. run' = [run EXCEPT ![r] = g]
      BY <2>2 DEF Returns, Typed
    <3>2. g \in Slots /\ g.owner = run[r].owner /\ g.status = run[r].status
      BY <1>1 DEF Slots
    <3> QED
      BY <3>1, <3>2
  <2>3. CASE Hangs(r)
    <3> DEFINE g == [run[r] EXCEPT !.state = "hung"]
    <3>1. run' = [run EXCEPT ![r] = g]
      BY <2>3 DEF Hangs, Typed
    <3>2. g \in Slots /\ g.owner = run[r].owner /\ g.status = run[r].status
      BY <1>1 DEF Slots
    <3> QED
      BY <3>1, <3>2
  <2> QED
    BY <2>1, <2>2, <2>3
<1>4. Typed'
  BY <1>2, <1>3 DEF Typed
<1>5. \A q \in Runs : run'[q].owner = run[q].owner
                        /\ (run'[q].owner # "none" => run'[q].status = run[q].status)
  BY <1>3 DEF Typed
<1> QED
  BY <1>2, <1>4, <1>5 DEF WaitsForItsOwn, StoresAStatus, OwnedHasStatus

\* The probe gets an answer, or gives up: nobody waits for its slot any more.
LEMMA SelectHealth ==
  ASSUME HealthInv, NEW p \in Probes, Receive(p) \/ Timeout(p)
  PROVE  HealthInv'
<1> USE DEF HealthInv
<1> DEFINE r == call[p].run
<1>1. /\ call[p].stage = "waiting" /\ UNCHANGED <<checks, results, events>>
      /\ call[p] \in Calls
  BY DEF Receive, Timeout, Typed
<1>2. r \in Runs /\ run[r].owner = p /\ call[p].name \in Names /\ run[r] \in Slots
  BY <1>1 DEF WaitsForItsOwn, Typed
<1>3. run[r].status \in Statuses
  BY <1>2, BoundsAssumption DEF OwnedHasStatus
<1>4. PICK answer \in Statuses :
        call' = [call EXCEPT ![p] = [call[p] EXCEPT !.stage = "store", !.result = answer]]
  <2>1. CASE Receive(p)
    BY <2>1, <1>3 DEF Receive, Typed
  <2>2. CASE Timeout(p)
    <3>1. "Unhealthy" \in Statuses
      BY DEF Statuses
    <3> QED
      BY <2>2, <3>1 DEF Timeout, Typed
  <2> QED
    BY <2>1, <2>2
<1>5. PICK g \in Slots : run' = [run EXCEPT ![r] = g] /\ g.owner = "none"
  <2>1. CASE run' = [run EXCEPT ![r] = Free]
    BY <2>1, Constants DEF Free
  <2>2. CASE run' = [run EXCEPT ![r] = [run[r] EXCEPT !.owner = "none", !.status = "none"]]
    <3> DEFINE g == [run[r] EXCEPT !.owner = "none", !.status = "none"]
    <3>1. g \in Slots /\ g.owner = "none"
      BY <1>2 DEF Slots
    <3> QED
      BY <2>2, <3>1
  <2>3. \/ run' = [run EXCEPT ![r] = Free]
        \/ run' = [run EXCEPT ![r] = IF run[r].state = "sent" THEN Free
                          ELSE [run[r] EXCEPT !.owner = "none", !.status = "none"]]
    BY <1>2 DEF Receive, Timeout, Typed
  <2> QED
    BY <2>1, <2>2, <2>3
<1> DEFINE c == [call[p] EXCEPT !.stage = "store", !.result = answer]
<1>6. c \in Calls /\ c.stage = "store" /\ c.result = answer /\ c.name = call[p].name
  BY <1>1, <1>4 DEF Calls
<1>7. call' = [call EXCEPT ![p] = c]
  BY <1>4
<1> HIDE DEF c, r
<1>8. Typed'
  BY <1>1, <1>2, <1>5, <1>6, <1>7 DEF Typed
<1>9. /\ \A q \in Probes : q # p => call'[q] = call[q]
      /\ \A q \in Runs : q # r => run'[q] = run[q]
      /\ call'[p] = c /\ run'[r] = g
  BY <1>2, <1>5, <1>7 DEF Typed
<1>10. WaitsForItsOwn'
  <2> SUFFICES ASSUME NEW q \in Probes, call'[q].stage = "waiting"
               PROVE  call'[q].run \in Runs /\ run'[call'[q].run].owner = q
                        /\ call'[q].name \in Names
    BY DEF WaitsForItsOwn
  <2>1. q # p /\ call'[q] = call[q]
    BY <1>6, <1>9
  <2>2. call[q].run \in Runs /\ run[call[q].run].owner = q /\ call[q].name \in Names
    BY <2>1 DEF WaitsForItsOwn
  <2>3. call[q].run # r
    BY <2>1, <2>2, <1>2
  <2> QED
    BY <2>1, <2>2, <2>3, <1>9
<1>11. StoresAStatus' /\ OwnedHasStatus'
  BY <1>2, <1>4, <1>5, <1>6, <1>9 DEF StoresAStatus, OwnedHasStatus
<1> QED
  BY <1>8, <1>10, <1>11

\* The status is cached under the name and joins the answers.
LEMMA StoreHealth ==
  ASSUME HealthInv, NEW p \in Probes, Store(p)
  PROVE  HealthInv'
<1> USE DEF HealthInv
<1>1. call[p] \in Calls /\ call[p].name \in Names /\ call[p].result \in Statuses
  BY DEF Store, StoresAStatus, Typed
<1> DEFINE c == [Answer(call[p], call[p].result) EXCEPT !.name = "none", !.run = 0,
                                                        !.result = "none"]
<1>2. c \in Calls /\ c.stage = "next"
  BY <1>1 DEF Answer, Calls
<1>3. call' = [call EXCEPT ![p] = c] /\ UNCHANGED <<checks, run, events>>
  BY DEF Store
<1>4. results' \in [Names -> Statuses \cup {"none"}]
  BY <1>1 DEF Store, Typed
<1> HIDE DEF c
<1>5. Typed'
  BY <1>2, <1>3, <1>4 DEF Typed
<1>6. (\A q \in Probes : q # p => call'[q] = call[q]) /\ call'[p].stage = "next"
  BY <1>2, <1>3 DEF Typed
<1> QED
  BY <1>3, <1>5, <1>6 DEF WaitsForItsOwn, StoresAStatus, OwnedHasStatus

LEMMA NextHealth == HealthInv /\ [Next]_vars => HealthInv'
<1> SUFFICES ASSUME HealthInv, [Next]_vars PROVE HealthInv'
  OBVIOUS
<1>1. ASSUME NEW n \in Names,
             \/ \E k \in Kinds : Register(n, k)
             \/ Unregister(n) \/ Expire(n)
             \/ \E s \in {"Healthy", "Degraded", "Unhealthy"} : SetStatus(n, s)
      PROVE  HealthInv'
  <2>1. UNCHANGED <<call, run>>
    BY <1>1 DEF Register, Unregister, Expire, SetStatus
  <2>2. events' \in 0..MaxEvents
    BY <1>1, EventBound DEF Register, Unregister, Expire, SetStatus, HealthInv, Typed
  <2>3. checks' \in [Names -> Kinds \cup {"none"}]
    BY <1>1 DEF Register, Unregister, Expire, SetStatus, HealthInv, Typed
  <2>4. results' \in [Names -> Statuses \cup {"none"}]
    BY <1>1 DEF Register, Unregister, Expire, SetStatus, HealthInv, Typed, Statuses
  <2> QED
    BY <2>1, <2>2, <2>3, <2>4, MapsKeepHealth
<1>2. CASE UNCHANGED vars
  BY <1>2 DEF vars, HealthInv, Typed, WaitsForItsOwn, StoresAStatus, OwnedHasStatus
<1> QED
  BY <1>1, <1>2, CheckAllHealth, RunCheckHealth, GoroutineHealth, SelectHealth, StoreHealth
  DEF Next

\* The inductive invariant holds of every reachable state, for any constants
\* that satisfy the assumption (health.go: CheckAll, Check and runCheck).
THEOREM HealthInvariance == Spec => []HealthInv
BY InitHealth, NextHealth, PTL DEF Spec

(***************************************************************************)
(* The types; and a probe that waits in the select of runCheck owns the    *)
(* channel it waits on: neither an abandoned goroutine that ends late nor  *)
(* another probe's check takes it over.                                    *)
(***************************************************************************)
THEOREM TypeCorrect == Spec => []TypeOK
<1>1. HealthInv => TypeOK
  BY DEF HealthInv, Typed, Calls, WaitsForItsOwn, TypeOK
<1> QED
  BY <1>1, HealthInvariance, PTL

\* The handlers agree on any set of answers but the empty one.
LEMMA VerdictsOfAnyAnswers ==
  ASSUME NEW answers
  PROVE  SameVerdict(answers)
<1>1. CASE answers = {}
  BY <1>1 DEF SameVerdict, HealthHandler, ReadinessHandler, OverallStatus, IsHealthy
<1>2. CASE answers # {} /\ "Unhealthy" \in answers
  BY <1>2 DEF SameVerdict, HealthHandler, ReadinessHandler, OverallStatus, IsHealthy
<1>3. CASE answers # {} /\ "Unhealthy" \notin answers
  BY <1>3 DEF SameVerdict, HealthHandler, ReadinessHandler, OverallStatus, IsHealthy
<1> QED
  BY <1>1, <1>2, <1>3

(***************************************************************************)
(* Whatever sets of answers the probes have, the two HTTP handlers judge   *)
(* them alike, the empty set excepted (HealthHandler, ReadinessHandler).   *)
(***************************************************************************)
THEOREM VerdictsAgreeCorrect == Spec => []VerdictsAgree
<1>1. VerdictsAgree
  BY VerdictsOfAnyAnswers DEF VerdictsAgree
<1> QED
  BY <1>1, PTL
=============================================================================
