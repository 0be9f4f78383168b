------------------------------- MODULE Health -------------------------------
(***************************************************************************)
(* The health checker of src/pkg/streamline/health.go, its reporter, its   *)
(* ready-made checks and its HTTP handlers.  Probes call CheckAll or Check *)
(* from goroutines of their own; every check runs in one more goroutine,   *)
(* which outlives the call that started it when the check is slow.  The    *)
(* mutex guards the two maps only, never a running check.                  *)
(*                                                                         *)
(* A result is its status; one older than cacheTTL is as good as none.     *)
(***************************************************************************)
EXTENDS Integers, FiniteSets

CONSTANTS
  Names,       \* of health checks and reported components
  Probes,      \* the goroutines that ask
  Runs,        \* bound: the checks that are under way at once
  Kinds,       \* the kinds of check that are registered, see Outcomes
  MaxEvents    \* bound: registrations, reports and checks that never return

ASSUME BoundsAssumption ==
  /\ MaxEvents \in Nat /\ Runs \subseteq Nat
  /\ Kinds \subseteq {"ping", "http", "threshold", "composite", "broken"}
  /\ "none" \notin Names \cup Probes

Statuses == {"Healthy", "Degraded", "Unhealthy", "Unknown"}

VARIABLES
  checks,     \* per name: the kind of the registered check, or "none"
  results,    \* per name: the status that is cached, or "none"
  call,       \* per probe: the call in progress
  run,        \* per slot: a check's goroutine and its channel
  events      \* events so far

vars == <<checks, results, call, run, events>>

-----------------------------------------------------------------------------
\* HealthStatus in its numeric order.
Rank(s) == CASE s = "Healthy" -> 0 [] s = "Degraded" -> 1
             [] s = "Unhealthy" -> 2 [] s = "Unknown" -> 3

HTTPCheck(code) ==
  IF code \in 200..299 THEN "Healthy" ELSE IF code >= 500 THEN "Unhealthy" ELSE "Degraded"

ThresholdCheck(value, healthy, warning) ==
  IF value <= healthy THEN "Healthy" ELSE IF value <= warning THEN "Degraded" ELSE "Unhealthy"

\* Of the sub-checks' statuses, the last in the numeric order.
CompositeCheck(statuses) ==
  CHOOSE s \in statuses \cup {"Healthy"} :
    \A t \in statuses \cup {"Healthy"} : Rank(t) <= Rank(s)

\* What a check of a kind may answer; a request that fails counts as code 599.
Outcomes(kind) ==
  CASE kind = "ping" -> {"Healthy"}
    [] kind = "http" -> {HTTPCheck(c) : c \in {200, 404, 599}}
    [] kind = "threshold" -> {ThresholdCheck(v, 1, 2) : v \in 1..3}
    [] kind = "composite" ->
         {CompositeCheck({HTTPCheck(c), s}) : c \in {200, 404, 599}, s \in {"Healthy", "Unknown"}}
    [] kind = "broken" -> {"Unhealthy"}     \* one that fails or panics, which is recovered

\* What the handlers make of the set of statuses that CheckAll answers.
\* Mutant: a degraded component is not healthy either.
IsHealthyStrict(answers) == answers \cap {"Degraded", "Unhealthy"} = {}

IsHealthy(answers) == "Unhealthy" \notin answers

OverallStatus(answers) ==
  IF answers = {} THEN "Unknown"
  ELSE IF "Unhealthy" \in answers THEN "Unhealthy"
  ELSE IF answers \cap {"Degraded", "Unknown"} # {} THEN "Degraded"
  ELSE "Healthy"

HealthHandler(answers) ==
  IF OverallStatus(answers) \in {"Healthy", "Degraded"} THEN 200 ELSE 503

ReadinessHandler(answers) == IF IsHealthy(answers) THEN 200 ELSE 503

-----------------------------------------------------------------------------
Free == [state |-> "free", status |-> "none", owner |-> "none"]
Idle == [stage |-> "idle", all |-> FALSE, left |-> {}, name |-> "none",
         run |-> 0, result |-> "none", answers |-> {}]

Init ==
  /\ checks \in [Names -> Kinds \cup {"none"}]
  /\ results = [n \in Names |-> "none"]
  /\ call = [p \in Probes |-> Idle]
  /\ run = [r \in Runs |-> Free]
  /\ events = 0

Event == events < MaxEvents /\ events' = events + 1

Register(n, kind) ==
  /\ Event
  /\ checks' = [checks EXCEPT ![n] = kind]
  /\ UNCHANGED <<results, call, run>>

\* Mutant: the result of a name that is gone has no status.
UnregisterHalf(n) ==
  /\ Event
  /\ checks' = [checks EXCEPT ![n] = "none"]
  /\ results' = [results EXCEPT ![n] = ""]
  /\ UNCHANGED <<call, run>>

\* Unregister; Clear of the reporter is the same.
Unregister(n) ==
  /\ Event
  /\ checks' = [checks EXCEPT ![n] = "none"]
  /\ results' = [results EXCEPT ![n] = "none"]
  /\ UNCHANGED <<call, run>>

\* SetStatus, which the reporter calls.
SetStatus(n, status) ==
  /\ Event
  /\ results' = [results EXCEPT ![n] = status]
  /\ UNCHANGED <<checks, call, run>>

\* Mutant: only what is wrong expires.
ExpireFailures(n) ==
  /\ results[n] \in {"Degraded", "Unhealthy"}
  /\ results' = [results EXCEPT ![n] = "none"]
  /\ UNCHANGED <<checks, call, run, events>>

\* cacheTTL has passed since the result was stamped.
Expire(n) ==
  /\ results[n] # "none"
  /\ results' = [results EXCEPT ![n] = "none"]
  /\ UNCHANGED <<checks, call, run, events>>

(***************************************************************************)
(* Check and CheckAll: the checks are copied under the lock and then run   *)
(* one after the other; a map is walked in any order.                      *)
(***************************************************************************)
Registered == {<<n, checks[n]>> : n \in {m \in Names : checks[m] # "none"}}

CheckAll(p) ==
  /\ call[p] = Idle
  /\ call' = [call EXCEPT ![p] = [Idle EXCEPT !.stage = "next", !.all = TRUE,
                                              !.left = Registered]]
  /\ UNCHANGED <<checks, results, run, events>>

Check(p, n) ==
  /\ call[p] = Idle /\ checks[n] # "none" /\ Event
  /\ call' = [call EXCEPT ![p] = [Idle EXCEPT !.stage = "next", !.left = {<<n, checks[n]>>}]]
  /\ UNCHANGED <<checks, results, run>>

Ready(p) == call[p].stage = "next" /\ call[p].left = {}

Return(p) ==
  /\ Ready(p)
  /\ call' = [call EXCEPT ![p] = Idle]
  /\ UNCHANGED <<checks, results, run, events>>

Answer(c, status) == [c EXCEPT !.stage = "next", !.answers = @ \cup {status}]

\* Goroutines have no names: the first slot will do.
FirstFree == {r \in Runs : run[r] = Free /\ \A q \in Runs : run[q] = Free => r <= q}

\* runCheck: the cached result, or a goroutine that runs the check.
runCheck(p, n, kind) ==
  LET rest == [call[p] EXCEPT !.left = @ \ {<<n, kind>>}] IN
  /\ call[p].stage = "next" /\ <<n, kind>> \in call[p].left
  /\ \/ /\ results[n] # "none"
        /\ call' = [call EXCEPT ![p] = Answer(rest, results[n])]
        /\ UNCHANGED run
     \/ \E r \in FirstFree, s \in Outcomes(kind) :
          /\ results[n] = "none"
          /\ run' = [run EXCEPT ![r] = [state |-> "running", status |-> s, owner |-> p]]
          /\ call' = [call EXCEPT ![p] = [rest EXCEPT !.stage = "waiting", !.name = n,
                                                      !.run = r]]
  /\ UNCHANGED <<checks, results, events>>

\* Mutant: the channel has no buffer.
RoomUnbuffered(r) == run[r].owner # "none"

\* The channel has room for the one answer.
Room(r) == run[r].state = "running"

(***************************************************************************)
(* The check returns, or panics, with the outcome it was given when it     *)
(* started; the goroutine sends it and ends, and an abandoned channel goes *)
(* with it.                                                                *)
(***************************************************************************)
Returns(r) ==
  /\ run[r].state = "running" /\ Room(r)
  /\ run' = [run EXCEPT ![r] = IF @.owner = "none" THEN Free ELSE [@ EXCEPT !.state = "sent"]]
  /\ UNCHANGED <<checks, results, call, events>>

\* It never will.
Hangs(r) ==
  /\ run[r].state = "running" /\ Event
  /\ run' = [run EXCEPT ![r].state = "hung"]
  /\ UNCHANGED <<checks, results, call>>

Receive(p) ==
  LET r == call[p].run IN
  /\ call[p].stage = "waiting" /\ run[r].state = "sent"
  /\ call' = [call EXCEPT ![p].stage = "store", ![p].result = run[r].status]
  /\ run' = [run EXCEPT ![r] = Free]
  /\ UNCHANGED <<checks, results, events>>

\* Mutant: only a check that has answered by then is given up.
TimeoutOfAnswered(p) ==
  /\ call[p].stage = "waiting" /\ run[call[p].run].state = "sent"
  /\ call' = [call EXCEPT ![p].stage = "store", ![p].result = "Unhealthy"]
  /\ run' = [run EXCEPT ![call[p].run] = Free]
  /\ UNCHANGED <<checks, results, events>>

\* The check's context is done first; select may see it so with the answer there.
Timeout(p) ==
  /\ call[p].stage = "waiting"
  /\ call' = [call EXCEPT ![p].stage = "store", ![p].result = "Unhealthy"]
  /\ run' = [run EXCEPT ![call[p].run] = IF @.state = "sent" THEN Free
                                         ELSE [@ EXCEPT !.owner = "none", !.status = "none"]]
  /\ UNCHANGED <<checks, results, events>>

\* The result is cached under the name, registered or not by now.
Store(p) ==
  LET c == call[p] IN
  /\ c.stage = "store"
  /\ results' = [results EXCEPT ![c.name] = c.result]
  /\ call' = [call EXCEPT ![p] =
                [Answer(c, c.result) EXCEPT
                   !.name = "none", !.run = 0, !.result = "none"]]
  /\ UNCHANGED <<checks, run, events>>

Next ==
  \/ \E n \in Names :
       \/ \E k \in Kinds : Register(n, k)
       \/ Unregister(n) \/ Expire(n)
       \/ \E s \in {"Healthy", "Degraded", "Unhealthy"} : SetStatus(n, s)
  \/ \E p \in Probes :
       \/ CheckAll(p) \/ Return(p) \/ Receive(p) \/ Timeout(p) \/ Store(p)
       \/ \E n \in Names : Check(p, n) \/ \E k \in Kinds : runCheck(p, n, k)
  \/ \E r \in Runs : Returns(r) \/ Hangs(r)

Spec == Init /\ [][Next]_vars

(***************************************************************************)
(* Probes keep asking, time passes, and goroutines run, other than those   *)
(* that Hangs has taken; an answer may always be late.  The fairness of    *)
(* runCheck is strong so that the bound on the slots starves no probe.     *)
(***************************************************************************)
Fairness ==
  /\ \A n \in Names : WF_vars(Expire(n))
  /\ \A p \in Probes :
       /\ WF_vars(CheckAll(p)) /\ WF_vars(Return(p)) /\ WF_vars(Receive(p) \/ Timeout(p))
       /\ WF_vars(Store(p)) /\ SF_vars(\E n \in Names, k \in Kinds : runCheck(p, n, k))
  /\ \A r \in Runs : WF_vars(Returns(r))

FairSpec == Spec /\ Fairness

-----------------------------------------------------------------------------
TypeOK ==
  /\ checks \in [Names -> Kinds \cup {"none"}]
  /\ results \in [Names -> Statuses \cup {"none"}]
  /\ \A p \in Probes : /\ call[p].stage \in {"idle", "next", "waiting", "store"}
                       /\ call[p].answers \subseteq Statuses
                       /\ call[p].stage = "waiting" => run[call[p].run].owner = p
  /\ events \in 0..MaxEvents

(***************************************************************************)
(* Every Check and CheckAll returns, whatever the checks do: hang, panic,  *)
(* ignore their context (the select of runCheck).                          *)
(***************************************************************************)
CallsReturn == \A p \in Probes : call[p] # Idle ~> call[p] = Idle

(***************************************************************************)
(* A goroutine whose check does not hang ends, also when nobody waits for  *)
(* the answer any more (the buffered channel of runCheck).                 *)
(***************************************************************************)
GoroutinesEnd == \A r \in Runs : run[r].state = "running" ~> run[r].state # "running"

(***************************************************************************)
(* A registered check that only ever fails makes every probe fail in the   *)
(* end: no older answer, report, overlapping or abandoned check hides it   *)
(* for longer than a cached result lives.                                  *)
(***************************************************************************)
BadNewsTravels ==
  \A n \in Names : <>[](checks[n] = "broken") =>
    <>[](\A p \in Probes : Ready(p) /\ call[p].all =>
           HealthHandler(call[p].answers) = 503 /\ ReadinessHandler(call[p].answers) = 503)

\* Ready, and healthy unless nothing is checked; or neither.
SameVerdict(answers) ==
  IF answers = {} THEN HealthHandler(answers) = 503 /\ ReadinessHandler(answers) = 200
                  ELSE HealthHandler(answers) = ReadinessHandler(answers)

(***************************************************************************)
(* The two handlers judge the same answers alike, also answers as mixed as *)
(* those of several calls, but for an empty set of checks, which is ready  *)
(* without being healthy.                                                  *)
(***************************************************************************)
VerdictsAgree ==
  \A P \in SUBSET {p \in Probes : Ready(p)} : SameVerdict(UNION {call[p].answers : p \in P})
=============================================================================
