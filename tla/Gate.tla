-------------------------------- MODULE Gate --------------------------------
(***************************************************************************)
(* A Sync that is guarded by prerequisites, as doc.go shows it, under the  *)
(* error path of reconcileNormal with a backoff tracker: dependencies      *)
(* change between one Get and the next, time passes, and a janitor cleans  *)
(* up the tracker.  A time is kept as an age or as the ticks left, so that *)
(* time has no end; an age stops at AgeCap, beyond which nobody looks.     *)
(***************************************************************************)
EXTENDS Prerequisites
E == INSTANCE Errors
B == INSTANCE Backoff

CONSTANTS
  Keys,          \* reconciled objects, which share the tracker
  Deps,          \* objects they depend on
  Setups,        \* the handler's prerequisites and the tracker's strategy, as
                 \* [groups, strategy]
  Failures,      \* what Sync may fail with: sequences of errors, an ErrorList
  DefaultRetry, RateLimit,    \* the delays of the checker and of the workqueue
  MaxAge,        \* what Cleanup is called with
  AgeCap,
  MaxEvents      \* bound: changes of the dependencies, failures and triggers

\* By "All" or "Any", of some prerequisites.
Groups ==
  [by : {"All", "Any"},
   of : Seq([kind : Kinds, on : Deps, type : STRING, minElapsed : Nat]) \ {<<>>}]

ASSUME SetupsAssumption ==
  \A s \in Setups : s.groups \in Seq(Groups) /\ s.strategy \in B!Strategies

ASSUME FailuresAssumption == Failures \subseteq Seq(E!Errors) \ {<<>>}

ASSUME DelaysAssumption ==
  /\ {DefaultRetry, RateLimit} \subseteq Nat \ {0} /\ MaxEvents \in Nat
  /\ \A s \in Setups : B!MaxDelay(s.strategy) <= MaxAge
  /\ MaxAge < AgeCap /\ {MaxAge, AgeCap} \subseteq Nat

VARIABLES
  objs,      \* per dependency: the object, see Prerequisites
  log,       \* per dependency and condition type: the newest tracked transition
  sync,      \* per key: where its reconcile is
  entries,   \* the tracker's entries
  setup, elapsed,      \* one of Setups, and whether MaxElapsedTime is over
  events     \* events so far

vars == <<objs, log, sync, entries, setup, elapsed, events>>

Stages == {"waiting", "checking", "working", "failed", "done", "stopped"}

\* wait: the ticks left; backoff: the tracker gave them; subs, results: what this
\* CheckAll has found in the group it is at and in those before; errs: ErrorList;
\* calm: no dependency has changed and no Get failed since CheckAll began.
NotYet == [stage |-> "waiting", wait |-> 0, backoff |-> FALSE, subs |-> <<>>,
           results |-> <<>>, errs |-> <<>>, calm |-> FALSE]

NoTransition == [old |-> "Unknown", new |-> "Unknown", time |-> 0]

Init ==
  /\ objs \in [Deps -> [exists : {TRUE}, keys : {{}}, conditional : BOOLEAN, conds : {<<>>}]]
  /\ \A d \in Deps : objs[d].conditional = (d = "db")
  /\ log = [d \in Deps |-> [t \in ConditionTypes |-> NoTransition]]
  /\ sync = [k \in Keys |-> NotYet]
  /\ entries = [k \in {} |-> 0]
  /\ setup \in Setups /\ elapsed = FALSE
  /\ events = 0

Event == events < MaxEvents /\ events' = events + 1

(***************************************************************************)
(* The dependencies, whose controllers use the condition helper.           *)
(***************************************************************************)
\* What a heartbeat does not change.
Seen(o) == [o EXCEPT !.conds = [i \in DOMAIN @ |-> [@[i] EXCEPT !.time = 0]]]

\* A new version of a dependency; what changes its conditions tracks each type.
Becomes(d, obj) ==
  /\ objs' = [objs EXCEPT ![d] = obj]
  /\ log' = [log EXCEPT ![d] = [t \in ConditionTypes |->
               Track(@[t], StatusOf(objs[d].conds, t), StatusOf(obj.conds, t), 0)]]
  /\ IF Seen(obj) = Seen(objs[d]) THEN UNCHANGED <<sync, events>>
     ELSE Event /\ sync' = [k \in Keys |-> [sync[k] EXCEPT !.calm = FALSE]]
  /\ UNCHANGED <<entries, setup, elapsed>>

\* With the status it has already, a heartbeat: as often as it likes.
SetCondition(d, t, status) ==
  /\ objs[d].exists /\ objs[d].conditional
  /\ Becomes(d, [objs[d] EXCEPT !.conds = Set(@, t, status, 0)])

Withdraw(d, t) ==
  /\ HasCondition(objs[d].conds, t)
  /\ Becomes(d, [objs[d] EXCEPT !.conds = RemoveCondition(@, t)])

\* A user deletes it, recreates it, or edits its data.
DeleteOrCreate(d) ==
  Becomes(d, [objs[d] EXCEPT !.exists = ~@, !.keys = {}, !.conds = <<>>])

Edit(d, keys) ==
  /\ objs[d].exists /\ ~objs[d].conditional /\ keys # objs[d].keys
  /\ Becomes(d, [objs[d] EXCEPT !.keys = keys])

-----------------------------------------------------------------------------
Step(k, s) ==
  /\ sync' = [sync EXCEPT ![k] = s]
  /\ UNCHANGED <<objs, log, setup, elapsed>>

\* The workqueue: a delay has passed, or a watch event comes first.
Start(k) ==
  /\ sync[k].stage = "waiting" /\ sync[k].wait = 0
  /\ Step(k, [NotYet EXCEPT !.stage = "checking", !.calm = TRUE])
  /\ UNCHANGED <<entries, events>>

Trigger(k) ==
  /\ sync[k].stage \in {"waiting", "done", "stopped"} /\ sync[k] # NotYet /\ Event
  /\ Step(k, NotYet)
  /\ UNCHANGED entries

Group(k) == setup.groups[Len(sync[k].results) + 1]
Checked(k) == Len(sync[k].results) = Len(setup.groups)

\* A prerequisite has answered; Any looks no further when one is satisfied.
Answered(s, group, result) ==
  LET subs == Append(s.subs, result) IN
  IF (group.by = "Any" /\ result.satisfied) \/ Len(subs) = Len(group.of)
  THEN [s EXCEPT !.subs = <<>>,
                 !.results = Append(@, IF group.by = "Any" THEN AnyOf(subs) ELSE AllOf(subs))]
  ELSE [s EXCEPT !.subs = subs]

CheckNext(k) ==
  /\ sync[k].stage = "checking" /\ ~Checked(k)
  /\ LET p == Group(k).of[Len(sync[k].subs) + 1]
     IN Step(k, Answered(sync[k], Group(k), Check(p, objs[p.on])))
  /\ UNCHANGED <<entries, events>>

\* The Get fails otherwise than with NotFound.
CheckFails(k) ==
  /\ sync[k].stage = "checking" /\ ~Checked(k) /\ Event
  /\ Step(k, Answered([sync[k] EXCEPT !.calm = FALSE], Group(k), Unsatisfied(0)))
  /\ UNCHANGED entries

Wait(delay, backoff) == [NotYet EXCEPT !.wait = delay, !.backoff = backoff]

\* CheckAll is through; RequeueAfter is as long as GetRetryAfter says.
Decide(k) ==
  /\ sync[k].stage = "checking" /\ Checked(k)
  /\ Step(k, IF AllSatisfied(sync[k].results) THEN [NotYet EXCEPT !.stage = "working"]
             ELSE Wait(GetRetryAfter(sync[k].results, DefaultRetry), FALSE))
  /\ entries' = IF AllSatisfied(sync[k].results) THEN entries
                ELSE B!RecordSuccess(entries, k)     \* Sync returned no error
  /\ UNCHANGED events

Succeed(k) ==
  /\ sync[k].stage = "working"
  /\ Step(k, [NotYet EXCEPT !.stage = "done"])
  /\ entries' = B!RecordSuccess(entries, k)
  /\ UNCHANGED events

Fail(k, errs) ==
  /\ sync[k].stage = "working" /\ Event
  /\ Step(k, [NotYet EXCEPT !.stage = "failed", !.errs = errs])
  /\ entries' = B!RecordFailure(entries, k)

\* Mutant: what has no delay is not tried again.
RequeueByDelay(k) ==
  LET hint == E!GetRetryAfter(E!ListError(sync[k].errs))
  IN /\ sync[k].stage = "failed"
     /\ \E delay \in B!GetBackoff(entries, k, setup.strategy, elapsed) :
          Step(k, IF hint > 0 THEN Wait(hint, FALSE)
                  ELSE IF delay > 0 THEN Wait(delay, TRUE)
                  ELSE [NotYet EXCEPT !.stage = "stopped"])
     /\ UNCHANGED <<entries, events>>

\* After RecordFailure: the error's own delay, else the tracker's, else by class.
Requeue(k) ==
  LET err == E!ListError(sync[k].errs)
      hint == E!GetRetryAfter(err)
  IN /\ sync[k].stage = "failed"
     /\ \E delay \in B!GetBackoff(entries, k, setup.strategy, elapsed) :
          Step(k, IF hint > 0 THEN Wait(hint, FALSE)
                  ELSE IF delay > 0 THEN Wait(delay, TRUE)
                  ELSE IF E!IsPermanent(err) THEN [NotYet EXCEPT !.stage = "stopped"]
                  ELSE Wait(RateLimit, FALSE))
     /\ UNCHANGED <<entries, events>>

-----------------------------------------------------------------------------
\* The tracker's other users.
Clean ==
  /\ entries' = B!Cleanup(entries, MaxAge)
  /\ UNCHANGED <<objs, log, sync, setup, elapsed, events>>

ResetKeys(keys) ==
  /\ entries' = B!ResetKeys(entries, keys)
  /\ Event
  /\ UNCHANGED <<objs, log, sync, setup, elapsed>>

Older(age) == IF age < AgeCap THEN age + 1 ELSE age
Aged(conds) == [i \in DOMAIN conds |-> [conds[i] EXCEPT !.time = Older(@)]]

\* Time passes, but not between RecordFailure and GetBackoff.
Tick ==
  /\ \A k \in Keys : sync[k].stage # "failed"
  /\ objs' = [d \in Deps |-> [objs[d] EXCEPT !.conds = Aged(@)]]
  /\ log' = [d \in Deps |-> [t \in ConditionTypes |-> [log[d][t] EXCEPT !.time = Older(@)]]]
  /\ sync' = [k \in Keys |-> [sync[k] EXCEPT !.wait = IF @ > 0 THEN @ - 1 ELSE 0]]
  /\ entries' = [k \in DOMAIN entries |-> [entries[k] EXCEPT !.age = Older(@)]]
  /\ UNCHANGED <<setup, elapsed, events>>

MaxElapsedTimePasses ==
  /\ setup.strategy.limited /\ ~elapsed
  /\ elapsed' = TRUE
  /\ UNCHANGED <<objs, log, sync, entries, setup, events>>

Work(k) == Start(k) \/ CheckNext(k) \/ Decide(k) \/ Succeed(k) \/ Requeue(k)

Next ==
  \/ \E d \in Deps :
       \/ \E t \in ConditionTypes : Withdraw(d, t) \/ \E s \in Statuses : SetCondition(d, t, s)
       \/ DeleteOrCreate(d) \/ \E keys \in SUBSET {"data", "binary"} : Edit(d, keys)
  \/ \E k \in Keys : \/ Work(k) \/ Trigger(k) \/ CheckFails(k)
                     \/ \E errs \in Failures : Fail(k, errs)
  \/ \E keys \in {{k} : k \in Keys} \cup {Keys} : ResetKeys(keys)
  \/ Clean \/ Tick \/ MaxElapsedTimePasses

Spec == Init /\ [][Next]_vars

\* The worker runs and time passes; nobody else owes anything.
FairSpec == Spec /\ WF_vars(Tick) /\ \A k \in Keys : WF_vars(Work(k))

-----------------------------------------------------------------------------
TypeOK ==
  /\ \A d \in Deps : objs[d].conds \in Seq(Condition) /\ Unique(objs[d].conds)
  /\ \A k \in Keys : /\ sync[k].stage \in Stages /\ sync[k].wait \in Nat
                     /\ Len(sync[k].results) <= Len(setup.groups)
  /\ DOMAIN entries \subseteq Keys
  /\ \A k \in DOMAIN entries : entries[k].attempts \in Nat /\ entries[k].age \in 0..AgeCap

\* The prerequisites hold as the dependencies are now, or will after a while.
Holds(p, later) ==
  LET since == LastTransitionTime(objs[p.on].conds, "Ready") IN
  IF p.kind = "since" THEN since # NoTime /\ since + later >= p.minElapsed
                      ELSE Check(p, objs[p.on]).satisfied

Open(later) ==
  \A g \in ToSet(setup.groups) : IF g.by = "Any" THEN \E p \in ToSet(g.of) : Holds(p, later)
                                           ELSE \A p \in ToSet(g.of) : Holds(p, later)

(***************************************************************************)
(* What the tracker saw last of a condition is its status, and the time of *)
(* that transition is its LastTransitionTime, through heartbeats, removal  *)
(* and setting it again (conditionHelper.Set, TransitionTracker.Track).    *)
(***************************************************************************)
Tracked ==
  \A d \in Deps, t \in ConditionTypes :
    /\ log[d][t].new = StatusOf(objs[d].conds, t)
    /\ log[d][t].new # "Unknown" => log[d][t].time = LastTransitionTime(objs[d].conds, t)

(***************************************************************************)
(* When CheckAll refuses for want of time alone, the delay it suggests is  *)
(* long enough: unless a dependency changes, the next CheckAll passes      *)
(* (All, Any, TimeSince and GetRetryAfter together).                       *)
(***************************************************************************)
WaitedOut ==
  [][\A k \in Keys :
       sync[k].stage = "checking" /\ sync'[k].stage = "waiting" /\ sync[k].calm /\ Open(AgeCap)
         => Open(sync'[k].wait)]_vars

(***************************************************************************)
(* Cleanup never forgets the attempts of a key that is still waiting for   *)
(* its backoff, as long as it is called with the longest delay or more.    *)
(***************************************************************************)
BackoffKept ==
  [][\A k \in DOMAIN entries \ DOMAIN entries' :
       sync[k].backoff /\ sync[k].wait > 0 => events' # events]_vars

(***************************************************************************)
(* An object is given up only if the errors of its last Sync are permanent *)
(* together: what ClassifyError makes of the combined error never drops an *)
(* object that ErrorList.Classification would have tried again.            *)
(***************************************************************************)
StopsOnPurpose ==
  [][\A k \in Keys :
       sync[k].stage # "stopped" /\ sync'[k].stage = "stopped" =>
         E!Classification(sync[k].errs) \in {"Permanent", "Terminal"}]_vars

(***************************************************************************)
(* Once the prerequisites hold for good, or will when time has passed,     *)
(* every object is brought to success, or is given up: no refusal, failure *)
(* or heartbeat keeps it from its next try.                                *)
(***************************************************************************)
Opens ==
  <>[]Open(AgeCap) => \A k \in Keys : []<>(sync[k].stage \in {"done", "stopped"})
=============================================================================
