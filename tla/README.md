# Streamline in TLA+

A formal model of `src/pkg/streamline`, the Go library that turns a `Sync`/`Finalize` handler into a
Kubernetes controller. Modules are checked with TLC on small instances and, where it says so below,
proved with TLAPS for every value of the constants. `PROJECT.json` maps each definition to the source
lines it stands for and lists the runs, their mutants, the hazards and the theorems.

All paths below are under `src/pkg/streamline/`.

## 1. The system

| part | state | operations | interacts with |
|---|---|---|---|
| Generic reconciler (`reconciler.go`) | none of its own between reconciles; during one: the object read, a snapshot, where it is | `Reconcile` → `reconcileNormal` / `reconcileDelete`, `patchStatus`, `updateObservedGeneration` | API server (Update, status Patch), informer cache (Get), workqueue (its `ctrl.Result`), handler, pause, backoff tracker, errors |
| Handler contract (`handler.go`) | the user's external resources | `Sync`, `Finalize` | called by the reconciler |
| Pause (`pause.go`) | annotations and the Paused condition of the object | `Pause`, `Resume`, `SetAutoResume`, `CheckPauseAndSkip`, `OnPause`, `OnResume` | users write annotations, the reconciler reads them and the clock |
| Results (`result.go`) | – | `Stop`, `Requeue`, `RequeueAfter`, `ToCtrlResult` | workqueue |
| Circuit breaker (`circuitbreaker.go`) | state, three counters, time of the last change; a mutex | `Execute*` in three critical sections, `State`, `Reset`, `ForceOpen` | any goroutine |
| Breaker registry, middleware, two-stage breaker | map of name → breaker; RW mutex | `Get`, `GetWithConfig`, `Remove`, `Reset`, `Wrap` | breakers |
| Backoff (`backoff.go`) | tracker: map of key → attempts, times; RW mutex | strategies' `NextBackoff`; `RecordFailure/Success`, `GetBackoff`, `Cleanup`, `RetryPolicy` | reconciler |
| Health (`health.go`) | registered checks, cached results; RW mutex | `Register`, `Unregister`, `Check`, `CheckAll`, `SetStatus`, reporter | a goroutine per check, HTTP handlers |
| State machine (`statemachine.go`) | phases, transitions, callbacks; history ring; RW mutex | builder calls, `Transition`, `AllowedTransitions`, `Record` | guards and callbacks of the user |
| Resources (`resources.go`) | the API server's objects and owner references | `Ensure*`, `Delete*`, `Adopt`, `Orphan`, diffing | API server, other writers |
| Dry run (`dryrun.go`) | list of recorded changes | intercepted writes, `Ensure`/`Delete` predictions | resource manager, client |
| Errors (`errors.go`) | – | wrapping, `ClassifyError`, `ErrorList`, `MultiError` | reconciler |
| Conditions, prerequisites (`conditions.go`, `prerequisites.go`) | condition list | set/get; `CheckAll`, `All`, `Any`, retry delay | handlers |
| Status, context, metrics, webhooks, test kit, guestbook | no state that decides anything | reflection, forwarding, counting, field validation, fixtures, sample | – |

**What is hard.** The reconciler reads a cache that lags, computes a patch against what it read, and
sends it without a resourceVersion; between any two of its calls users write, delete and recreate the
object, other controllers hold it with their own finalizers, and the process may die. Its answer is the
only thing that wakes it again. The breaker's callers interleave between its critical sections. Health
checks outlive their timeouts and registrations. State machine guards and breaker callbacks run under
locks. `PROJECT.json` lists each of these at its line, with the properties that cover it or the reason
none does yet.

**What makes each part correct.**

* Reconciler and contract: nothing external survives its object; `Sync` never follows a completed
  `Finalize`; the finalizer goes only after `Finalize` returned `Stop()`; `observedGeneration` is
  truthful and monotonic; no return path strands work; deletions complete; specs converge.
* Breaker: thresholds always act; no half-open slot stays taken that no call holds; it is never stuck.
* Registry: one breaker per name as long as nobody removes it.
* Backoff, errors, prerequisites: a suggested delay is long enough and never for ever; a key that waits
  keeps its attempts; only permanent failures are given up.
* Conditions: `LastTransitionTime` moves with the status and only then.
* Health: calls return and goroutines end whatever a check does; a failing check is noticed; the handlers
  agree.
* State machine: a phase is only reached along an allowed transition; the queries agree; the history and
  the Ready condition tell what happened.
* Resources and dry run: nothing another writer did is undone unread; what `EnsureAll` is asked for is
  reached; a dry run foretells what is done.

## 2. Modules

| module | models | role |
|---|---|---|
| `ControlPlane` | outside `src/`: API server, cache and watch, workqueue, users, other controllers, clock, for one object key | environment, extended by `Reconciler` |
| `Reconciler` | `reconciler.go`, the parts of `pause.go`, `result.go`, `backoff.go` and `errors.go` it uses | detailed specification |
| `CleanupGuarantee` | the FinalizingHandler contract in `handler.go` | abstract specification |
| `ReconcilerProofs`, `ReconcilerWorkProofs` | – | theorems about `Reconciler`: cleanup, and work and observation |
| `CircuitBreaker` | one breaker in `circuitbreaker.go` | specification |
| `CircuitBreakerProofs` | – | theorems about `CircuitBreaker` |
| `BreakerRegistry` | the registry and middleware in `circuitbreaker.go` | specification |
| `BreakerRegistryProofs` | – | theorems about `BreakerRegistry` |
| `PhaseMachine` | `statemachine.go` | specification |
| `PhaseMachineProofs` | – | theorems about `PhaseMachine` |
| `Resources` | `resources.go`, `dryrun.go` | specification |
| `ResourcesProofs` | – | theorems about `Resources` |
| `Health` | `health.go` | specification |
| `HealthProofs` | – | theorems about `Health` |
| `Conditions` | `conditions.go` | operators on a condition list, used by `PhaseMachine` and `Gate` |
| `Errors` | `errors.go` | operators on errors, used by `Gate` |
| `Backoff` | `backoff.go` | operators on strategies and the tracker's entries, used by `Gate` |
| `Prerequisites` | `prerequisites.go` | operators on objects and results, used by `Gate` |
| `Gate` | a `Sync` guarded as `doc.go` shows, under `reconcileNormal`'s error path | composition of the last four |
| `GateProofs` | – | theorems about `Gate` and the four |
| `MCReconciler`, `MCCircuitBreaker`, `MCBreakerRegistry`, `MCPhaseMachine`, `MCResources`, `MCHealth`, `MCGate` | – | instances for TLC |

### ControlPlane

`server` is the stored version of the object (`rv`, `uid`, deletion, the streamline finalizer `fin`,
some other controller's finalizer `held`, generation, pause annotation, `observedGeneration`, Ready and
Paused conditions); a name that was deleted keeps its last uid, so recreation is a new incarnation.
`cache` and `stream` are the informer: versions are delivered in order, and each delivery puts the key in
the queue (`dirty`). `timers` holds delayed re-adds: `"rate"` for the rate limiter or a short delay, a
window for a `RequeueAfter` that ends when the pause does. `elapsed` is what the clock says of each
window. A key is never given to two workers, as controller-runtime guarantees. These definitions are
external to the repository and are marked so in the map, except the annotations and what users do to
them (`pause.go`).

### Reconciler

A reconcile is cut where its effects can interleave with others' – at each API call, handler call and
reading of the clock – and `pc` says where it is:

| `pc` | code about to run | actions |
|---|---|---|
| `idle` | `Get` and the routing that follows without a call in between | `Get`, `GetFails` |
| `paused` | `CheckPauseAndSkip`'s second reading of the clock, `OnPause` | `SkipPaused` |
| `addFinalizer` | the Update of `reconcileNormal` | `AddFinalizer` |
| `sync` | `Sync` and what is done with its answer | `SyncSucceeds`, `SyncFails`, `SyncRejects` |
| `finalize` | `Finalize` | `FinalizeDone`, `FinalizeRequeues`, `FinalizeFails` |
| `patch`, `patching` | `patchStatus`, sent and answered; `path` names its caller and `verdict` the result that caller returns | `SendPatch`, `PatchApplied`, `PatchConflict`, `PatchFails` |
| `removeFinalizer` | the last Update of `reconcileDelete` | `RemoveFinalizer` |

`obj` and `orig` are the object in memory and the snapshot. The status patch is what differs between
them, applied to whatever version is stored when it arrives; it replaces the list of conditions whole,
as a JSON merge patch does, and its answer overwrites `obj`, which is the object `RemoveFinalizer` sends.
The handler is any implementation of the interface that owns one external resource per incarnation
(`ext`): `Sync` may create it even when it fails, `Finalize` destroys it before answering `Stop()`.
`synced`, `rejected` and `finalized` are history variables. `Crash` loses memory, timers and the
tracker, and lets the new informer list any version that is no older than what was seen.

Errors come in two kinds, those the code treats as final (permanent, terminal) and the others. A
`RequeueAfter` other than the pause's and a returned error are the same re-add (`"rate"`): lengths of
delays are not modelled.

### CleanupGuarantee and the refinement

Three variables: the incarnation whose stored object carries the finalizer (`guarded`), `ext`, and the
incarnations that `Finalize` has closed. Resources are created only for a guarded, unclosed incarnation;
the guard is dropped only once it is closed and its resource gone. `Reconciler!Contract` maps `guarded`
to the stored object's uid and `closed` to `finalized`; `ImplementsContract` is checked by TLC and proved.

### CircuitBreaker

`Execute` is `allowRequest`, `beforeRequest`, and `onSuccess` or `onFailure` (`afterRequest`), each one
critical section; `pc[c]` says where caller `c` is. `Panic` is an `Execute` whose function panics:
`afterRequest` is not deferred. A refused call changes nothing and is no step. `elapsed` stands for
"`Timeout` since `lastStateChange`", read only while the breaker is open. Successes are judged by the
state at completion, as in the code, not by the state at admission; `probes` is a history variable, the callers
that the half-open breaker let in, and only `HalfOpenLimit` looks at it.

### BreakerRegistry

Breakers are numbered as they are created. `Look` is `Get` under the shared lock, `LookAgain` what it does
after taking the lock exclusively; `GetWithConfig` and `Remove` are one exclusive section each. `Reset`
walks the map under the shared lock and is as many steps as there are breakers; it is the only section
that is more than one step, so `Exclusive` says that nobody is in one. `Done` ends a caller's use of
its breaker, which may have been removed meanwhile. That writers queue ahead of readers is left out:
it delays, and changes no result. `List` and `States` only read.

### PhaseMachine

The machine `sm` is shared and is one of `Machines`, any that the builder can make before it is used; each worker
moves an object of its own. A call of `Transition` is a frame of the worker's `stack`: `Transition` (or a callback
that calls it) looks the rule up under the lock and pushes the frame, `RunCallback` runs one callback without the
lock, `Advance` goes from the exit callbacks to the transition's own, to setting the phase, to the enter callbacks,
and returns. The rule's callback is read through a pointer into a slice after the lock is released, so `Advance`
takes the callback as it was or as it is. `AllowFrom` and `AllowBidirectional` take the lock once per transition,
so a late one is several late calls of `Allow`. A callback is one of `CommonStateMachine`'s two, a
`StateHistory.Record`, or a nested `Transition`; `Effect` is what the first three do to the object. Transitions are
kept per pair of phases in their order, which is what the first match depends on. A refused `Transition` changes
nothing and is no step.

### Resources

`store` is the server, `cache` what the manager's client reads, with whether it is current: that is all a
resourceVersion is compared for. `call` is the handler's call in progress, one step per call of the client (`Get`,
`Write`), and `rest` the names that `EnsureAll` or `DeleteAll` have still to do. An object is its content, labels
and controller; `needsUpdate` compares the content only for kinds that have a spec (`WithSpec`). `Merge` is the
merge patch: what differs between the object read and the desired one. Where that object has labels, merged labels
are written into its own map and so are missing from the patch; where it has none they go into a new map and the
patch has them (`LabelsOf`). `WriteFails` is a failure before or after the effect, `GetFails` one of a read.

Server-side apply sets the desired fields. It is refused when it would make a second controller and, unless it is
forced, when a field it sets is held by another field manager with another value. Who holds a field is kept for the
content only, as its value: `"old"` was applied by this field manager for an earlier release of the handler,
`"drift"` is anybody else's, the handler's own `Create` and `Update` included, because they name no field manager.
Labels are sets of names and cannot disagree.

Calls made with a `DryRunClient` have `dry` set: the manager's Create, Update, Patch and Delete end in `DryCreate`,
`DryUpdate` (which reads the object again and may fail), `DryPatch` and `DryDelete` instead of `Write`;
`DeleteAllOf`, a method that the client inherits from the one it wraps, is the same step with both. `Predict` and
`PredictDelete` are the `DryRunResourceManager`; `plan` keeps a prediction as long as neither the object nor the
cached copy changes.

### Health

A probe's `call` is a `Check` or `CheckAll`: it has copied the checks (`left`) and runs them one by one.
`run` holds the goroutines: running, hung, or with the answer sent into the channel's buffer; one that
nobody waits for has no owner and goes when it ends. `Timeout` may be taken with the answer there, as
`select` may. The age of a result matters only against `cacheTTL`: `Expire` removes it. Goroutines are
interchangeable, so a new one takes the first free slot.

### Gate, with Conditions, Errors, Backoff and Prerequisites

These four are operators: a condition list is a sequence, an error is what `errors.As` meets from the
outside in, a strategy is a record and a delay one of a set when there is jitter, the tracker's entries are
a function, a prerequisite's answer is whether it is satisfied and its `RetryAfter`. `Gate` runs them: the
dependencies' controllers set and withdraw conditions and track the transitions, users edit and delete, `CheckNext`
is one prerequisite's Get, `Decide` the answer of `CheckAll` and the requeue, `Fail` and `Requeue` the error path
with its two critical sections on the tracker, `Clean` and `ResetKeys` the tracker's other users. Times
are ages and remaining ticks, so that the state space is finite while time goes on for ever; an age stops
at `AgeCap`, beyond which nothing compares it. What a setup, a strategy and an error may be is stated once, as
sets (`Groups`, `Strategies`, `Errors`), which the assumptions on the constants refer to. `RemoveCondition` drops the
first condition of a type where the code drops all of them: a list never has two (`Unique`, part of `TypeOK`).

## 3. Runs

| run | instance | shows |
|---|---|---|
| `reconciler_safety` | 2 incarnations, 2 generations, 2 user actions, 2 faults, pauses without window, other controllers' finalizers, tracker giving up after 1 attempt | the six safety properties of `Reconciler` and the type invariant |
| `reconciler_liveness` | 1 incarnation, 2 generations, 2 user actions, 1 fault, pauses with 1 window | `DeletionCompletes`, `Converges`, and `AutoResumeScheduled` |
| `auto_resume` | 1 incarnation, 1 window | counterexample to `AutoResumeIsRequeued` |
| `paused_condition` | 1 incarnation, no window | counterexample to `PausedConditionCleared` |
| `rejected` | 1 incarnation, no user action but the creation, 1 fault | counterexample to `RejectedIsFinal` |
| `breaker_safety` | 4 callers, thresholds 3/3, 2 slots, 2 panics | the safety properties of `CircuitBreaker` and `TestConcludes` |
| `breaker_registry` | 3 callers, 2 names, 2 resetters (all interchangeable), 4 breakers created | `NeverForked`, `ResetReachesAll` |
| `breaker_limit` | 2 callers, 1 slot | counterexample to `HalfOpenLimit` |
| `phase_machine` | 1 worker, the 8 phases, both predefined machines, 2 of 8 late builder calls, history of 2 | table, queries, history and Ready of `PhaseMachine` |
| `resources` | 2 children, one of a kind without spec, 3 strategies, labels merged or not, apply forced or not, 2 events | concurrency, ownership, predictions and convergence of `Resources` |
| `health` | 2 probes, 1 name, 3 goroutines, 3 kinds of check, 1 event | returns, ends, verdicts and freshness of `Health` |
| `gate` | 1 key, 2 dependencies, 3 combinations of prerequisites and strategy, 34 failures, 3 events | `Gate` |

**Properties.** `NoLeak`: an external resource exists only for the stored, guarded incarnation.
`NoSyncAfterFinalize`. `ObservedIsSynced`: a stored `observedGeneration` is one that `Sync` handled for
that incarnation. `ObservedNeverDecreases`, although patches are computed from stale reads and carry no
version. `NoLostWork`: when nothing is queued, running, delayed or on its way, the object is settled.
`AutoResumeScheduled`: a pause with a window that has not passed keeps a wake-up pending.
`ThresholdsAct`, `SlotsAccounted`, `NeverWedged`, `TestConcludes` for the breaker; `NeverForked` and
`ResetReachesAll` for the registry.

For the state machine: `AlongRules`, a phase changes only along the first rule between the two, with its guard
satisfied at that moment; `HistoryTells`; `ReadyFollowsPhase`; `AnswersAgree`, which shows that what
`AllowedTransitions` lists beyond `CanTransition` hides behind a refusing rule. For resources: `NoBlindWrite`,
`OwnershipKept`, `PredictionSound`, and `Converges`, which excuses a child that an apply is refused for, and what
comes after it: the refusal repeats at every `EnsureAll`. For health: `CallsReturn`, `GoroutinesEnd`,
`BadNewsTravels`, and `VerdictsAgree`, which states the one case where the handlers differ (no checks: ready, not
healthy). For the gate: `Tracked`, `WaitedOut` (a refusal for want of time suggests a delay that suffices),
`BackoffKept`, `StopsOnPurpose` (what the combined error is classified as never drops what
`ErrorList.Classification` would retry), `Opens`.

Each property has a mutant, a plausible bug of the code defined next to the definition it would replace,
that TLC finds.

**Bounds.** `MaxUid`, `MaxGen`, `MaxEdits`, `MaxFaults`, `MaxPanics` bound what the environment does, in
the guards of its actions. Two incarnations are what a stale read, a stale patch or a stale Update needs
to hit the wrong object; two generations are what a stale patch needs to go back; two user actions give
"edit then delete", "pause then resume" and "pause then set a window" while the second incarnation's
creation is not counted; two faults give a failure during the recovery from another, and the second
rejection that exhausts the tracker. One window suffices where windows matter, because an object has one
at a time; it is left out of `reconciler_safety`, whose properties do not look at it. Three is already
beyond what TLC enumerates in minutes; the proofs have no bound. For the breaker four callers let two
calls admitted while closed complete during a test of two slots, and thresholds above two separate
"one more" from "the last one". Deadlock is not checked for the reconciler, which rests when nothing is
left to do; it is for the breaker and the registry, which never do. `MaxBreakers` bounds creations: four lets a name
be removed and recreated while both names are in use.

`MaxEvents` bounds, in the later modules, what others do: changes by other writers, failed calls, reports and
registrations, triggers. The system's own steps, heartbeats, expiry and time are not bounded. Two events
in `resources` are a call and an interference with it, or two interferences, on top of an `EnsureAll`
that is always under way, from initial states that already differ between the children. In `health` one
event adds a report, a (re)registration, a hanging check or a `Check` to probes that overlap freely;
three slots let an abandoned check outlive two others. In `gate` three events are a failure, a change
during the checks, and one after. In `phase_machine` two late calls are what gives one pair two rules, or one rule
two callbacks; one worker suffices, as workers share nothing but the table. `MaxAge` and `AgeCap` are just above the
longest delay, as the assumption demands that `Cleanup` be called with.

**Fairness.** `Reconciler!FairSpec`: the worker goroutine runs, watch events are delivered and re-adds fire (weak
fairness). Users, the clock and crashes owe nothing: `Converges` excuses paused objects, and a deletion does not
wait for the other controller to release the object, only for the streamline finalizer to go. Failures are finite,
by `MaxFaults`: with an API server or a `Finalize` that fails for ever nothing could be promised.
`CircuitBreaker!FairSpec`: every caller keeps calling, its function returns, and `Execute` runs to its end – a
breaker only moves when it is used; `TestConcludes` excuses a test in which the function panicked, since its slot
is lost. `Resources!FairSpec`: the owner is reconciled again and again, calls return and watch events arrive.
`Health!FairSpec`: probes keep asking, goroutines other than hung ones run, cached results age (and reports, which
are among the events, come to an end, without which `BadNewsTravels` would not hold: a report overwrites what a
check found), a waiting call gets its answer or its timeout; the start of a check is strongly fair only so that the
model's bound on goroutines, which the code does not have, starves nobody. `Gate!FairSpec`: the worker runs and
time passes. `PhaseMachine` has no liveness: it moves when it is called.

## 4. What the code does not keep

* **A pause that is never resumed** (`auto_resume`). `CheckPauseAndSkip` reads the clock twice. If the
  resume time falls between the two, the object is skipped as paused and the result is `Stop()`. The
  status patch usually hides this, because its watch event causes another reconcile; when the Paused
  condition was already stored, it changes nothing and the object stays paused after its time.
* **Paused=True on an object that is not paused** (`paused_condition`): nothing calls `OnResume`.
* **Permanent errors are retried when there is a tracker** (`rejected`): the backoff is consulted before
  the classification.
* **More half-open requests than the limit** (`breaker_limit`): check and increment are two critical sections. The
  run shows two calls let in by the half-open breaker, with one slot free, before either takes it. `SlotsAccounted`
  is the bound that does hold. It bounds what is taken from above only: a call admitted while the breaker was
  closed and completed while it is half-open gives back a slot it never took, and its success counts towards
  closing (`circuitbreaker.go:266`).

Met while modelling, and part of the models:

* `needsUpdate` compares nothing outside `spec`, labels and annotations: the data of a ConfigMap that
  exists is never updated, and an equal object without an owner stays so (`resources.go:527`). `Converges`
  therefore claims the content of kinds with a spec only.
* With `WithMergeLabels` and `UpdateStrategyMerge` missing labels are added only to an object that was read without
  any label: otherwise the merged map is the map of the object the patch is computed from (`resources.go:564`).
* Server-side apply without `WithForceConflicts` is refused as long as another field manager holds a field with
  another value, and `EnsureAll` stops there every time (`resources.go:588`). The manager's own `Create` is such
  another field manager: an object it created cannot be brought to a later release's content by an unforced apply.
  `Converges` excuses both.
* `AllowedTransitions` lists transitions that `Transition` refuses, because an earlier one between the same phases
  has a guard that fails, although it says that it lists what can be transitioned to (`statemachine.go:193`);
  `AnswersAgree` allows exactly that difference.
* `DryRunResourceManager` compares owner references, of which the desired object has none yet, and so predicts an
  update for every owned object that is up to date (`dryrun.go:463`); `PredictionSound` claims the other direction.
* `DryRunClient` overrides neither `DeleteAllOf` nor `SubResource`: calls of those are real and are not recorded
  (`dryrun.go:254`), as the step `DeleteAllOf` is with either client. The resource manager calls neither. That its own
  dry runs write nothing is plain from `DryCreate`, `DryUpdate`, `DryPatch` and `DryDelete` and is not stated as a
  property.
* A composite health check with an Unknown part hides an Unhealthy one (`health.go:465`).
* `GetRetryAfter` misses the server's hint in an API error that is wrapped (`errors.go:341`).
* `MaxElapsedTime` counts from the creation of the strategy; no success resets it (`backoff.go:97`).
* A callback that runs before the phase is set, on leaving or of the transition, and calls `Transition` itself
  moves the object away under the outer call, which then sets its own phase all the same (`statemachine.go:271`).
  No document speaks of such callbacks; the theorems name the assumption that there are none.
* Between `RecordFailure` and `GetBackoff` a `Reset` can come, after which the error is treated as if there were no
  tracker (`reconciler.go:287`).

## 5. Proofs

Eight modules hold theorems; each is checked to the last leaf. Every safety property and every action property that
a passing run checks is the statement of a theorem, for every value of the constants that satisfies the named
assumptions of the modules. Hypotheses beyond those are written in the theorem and discussed here. The theorems are
called `<Property>Correct`; each follows from an inductive invariant, the theorem `...Invariance`.

| theorems about | proved, from the assumptions on the constants alone | proved, from hypotheses |
|---|---|---|
| `Reconciler` | `TypeOK`, `NoLostWork`, `AutoResumeScheduled` | `NoLeak`, `NoSyncAfterFinalize`, `ImplementsContract`, `ObservedIsSynced`, `ObservedNeverDecreases` |
| `CircuitBreaker` | `TypeOK`, `ThresholdsAct`, `SlotsAccounted`, `NeverWedged` | |
| `BreakerRegistry` | `TypeOK`, `NeverForked`, `ResetReachesAll` | |
| `Resources` | `TypeOK`, `NoBlindWrite`, `OwnershipKept`, `PredictionSound` | |
| `Health` | `TypeOK`, `VerdictsAgree` | |
| `Gate` | `TypeOK`, `Tracked`, `WaitedOut`, `BackoffKept`, `StopsOnPurpose` | |
| `PhaseMachine` | `TypeOK`, `AnswersAgree` | `AlongRules`, `HistoryTells`, `ReadyFollowsPhase` |

### Reconciler: cleanup

`NoLeakCorrect`, `NoSyncAfterFinalizeCorrect` and `ContractImplemented` are for finalizing handlers whose
objects get the finalizer from the reconciler (`Finalizing`, `BornWithFin = {FALSE}`). The second is
needed: if an object can be created with the finalizer already set, a reconcile still working on its
predecessor's last version can strip it (listed as a hazard at `reconciler.go:392`). None of the three
properties is inductive: the invariant `IInv` says what can still be *read*, which the properties do not.

* `CoreInv`: the server holds the newest version, versions are ordered by `rv`, incarnations only go
  forward along that order and deletion is not taken back; every version that may still be read and has
  the finalizer tells the truth about the stored object unless its incarnation is finalized
  (`ChainAccounted`); incarnations the cache has not seen carry no finalizer (`NewUnguarded`), because
  only the worker adds it and only to what it read; finalized incarnations are readable only as deleted
  (`FinalizedIsDeleted`); every external resource is guarded.
* `ReadInv`: the same, of the snapshot of the reconcile that is running, relative to what can still be
  read – this is what an Update accepted by version number and a crash that re-lists preserve.
* `WorkerInv`: the object in memory is the snapshot but for its status, until the patch's answer replaces
  it; and on the way to removing the finalizer the incarnation is closed and its resource gone.

`Invariance` proves `Spec => []IInv` with one lemma per action; writes are grouped by what they do to
metadata (`Harmless`, `WriteKeepsCore`, `WriteKeepsRead`). `ContractImplemented` then maps each step to a
contract step or a stutter.

### Reconciler: work and observation

`NoLostWork` speaks of the controller at rest. At rest the cache has caught up, and if the key is not dirty the last
reconcile read what the cache shows (`SnapshotCurrent`); so it is enough that a reconcile that answers "stop" has done
what its own snapshot asked for, which `TripInv` and `PathDone` say at each stage: a paused object has no window to
wait for, a normal one is at its generation, a permanent failure is recorded, a deleted one is let go. A patch that
changes the object makes the key dirty again. The invariant needs no hypothesis: plain handlers, trackers, pauses and
objects born with a finalizer included.

`ObservedIsSynced` and `ObservedNeverDecreases` are about a status patch that carries no resourceVersion. What
protects it is the finalizer: a new `observedGeneration` is only sent for an incarnation whose finalizer is stored,
which cannot vanish while this worker holds it, so the patch lands on that incarnation (`IInv`, hence the two
hypotheses). Its value is the generation of the snapshot, and no version that can be read has observed more than an
earlier reader knows to exist (`Within`), so a stale patch cannot take a later value back: nobody else writes one.
For a plain `Handler` a patch may reach a successor of the object (`reconciler.go:425`), and the hypothesis is
needed.

### Circuit breaker and registry

`ThresholdsActCorrect` is inductive with the types. `SlotsAccountedCorrect` is inductive with them and needs the
cardinality of the running calls before and after a call starts and ends; `NeverWedgedCorrect` follows from it.
`ResetReachesAll` needs that what is registered is pending or reset throughout a walk (`SweepCovers`), which the
exclusive lock keeps; `NeverForked` is inductive with the types.

### Resources

A call reads in one step and writes in another. `CallInv` says that a write is one its operation makes of what it
read (`Suits`), `ReadTrue` that what was read and has not been written since is what is stored, `PlanTrue` and
`PlanRead` the same of what a dry run recorded and the cache. `NoBlindWrite` then is a matter of which writes the
server accepts after the object changed: none but a create of a name that was deleted, which creates only over
nothing, and a merge, which is shown to keep what it does not set and, where labels are merged, to take no label
away. `PredictionSound` compares two calls of `needsUpdate`, the dry run's and the manager's, on the same object.

### Health

What is inductive in `TypeOK` is that a waiting probe's channel is its own: a slot with an owner has a status to
send, a free one has none, so no check is started over a channel somebody waits for (`WaitsForItsOwn`,
`OwnedHasStatus`). `CompositeIsAStatus` and `OutcomesAreStatuses` are about the ready-made checks. `VerdictsAgree`
quantifies over all sets of answers and holds of the operators; its proof is a case split on what is among them.

### Gate

* The operators first: `Least`, `StepByStep` and `Greatest` put induction over numbers in a form without operator
  parameters (sets, from `WFMin` and `NatLessThanWellFounded`), from which follow the first match in a sequence and
  in a concatenation of sequences (`FirstOfFlatten`, for `errors.As` through a `MultiError`), bounds of `Power` and
  of every strategy's delay (`DelayBound`: never above `MaxDelay`, jitter included), maxima and minima of the
  delays of a list of results, and what the condition helper does to a list that has each type once.
* `WaitedOut`: an answer *tells* (`TellsFor`, `GroupTells`) if it is satisfied and the prerequisite holds, or it
  names a delay after which the prerequisite holds if nothing but time passes, or no time alone will do. `Check`
  gives answers that tell; `All` keeps this because it takes the longest delay and `Any` because it takes the
  shortest but zero. While nothing but time has come between (`calm`), the answers `CheckAll` has collected tell of
  the dependencies as they are now; `Tick` keeps it since no prerequisite holds at one age and fails at a later
  one.
* `BackoffKept`: a waiting key's entry is younger than `MaxAge` by the delay that is left. It is settled when the
  delay is chosen, because `RecordFailure` has just touched the entry and time does not pass within a reconcile,
  and because no delay exceeds `MaxAge` (an assumption, on what `Cleanup` is called with).
* `StopsOnPurpose`: the combined error is classified as its first classified part, or else its first API status,
  which is a part of one of the errors and decides its class; the list takes the most severe class, which is no
  milder.
* `Tracked` is inductive with the uniqueness of conditions.

### Phase state machine

Each step of a worker is one step of its own object and stack under a fixed machine (`LocalStep`,
`WorkerStepIsLocal`), and a builder call makes the machine `Grown`: it adds transitions and callbacks behind those
that are there. The invariants are predicates of one worker's object and stack, kept by both.

* `Typed` (no hypothesis): no call in progress loses the rule it found, so the pointer that `Transition` keeps into
  the slice always finds one.
* `RulesHold`, under `NestedOnEnterOnly` – callbacks that run before the phase is set do not call `Transition`.
  Without it the properties are false (section 4). Then only the innermost call can have its phase still to set,
  its object is where the lookup found it, its guard holds still and what it was to record is recorded or about to
  be. The guard needs `ReadyIsReported`: guards do not ask for the condition that the machine itself writes, in an
  exit callback say.
* `ReadyHolds`, under `ReportsFirst`: a machine of which `ReadyFollowsPhase` claims anything (it reports on
  entering Failed) reports as `CommonStateMachine` does – Running and Failed report first of all when they are
  entered, nothing else that is entered reports otherwise, no object begins there, and no late call adds a report
  on entering. An object is right, or the callback that makes it right runs next; nested calls come after it, and
  exit callbacks run when the phase is about to change.

The three hypotheses hold of the instance that TLC checks.

### Only model-checked

Liveness under fairness is out of the prover's reach: `DeletionCompletes`, `Converges` (of `Reconciler` and of
`Resources`), `TestConcludes`, `CallsReturn`, `GoroutinesEnd`, `BadNewsTravels` and `Opens` are checked by TLC
alone. So are the four counterexamples. The invariants the proofs use were checked by TLC on the instances of
section 3 before they were proved.

## 6. Not modelled, and the plan

| step | module | what for |
|---|---|---|
| done | `ControlPlane`, `Reconciler`, `CleanupGuarantee`, `ReconcilerProofs` | the core |
| done | `CircuitBreaker`, `CircuitBreakerProofs` | |
| done | `BreakerRegistry`, `BreakerRegistryProofs` | |
| done | `PhaseMachine`, `Resources`, `Health` and their proofs | |
| done | `Conditions`, `Errors`, `Backoff`, `Prerequisites`, `Gate`, `GateProofs` | |
| next | proofs | the safety halves of the liveness properties; what `RulesHold` gives without `NestedOnEnterOnly`; lemmas shared by `GateProofs` and `PhaseMachineProofs` in one place |
| later | callbacks under a lock | `OnStateChange` under the breaker's mutex and guards under the machine's read lock, as parts of the models: the two deadlock hazards without a property |

Left out of modelled parts: `AllowWrites` of the dry run client (no user under `src/pkg` but a test), a manager
whose client reads the server rather than a cache, `RetryPolicy` and `RetryContext` (no user under `src/pkg`),
`OnStateChange`, the two-stage breaker (two independent breakers), `MaintenanceWindow` and the pause metadata, the
dry run's recorder summaries, status writer and annotations, reasons and messages everywhere.

Not modelled and not planned: metrics (write-only counters), webhooks (stateless field validation),
context and events (forwarding), status reflection (data conversion), the test kit and the guestbook
sample, which is an instance of the handler the reconciler model quantifies over. With a plain `Handler`
nothing keeps a deleted object alive, and the cleanup properties say nothing; a status patch may then
reach a successor of the object it was computed for (`reconciler.go:425`).
