----------------------------- MODULE Reconciler -----------------------------
(***************************************************************************)
(* GenericReconciler.Reconcile (src/pkg/streamline/reconciler.go) with its *)
(* pause check (pause.go), its use of the backoff tracker (backoff.go) and *)
(* the handler it drives (handler.go), for one object key.                 *)
(*                                                                         *)
(* Reconcile runs between API calls without being observable, so each step *)
(* below ends where the code calls the API server or the handler, or reads *)
(* the clock: at those points users, the watch and crashes interleave.     *)
(*                                                                         *)
(* The handler is any implementation of the interface: Sync may create the *)
(* incarnation's external resource (ext) even when it fails, and Finalize  *)
(* destroys it before it answers Stop().                                   *)
(***************************************************************************)
EXTENDS ControlPlane

CONSTANTS
  Finalizing,    \* the handler implements FinalizingHandler
  PauseEnabled,  \* WithPauseSupport(true)
  Tracking,      \* WithBackoffTracker was called
  MaxAttempts,   \* WithMaxAttempts of the tracker's strategy
  MaxFaults      \* bound: failures, requeueing answers and crashes

ASSUME FlagsAssumption ==
  /\ {Finalizing, PauseEnabled, Tracking} \subseteq BOOLEAN
  /\ MaxAttempts \in Nat /\ MaxFaults \in Nat

VARIABLES
  pc,        \* where the worker is
  obj,       \* the object in memory; NoObject between reconciles
  orig,      \* the snapshot the status patch is computed against
  path,      \* which caller of patchStatus is running
  verdict,   \* the ctrl.Result that path returns once it has patched
  base,      \* server.rv when the status patch was sent
  attempts,  \* the tracker's entry for the key
  faults,    \* faults so far
  ext,       \* the incarnations whose external resource exists
  synced,    \* history: <<uid, generation>> that Sync has succeeded on
  rejected,  \* history: <<uid, generation>> that Sync called permanent
  finalized  \* history: incarnations for which Finalize returned Stop()

workerVars == <<pc, obj, orig, path, verdict, base, attempts, faults>>
ghostVars  == <<ext, synced, rejected, finalized>>
vars       == <<cpVars, workerVars, ghostVars>>

Init ==
  /\ CPInit
  /\ pc = "idle"
  /\ obj = NoObject /\ orig = NoObject
  /\ path = "none" /\ verdict = "stop" /\ base = 0
  /\ attempts = 0 /\ faults = 0
  /\ ext = {} /\ synced = {} /\ rejected = {} /\ finalized = {}

(***************************************************************************)
(* The ways a reconcile ends.  controller-runtime turns an error and       *)
(* Requeue: true into a rate-limited re-add, RequeueAfter into a timer,    *)
(* and the zero Result into nothing.                                       *)
(***************************************************************************)
\* Mutant: Result.ToCtrlResult forgets Requeue.
RequeueForgotten(result) == IF result \in {"stop", "rate"} THEN {} ELSE {result}

Requeued(result) == IF result = "stop" THEN {} ELSE {result}

Return(result) ==
  /\ pc' = "idle"
  /\ obj' = NoObject /\ orig' = NoObject
  /\ path' = "none" /\ verdict' = "stop" /\ base' = 0
  /\ timers' = timers \cup Requeued(result)

\* Mutant: errors are logged and not returned.
ErrorSwallowed == Return("stop")

ReturnError == Return("rate")

Goto(step) ==
  /\ pc' = step
  /\ UNCHANGED timers

\* Something that may go wrong, or be put off, only finitely often.
Fault == faults < MaxFaults /\ faults' = faults + 1

(***************************************************************************)
(* pause.go                                                                *)
(***************************************************************************)
IsPaused(o)     == o.ann # "none"
ShouldResume(o) == o.ann \in elapsed                   \* first time.Now()

\* Mutant: the requeue is computed from the annotation alone.
PauseResultUnchecked(o) == o.ann

\* Mutant: a paused object is never requeued.
PauseResultForever(o) == "stop"

\* CheckPauseAndSkip's answer: TimeUntilResume reads the clock once more, and
\* what is left of the pause may have become 0 since ShouldResume said no.
PauseResult(o) == IF o.ann \in Windows \ elapsed THEN o.ann ELSE "stop"

\* DefaultPauseHandler.OnPause: the Paused condition at this generation.
OnPause(o) == [o EXCEPT !.paused = o.gen]

(***************************************************************************)
(* Reconcile: fetch, then route on deletion, pause and finalizer.          *)
(***************************************************************************)
\* Mutant: an unobserved generation is synced before anything else is looked at.
RouteSpecFirst(o) ==
  IF o.fin /\ o.gen # o.obs THEN "sync"
  ELSE IF o.deleting THEN IF Finalizing THEN "finalize" ELSE "removeFinalizer"
  ELSE IF PauseEnabled /\ IsPaused(o) /\ ~ShouldResume(o) THEN "paused"
  ELSE IF Finalizing /\ ~o.fin THEN "addFinalizer"
  ELSE "sync"

\* Mutant: the finalizer is not ensured before Sync.
RouteUnguarded(o) ==
  IF o.deleting THEN IF Finalizing THEN "finalize" ELSE "removeFinalizer"
  ELSE IF PauseEnabled /\ IsPaused(o) /\ ~ShouldResume(o) THEN "paused"
  ELSE "sync"

Route(o) ==
  IF o.deleting THEN IF Finalizing THEN "finalize" ELSE "removeFinalizer"
  ELSE IF PauseEnabled /\ IsPaused(o) /\ ~ShouldResume(o) THEN "paused"
  ELSE IF Finalizing /\ ~o.fin THEN "addFinalizer"
  ELSE "sync"

\* NotFound, or a deletion in which our finalizer has no part.
NothingToDo(o) == ~o.exists \/ (o.deleting /\ ~o.fin)

Get ==
  /\ pc = "idle" /\ dirty
  /\ dirty' = FALSE
  /\ IF NothingToDo(cache)
     THEN UNCHANGED <<pc, obj, orig, timers>>
     ELSE /\ obj' = cache /\ orig' = cache
          /\ Goto(Route(cache))
  /\ UNCHANGED <<server, cache, stream, elapsed, edits, path, verdict, base,
                 attempts, faults, ghostVars>>

\* Get fails with something other than NotFound.
GetFails ==
  /\ pc = "idle" /\ dirty /\ Fault
  /\ dirty' = FALSE
  /\ ReturnError
  /\ UNCHANGED <<server, cache, stream, elapsed, edits, attempts, ghostVars>>

(***************************************************************************)
(* reconcileNormal                                                         *)
(***************************************************************************)
\* The object is paused: OnPause, then patchStatus, then the pause result.
SkipPaused ==
  /\ pc = "paused"
  /\ obj' = OnPause(obj)
  /\ path' = "paused" /\ verdict' = PauseResult(obj)
  /\ Goto("patch")
  /\ UNCHANGED <<server, cache, stream, dirty, elapsed, edits, orig, base,
                 attempts, faults, ghostVars>>

\* Client.Update is accepted only for the version that was read.
UpdateAccepted == server.exists /\ obj.rv = server.rv

AddFinalizer ==
  /\ pc = "addFinalizer"
  /\ \/ /\ UpdateAccepted
        /\ Write([server EXCEPT !.fin = TRUE])
        /\ Return("rate")                       \* ctrl.Result{Requeue: true}
        /\ UNCHANGED faults
     \/ /\ \/ ~UpdateAccepted /\ UNCHANGED faults
           \/ Fault
        /\ ReturnError
        /\ UNCHANGED <<server, stream>>
  /\ UNCHANGED <<cache, dirty, elapsed, edits, attempts, ghostVars>>

\* Mutant: the generation is read again instead of taken from what Sync was given.
ObserveLatest(o) == [o EXCEPT !.ready = "True", !.obs = server.gen]

\* What a successful Sync leaves in the status, with updateObservedGeneration.
Observe(o) == [o EXCEPT !.ready = "True", !.obs = o.gen]

\* Sync returned no error: RecordSuccess, updateObservedGeneration, patchStatus.
SyncSucceeds ==
  /\ pc = "sync"
  /\ ext' = ext \cup {obj.uid}
  /\ synced' = synced \cup {<<obj.uid, obj.gen>>}
  /\ obj' = Observe(obj)
  /\ attempts' = IF Tracking THEN 0 ELSE attempts
  /\ path' = "normal"
  /\ \/ verdict' = "stop" /\ UNCHANGED faults
     \/ verdict' = "rate" /\ Fault
  /\ Goto("patch")
  /\ UNCHANGED <<server, cache, stream, dirty, elapsed, edits, orig, base,
                 rejected, finalized>>

\* RecordFailure, if there is a tracker.
RecordFailure == attempts' = IF Tracking THEN attempts + 1 ELSE attempts

\* GetBackoff after RecordFailure: 0 once the strategy has given up.
BackoffGiven == Tracking /\ attempts + 1 <= MaxAttempts

\* A retryable, transient or unclassified error: the handler's changes to the
\* object are dropped.  RequeueAfter and a returned error both re-add the key.
SyncFails ==
  /\ pc = "sync" /\ Fault
  /\ ext' \in {ext, ext \cup {obj.uid}}
  /\ RecordFailure
  /\ ReturnError
  /\ UNCHANGED <<server, cache, stream, dirty, elapsed, edits, synced, rejected,
                 finalized>>

\* A permanent or terminal error: with backoff left it is requeued like any
\* other; otherwise the Ready condition is set to False and patched.
SyncRejects ==
  /\ pc = "sync" /\ Fault
  /\ ext' \in {ext, ext \cup {obj.uid}}
  /\ rejected' = rejected \cup {<<obj.uid, obj.gen>>}
  /\ RecordFailure
  /\ IF BackoffGiven
     THEN ReturnError
     ELSE /\ obj' = [obj EXCEPT !.ready = "False"]
          /\ path' = "permanent" /\ verdict' = "stop"
          /\ Goto("patch")
          /\ UNCHANGED <<orig, base>>
  /\ UNCHANGED <<server, cache, stream, dirty, elapsed, edits, synced, finalized>>

(***************************************************************************)
(* patchStatus: a merge patch of what changed in the status since the      *)
(* snapshot.  It names neither resourceVersion nor uid, so it applies to   *)
(* whatever object bears the name when it arrives; the answer overwrites   *)
(* the object in memory.                                                   *)
(***************************************************************************)
\* Mutant: the whole status is sent, not what changed.
WholeStatus ==
  [server EXCEPT !.obs = obj.obs, !.ready = obj.ready, !.paused = obj.paused]

\* A merge patch replaces lists whole, and the conditions are a list.
ConditionsChanged == <<obj.ready, obj.paused>> # <<orig.ready, orig.paused>>

Merged ==
  [server EXCEPT !.obs    = IF obj.obs # orig.obs THEN obj.obs ELSE @,
                 !.ready  = IF ConditionsChanged THEN obj.ready ELSE @,
                 !.paused = IF ConditionsChanged THEN obj.paused ELSE @]

SendPatch ==
  /\ pc = "patch"
  /\ base' = server.rv
  /\ Goto("patching")
  /\ UNCHANGED <<server, cache, stream, dirty, elapsed, edits, obj, orig, path,
                 verdict, attempts, faults, ghostVars>>

\* Mutant: what Finalize answered is not looked at.
AfterPatchUnchecked(o) ==
  IF path = "delete"
  THEN /\ obj' = o
       /\ Goto("removeFinalizer")
       /\ UNCHANGED <<orig, path, verdict, base>>
  ELSE Return(verdict)

\* patchStatus returned nil, and left o in memory.
AfterPatch(o) ==
  IF path = "delete" /\ verdict = "stop"
  THEN /\ obj' = o
       /\ Goto("removeFinalizer")
       /\ UNCHANGED <<orig, path, verdict, base>>
  ELSE Return(verdict)

PatchApplied ==
  /\ pc = "patching" /\ server.exists
  /\ IF Merged = server THEN UNCHANGED <<server, stream>> ELSE Write(Merged)
  /\ AfterPatch(server')
  /\ UNCHANGED <<cache, dirty, elapsed, edits, attempts, faults, ghostVars>>

\* The API server answers Conflict only when the object was written while it
\* was applying the patch; the code takes that for success.
PatchConflict ==
  /\ pc = "patching" /\ server.exists /\ server.rv # base
  /\ AfterPatch(obj)
  /\ UNCHANGED <<server, cache, stream, dirty, elapsed, edits, attempts, faults,
                 ghostVars>>

\* Mutant: a failed status patch is logged, whoever called patchStatus.
PatchErrorLogged == Return(verdict)

\* What patchStatus's caller does with an error: returned where the code returns
\* it, only logged after OnPause and after a permanent error.
AfterPatchError ==
  IF path \in {"paused", "permanent"} THEN Return(verdict) ELSE ReturnError

\* Any error but Conflict, NotFound among them.
PatchFails ==
  /\ pc = "patching"
  /\ \/ ~server.exists /\ UNCHANGED faults
     \/ Fault
  /\ AfterPatchError
  /\ UNCHANGED <<server, cache, stream, dirty, elapsed, edits, attempts, ghostVars>>

(***************************************************************************)
(* reconcileDelete                                                         *)
(***************************************************************************)
\* Finalize returned Stop(): whatever the incarnation owned is gone.
FinalizeDone ==
  /\ pc = "finalize"
  /\ ext' = ext \ {obj.uid}
  /\ finalized' = finalized \cup {obj.uid}
  /\ path' = "delete" /\ verdict' = "stop"
  /\ Goto("patch")
  /\ UNCHANGED <<server, cache, stream, dirty, elapsed, edits, obj, orig, base,
                 attempts, faults, synced, rejected>>

\* Finalize wants to be called again: its status changes are patched first.
FinalizeRequeues ==
  /\ pc = "finalize" /\ Fault
  /\ ext' \in {ext, ext \ {obj.uid}}
  /\ obj' = [obj EXCEPT !.ready = "False"]
  /\ path' = "delete" /\ verdict' = "rate"
  /\ Goto("patch")
  /\ UNCHANGED <<server, cache, stream, dirty, elapsed, edits, orig, base,
                 attempts, synced, rejected, finalized>>

FinalizeFails ==
  /\ pc = "finalize" /\ Fault
  /\ ext' \in {ext, ext \ {obj.uid}}
  /\ ReturnError
  /\ UNCHANGED <<server, cache, stream, dirty, elapsed, edits, attempts, synced,
                 rejected, finalized>>

RemoveFinalizer ==
  /\ pc = "removeFinalizer"
  /\ \/ /\ UpdateAccepted
        /\ IF server.fin THEN Write(Collected([server EXCEPT !.fin = FALSE]))
                         ELSE UNCHANGED <<server, stream>>
        /\ Return("stop")
        /\ UNCHANGED faults
     \/ /\ \/ ~UpdateAccepted /\ UNCHANGED faults
           \/ Fault
        /\ ReturnError
        /\ UNCHANGED <<server, stream>>
  /\ UNCHANGED <<cache, dirty, elapsed, edits, attempts, ghostVars>>

(***************************************************************************)
(* The process dies and another one starts: memory is lost, the new        *)
(* informer lists some version no older than the one last seen, and the    *)
(* initial list enqueues every key.                                        *)
(***************************************************************************)
Crash ==
  /\ Fault
  /\ pc' = "idle"
  /\ obj' = NoObject /\ orig' = NoObject
  /\ path' = "none" /\ verdict' = "stop" /\ base' = 0
  /\ attempts' = 0
  /\ timers' = {}
  /\ dirty' = TRUE
  /\ \E v \in Chain :
       /\ cache' = v
       /\ stream' = {w \in stream : w.rv > v.rv}
  /\ UNCHANGED <<server, elapsed, edits, ghostVars>>

Worker ==
  \/ Get \/ GetFails \/ SkipPaused \/ AddFinalizer
  \/ SyncSucceeds \/ SyncFails \/ SyncRejects
  \/ SendPatch \/ PatchApplied \/ PatchConflict \/ PatchFails
  \/ FinalizeDone \/ FinalizeRequeues \/ FinalizeFails \/ RemoveFinalizer

Environment == CPNext /\ UNCHANGED <<workerVars, ghostVars>>

Next == Worker \/ Environment \/ Crash

(***************************************************************************)
(* Fairness: the worker goroutine runs, the watch delivers, delayed re-adds *)
(* fire.  Nothing obliges users to act, windows to elapse or the process   *)
(* to crash.                                                               *)
(***************************************************************************)
Fairness ==
  /\ WF_vars(Worker)
  /\ WF_vars(Deliver /\ UNCHANGED <<workerVars, ghostVars>>)
  /\ WF_vars(TimerFires /\ UNCHANGED <<workerVars, ghostVars>>)

Spec     == Init /\ [][Next]_vars
FairSpec == Spec /\ Fairness

-----------------------------------------------------------------------------
Steps == {"idle", "paused", "addFinalizer", "sync", "finalize",
          "patch", "patching", "removeFinalizer"}
Results == {"stop", "rate"} \cup Windows

TypeOK ==
  /\ server \in Version /\ cache \in Version /\ stream \subseteq Version
  /\ dirty \in BOOLEAN
  /\ timers \subseteq {"rate"} \cup Windows /\ elapsed \subseteq Windows
  /\ edits \in Nat /\ faults \in Nat /\ attempts \in Nat /\ base \in Nat
  /\ pc \in Steps
  /\ obj \in Version /\ orig \in Version
  /\ path \in {"none", "normal", "paused", "permanent", "delete"}
  /\ verdict \in Results
  /\ ext \subseteq Nat /\ finalized \subseteq Nat
  /\ synced \subseteq Nat \X Nat /\ rejected \subseteq Nat \X Nat

(***************************************************************************)
(* Safety                                                                  *)
(***************************************************************************)
\* An external resource never outlives the object that owns it, and the object
\* cannot go away while the resource exists: its finalizer is stored (handler.go,
\* "This ensures that cleanup is fully complete before the object is garbage
\* collected").  It takes a stale read, a recreation or a crash to break it.
NoLeak ==
  Finalizing => \A u \in ext : server.exists /\ server.uid = u /\ server.fin

\* Once Finalize has reported an incarnation cleaned up, Sync never runs on it
\* again, however far the cache lags or whatever crashes in between.
NoSyncAfterFinalize ==
  Finalizing /\ pc = "sync" => obj.uid \notin finalized

\* status.observedGeneration = g is only stored on an incarnation whose
\* generation g Sync has handled (updateObservedGeneration: "to match the
\* object's generation after Sync completes without error").
ObservedIsSynced ==
  server.exists /\ server.obs > 0 => <<server.uid, server.obs>> \in synced

\* Nothing queued, running, delayed or on its way: no further reconcile happens
\* until somebody writes the object.
Quiescent == pc = "idle" /\ ~dirty /\ timers = {} /\ stream = {}

\* No return path of Reconcile drops work: when the controller has come to rest,
\* a live, unpaused object is synced at its generation or was rejected there,
\* and a deleted one no longer carries the finalizer.  This is what "Ignore
\* conflicts for now - the next reconciliation will resolve them" relies on.
NoLostWork ==
  Quiescent /\ server.exists =>
    IF server.deleting THEN ~server.fin
    ELSE server.ann = "none" =>
           \/ server.obs = server.gen
           \/ <<server.uid, server.gen>> \in rejected

\* A pause that still has to end by itself keeps the controller awake: there is a
\* timer for the window, or a reconcile to come that will set one - whatever crashes,
\* failed patches and stale reads lie between (RequeueAfter of CheckPauseAndSkip).
AutoResumeScheduled ==
  Quiescent /\ server.exists /\ ~server.deleting /\ PauseEnabled =>
    server.ann \notin Windows \ elapsed

(***************************************************************************)
(* The contract of FinalizingHandler, which the reconciler implements: the  *)
(* stored object is the guard.                                             *)
(***************************************************************************)
Contract == INSTANCE CleanupGuarantee WITH
              guarded <- IF server.exists /\ server.fin THEN server.uid ELSE 0,
              closed  <- finalized

\* Every step of the reconciler, its users, its cache and its crashes is a step
\* of the contract or changes nothing the contract speaks of (handler.go: "Remove
\* the finalizer only after Finalize() returns Stop()").
ImplementsContract == Contract!Spec

(***************************************************************************)
(* What a step may never do                                                *)
(***************************************************************************)
\* The stored observedGeneration of an incarnation never goes back, though the
\* patch carries no resourceVersion and is computed from stale reads.
ObservedNeverDecreases ==
  [][server'.uid = server.uid => server'.obs >= server.obs]_vars

(***************************************************************************)
(* Liveness                                                                *)
(***************************************************************************)
\* A deletion completes: the streamline finalizer is eventually removed from
\* every object that is being deleted.
DeletionCompletes ==
  \A u \in 1..MaxUid :
    (server.uid = u /\ server.exists /\ server.deleting /\ server.fin)
      ~> (server.uid = u => ~server.exists \/ ~server.fin)

\* Every generation is eventually observed, unless it is superseded, paused,
\* deleted or rejected first.
Converges ==
  \A u \in 1..MaxUid, g \in 1..MaxGen :
    (server.uid = u /\ server.gen = g)
      ~> \/ server.uid # u \/ server.gen # g \/ server.deleting
         \/ server.ann # "none"
         \/ server.obs = g \/ <<u, g>> \in rejected

(***************************************************************************)
(* What the code does not keep (each checked by a run of its own)          *)
(***************************************************************************)
\* "If the object has an auto-resume time, it will requeue accordingly"
\* (CheckPauseAndSkip): a pause whose window has passed does not leave the
\* controller at rest with the object unsynced.
AutoResumeIsRequeued ==
  Quiescent /\ server.exists /\ ~server.deleting /\ server.ann \in elapsed =>
    \/ server.obs = server.gen
    \/ <<server.uid, server.gen>> \in rejected

\* "OnResume clears the Paused condition": at rest, an object that is synced and
\* not paused does not say Paused=True.
PausedConditionCleared ==
  Quiescent /\ server.exists /\ ~server.deleting /\ server.ann = "none"
    /\ server.obs = server.gen => server.paused = 0

\* "The controller will set a Failed/Error condition and stop reconciling until
\* the resource spec is modified": Sync is not called again on a generation it
\* has rejected.
RejectedIsFinal ==
  [][pc' = "sync" /\ pc # "sync" => <<obj'.uid, obj'.gen>> \notin rejected]_vars
=============================================================================
