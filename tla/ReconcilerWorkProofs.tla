------------------------ MODULE ReconcilerWorkProofs ------------------------
(***************************************************************************)
(* More proofs about Reconciler: no reconcile drops work, and what the     *)
(* status says was observed.                                               *)
(***************************************************************************)
EXTENDS ReconcilerProofs

(***************************************************************************)
(* Work.  When the controller is at rest the cache has caught up, and the  *)
(* last reconcile read what it shows: so it is enough that a reconcile     *)
(* that returns "stop" has done what its own snapshot asked for.           *)
(***************************************************************************)
StoreInv == VersionsOrdered /\ IncarnationsOrdered

\* The key is dirty again as soon as the cache has moved on.
SnapshotCurrent == Busy /\ ~dirty => orig = cache

\* No window is left that would have to end the pause of v.
Due(v) == PauseEnabled => v.ann \notin Windows \ elapsed

\* What makes it right to return from a reconcile of v that has patched along path.
PathDone ==
  \/ path = "paused" /\ ~orig.deleting /\ orig.ann # "none" /\ (verdict = "stop" => Due(orig))
  \/ path = "normal" /\ ~orig.deleting /\ obj.obs = orig.gen /\ Due(orig)
  \/ path = "permanent" /\ ~orig.deleting /\ <<orig.uid, orig.gen>> \in rejected /\ Due(orig)
  \/ path = "delete" /\ orig.deleting

TripInv ==
  /\ Busy => orig.rv <= server.rv
  /\ Busy /\ pc # "removeFinalizer" =>
       obj.uid = orig.uid /\ obj.gen = orig.gen /\ obj.ann = orig.ann
  /\ pc = "paused" => ~orig.deleting /\ orig.ann # "none"
  /\ pc = "sync" => ~orig.deleting /\ Due(orig)
  /\ pc \in {"finalize", "removeFinalizer"} => orig.deleting
  /\ pc \in {"patch", "patching"} => PathDone
  /\ pc = "patching" => orig.rv <= base /\ base <= server.rv

\* What nobody has to do anything about.
Settled(v) ==
  v.exists => IF v.deleting THEN ~v.fin
              ELSE /\ v.ann = "none" => v.obs = v.gen \/ <<v.uid, v.gen>> \in rejected
                   /\ Due(v)

AtRest == Quiescent => Settled(server)

WorkInv == StoreInv /\ SnapshotCurrent /\ TripInv /\ AtRest

-----------------------------------------------------------------------------
\* Writing o goes back to no older incarnation and takes no deletion back.
Onward(o) ==
  /\ o \in Version
  /\ o.uid >= server.uid
  /\ o.uid = server.uid /\ server.deleting => o.deleting

LEMMA SameIsOnward ==
  ASSUME TypeOK, NEW o \in Version, o.uid = server.uid, server.deleting => o.deleting
  PROVE  Onward(o)
  BY DEF Onward, TypeOK, Version

\* Any write that does not turn an incarnation back keeps the versions in order.
LEMMA WriteKeepsStore ==
  ASSUME TypeOK, StoreInv, NEW o, Onward(o), Write(o), cache' = cache
  PROVE  StoreInv' /\ server'.rv > server.rv /\ stream' # {}
<1>1. o \in Version /\ Precedes(server, o)
  BY DEF Onward, Precedes, TypeOK, Version
<1>2. StoreInv'
  BY <1>1, WriteKeepsOrder DEF StoreInv
<1>3. server'.rv = server.rv + 1 /\ server.rv \in Nat
  BY <1>1, WriteFacts DEF TypeOK, Version
<1>4. stream' # {}
  BY DEF Write
<1>5. QED BY <1>2, <1>3, <1>4

LEMMA AdvanceKeepsStore ==
  ASSUME TypeOK, StoreInv, NEW v \in Chain, cache' = v,
         stream' = {w \in stream : w.rv > v.rv}, server' = server
  PROVE  StoreInv'
<1>1. /\ server \in Chain /\ cache \in Chain /\ stream \subseteq Chain
      /\ \A w \in Chain : w.rv \in Nat
  BY ChainType DEF StoreInv, VersionsOrdered, Chain
<1>2. Chain' \subseteq Chain
  BY <1>1 DEF Chain
<1>3. \A w \in Chain : cache.rv <= w.rv
  BY <1>1 DEF StoreInv, VersionsOrdered, Chain
<1>4. server \in Chain'
  <2>1. CASE v = server
    BY <2>1 DEF Chain
  <2>2. CASE v # server
    <3>1. v.rv < server.rv
      BY <1>1, <2>2 DEF StoreInv, VersionsOrdered
    <3>2. server # cache
      BY <1>1, <1>3, <3>1
    <3>3. QED
      BY <1>1, <3>1, <3>2 DEF Chain
  <2>3. QED BY <2>1, <2>2
<1>5. QED
  BY <1>2, <1>4 DEF StoreInv, VersionsOrdered, IncarnationsOrdered, Precedes

LEMMA StoreUnchanged ==
  ASSUME StoreInv, UNCHANGED <<server, cache, stream>>
  PROVE  StoreInv'
  BY DEF StoreInv, VersionsOrdered, IncarnationsOrdered, Precedes, Chain

\* At rest the object that was read is the object that is stored.
LEMMA ReadIsStored ==
  ASSUME StoreInv, SnapshotCurrent, Busy, ~dirty, stream = {}
  PROVE  orig = server
  BY DEF StoreInv, VersionsOrdered, SnapshotCurrent, Chain

-----------------------------------------------------------------------------
\* The users' writes, whatever the constants.
LEMMA UsersWrite ==
  ASSUME TypeOK,
         UserCreate \/ UserEditSpec \/ UserSetPause \/ UserDelete \/ OtherReleases
  PROVE  /\ \E o : Write(o) /\ Onward(o)
         /\ UNCHANGED <<cache, dirty, timers, elapsed>>
<1>0. server \in Version /\ server.uid \in Nat /\ server.gen \in Nat
  BY DEF TypeOK, Version
<1>1. CASE UserCreate
  <2>1. PICK held \in BornHeld, fin \in BornWithFin : Write(NewObject(held, fin))
    BY <1>1 DEF UserCreate
  <2>2. NewObject(held, fin) \in Version
    <3>1. held \in BOOLEAN /\ fin \in BOOLEAN
      BY ChoicesAssumption
    <3>2. QED BY <1>0, <3>1 DEF NewObject, Version, Annotations
  <2>3. Onward(NewObject(held, fin))
    BY <1>0, <2>2 DEF NewObject, Onward
  <2>4. QED BY <1>1, <2>1, <2>3 DEF UserCreate
<1>2. CASE UserEditSpec
  <2>1. /\ [server EXCEPT !.gen = @ + 1] \in Version
        /\ [server EXCEPT !.gen = @ + 1].uid = server.uid
        /\ [server EXCEPT !.gen = @ + 1].deleting = server.deleting
    BY <1>0 DEF Version
  <2>2. Onward([server EXCEPT !.gen = @ + 1])
    BY <2>1, SameIsOnward
  <2>3. QED BY <1>2, <2>2 DEF UserEditSpec
<1>3. CASE UserSetPause
  <2>1. PICK a \in Annotations : Write([server EXCEPT !.ann = a])
    BY <1>3 DEF UserSetPause
  <2>2. /\ [server EXCEPT !.ann = a] \in Version
        /\ [server EXCEPT !.ann = a].uid = server.uid
        /\ [server EXCEPT !.ann = a].deleting = server.deleting
    BY <1>0 DEF Version
  <2>3. Onward([server EXCEPT !.ann = a])
    BY <2>2, SameIsOnward
  <2>4. QED BY <1>3, <2>1, <2>3 DEF UserSetPause
<1>4. CASE UserDelete
  <2>1. /\ [server EXCEPT !.deleting = TRUE] \in Version
        /\ [server EXCEPT !.deleting = TRUE].uid = server.uid
        /\ [server EXCEPT !.deleting = TRUE].deleting
    BY <1>0 DEF Version
  <2>2. Onward(Collected([server EXCEPT !.deleting = TRUE]))
    BY <2>1, CollectedType, SameIsOnward
  <2>3. QED BY <1>4, <2>2 DEF UserDelete
<1>5. CASE OtherReleases
  <2>1. /\ [server EXCEPT !.held = FALSE] \in Version
        /\ [server EXCEPT !.held = FALSE].uid = server.uid
        /\ [server EXCEPT !.held = FALSE].deleting = server.deleting
    BY <1>0 DEF Version
  <2>2. Onward(Collected([server EXCEPT !.held = FALSE]))
    BY <2>1, CollectedType, SameIsOnward
  <2>3. QED BY <1>5, <2>2 DEF OtherReleases
<1>6. QED BY <1>1, <1>2, <1>3, <1>4, <1>5

\* What a running reconcile knows survives what happens around it.
LEMMA TripKept ==
  ASSUME TypeOK, TripInv, UNCHANGED <<pc, obj, orig, path, verdict, base, rejected>>,
         server'.rv \in Nat, server'.rv >= server.rv, elapsed \subseteq elapsed'
  PROVE  TripInv'
<1>1. server.rv \in Nat /\ orig.rv \in Nat /\ base \in Nat
  BY DEF TypeOK, Version
<1>2. Due(orig) => Due(orig)'
  BY DEF Due
<1>3. PathDone => PathDone'
  BY <1>2 DEF PathDone
<1>4. QED
  BY <1>1, <1>2, <1>3 DEF TripInv, Busy

LEMMA EnvironmentKeepsWork ==
  ASSUME TypeOK, TypeOK', WorkInv, Environment
  PROVE  WorkInv'
<1>1. UNCHANGED <<pc, obj, orig, path, verdict, base, rejected>>
  BY DEF Environment, workerVars, ghostVars
<1>2. server.rv \in Nat /\ server'.rv \in Nat
  BY DEF TypeOK, Version
<1>3. CASE UserCreate \/ UserEditSpec \/ UserSetPause \/ UserDelete \/ OtherReleases
  <2>1. PICK o : Write(o) /\ Onward(o)
    BY <1>3, UsersWrite
  <2>2. UNCHANGED <<cache, dirty, timers, elapsed>>
    BY <1>3, UsersWrite
  <2>3. StoreInv' /\ server'.rv > server.rv /\ stream' # {}
    BY <2>1, <2>2, WriteKeepsStore DEF WorkInv
  <2>4. TripInv'
    BY <1>1, <1>2, <2>2, <2>3, TripKept DEF WorkInv
  <2>5. SnapshotCurrent' /\ AtRest'
    BY <1>1, <2>2, <2>3 DEF WorkInv, SnapshotCurrent, Busy, AtRest, Quiescent
  <2>6. QED BY <2>3, <2>4, <2>5 DEF WorkInv
<1>4. CASE Deliver
  <2>1. StoreInv'
    <3>1. PICK v \in Chain : cache' = v /\ stream' = {w \in stream : w.rv > v.rv}
      <4>1. PICK v \in stream : /\ \A w \in stream : v.rv <= w.rv
                                /\ cache' = v /\ stream' = stream \ {v}
        BY <1>4 DEF Deliver
      <4>2. \A w \in stream : w # v <=> w.rv > v.rv
        BY <4>1 DEF WorkInv, StoreInv, VersionsOrdered, TypeOK, Version
      <4>3. stream' = {w \in stream : w.rv > v.rv}
        BY <4>1, <4>2
      <4>4. QED BY <4>1, <4>3 DEF Chain
    <3>2. QED BY <1>4, <3>1, AdvanceKeepsStore DEF WorkInv, Deliver
  <2>2. dirty' = TRUE /\ UNCHANGED <<server, elapsed>>
    BY <1>4 DEF Deliver
  <2>3. TripInv'
    BY <1>1, <1>2, <2>2, TripKept DEF WorkInv
  <2>4. QED
    BY <2>1, <2>2, <2>3 DEF WorkInv, SnapshotCurrent, AtRest, Quiescent
<1>5. CASE TimerFires
  <2>1. dirty' = TRUE /\ UNCHANGED <<server, cache, stream, elapsed>>
    BY <1>5 DEF TimerFires
  <2>2. StoreInv' /\ TripInv'
    BY <1>1, <1>2, <2>1, StoreUnchanged, TripKept DEF WorkInv
  <2>3. QED
    BY <2>1, <2>2 DEF WorkInv, SnapshotCurrent, AtRest, Quiescent
<1>6. CASE WindowElapses
  <2>1. UNCHANGED <<server, cache, stream, dirty, timers>> /\ elapsed \subseteq elapsed'
    BY <1>6 DEF WindowElapses
  <2>2. StoreInv' /\ TripInv'
    BY <1>1, <1>2, <2>1, StoreUnchanged, TripKept DEF WorkInv
  <2>3. SnapshotCurrent'
    BY <1>1, <2>1 DEF WorkInv, SnapshotCurrent, Busy
  <2>4. AtRest'
    BY <1>1, <2>1 DEF WorkInv, AtRest, Quiescent, Settled, Due
  <2>5. QED BY <2>2, <2>3, <2>4 DEF WorkInv
<1>7. QED
  BY <1>3, <1>4, <1>5, <1>6 DEF Environment, CPNext

(***************************************************************************)
(* The worker.  A step that ends a reconcile leaves no snapshot to keep    *)
(* true; if it leaves a delayed re-add or a write to be delivered behind,  *)
(* the controller is not at rest.                                          *)
(***************************************************************************)
LEMMA BackToIdle ==
  ASSUME pc' = "idle"
  PROVE  SnapshotCurrent' /\ TripInv'
  BY DEF SnapshotCurrent, TripInv, Busy

LEMMA ReturnErrorKeepsWork ==
  ASSUME ReturnError, StoreInv'
  PROVE  WorkInv'
<1>1. pc' = "idle" /\ "rate" \in timers'
  BY DEF ReturnError, Return, Requeued
<1>2. AtRest'
  BY <1>1 DEF AtRest, Quiescent
<1>3. QED BY <1>1, <1>2, BackToIdle DEF WorkInv

\* A step within a reconcile.
LEMMA BusyKeepsWork ==
  ASSUME WorkInv, Busy, pc' # "idle", UNCHANGED <<cache, dirty, orig>>, StoreInv', TripInv'
  PROVE  WorkInv'
  BY DEF WorkInv, SnapshotCurrent, Busy, AtRest, Quiescent

LEMMA GetKeepsWork ==
  ASSUME TypeOK, WorkInv, Get
  PROVE  WorkInv'
<1>1. StoreInv'
  BY StoreUnchanged DEF Get, WorkInv
<1>2. UNCHANGED <<server, cache, stream, elapsed>> /\ pc = "idle" /\ dirty' = FALSE
  BY DEF Get
<1>3. CASE NothingToDo(cache)
  <2>1. pc' = "idle" /\ UNCHANGED <<timers, rejected>>
    BY <1>2, <1>3 DEF Get, ghostVars
  <2>2. ASSUME stream = {} PROVE Settled(server)
    <3>1. server = cache
      BY <2>2 DEF WorkInv, StoreInv, VersionsOrdered, Chain
    <3>2. QED BY <1>3, <3>1 DEF NothingToDo, Settled
  <2>3. AtRest'
    BY <1>2, <2>1, <2>2 DEF AtRest, Quiescent, Settled, Due
  <2>4. QED BY <1>1, <2>1, <2>3, BackToIdle DEF WorkInv
<1>4. CASE ~NothingToDo(cache)
  <2>1. pc' = Route(cache) /\ obj' = cache /\ orig' = cache
    BY <1>4 DEF Get, Goto
  <2>2. pc' \in {"finalize", "removeFinalizer", "paused", "addFinalizer", "sync"}
    BY <2>1 DEF Route
  <2>3. pc' \in {"finalize", "removeFinalizer"} => cache.deleting
    BY <2>1 DEF Route
  <2>4. pc' = "paused" => ~cache.deleting /\ cache.ann # "none"
    BY <2>1 DEF Route, IsPaused
  <2>5. pc' = "sync" => ~cache.deleting /\ Due(cache)
    <3>1. "none" \notin Windows
      BY WindowsAssumption
    <3>2. QED BY <2>1, <3>1 DEF Route, IsPaused, ShouldResume, Due
  <2>6. cache.rv <= server.rv
    BY DEF WorkInv, StoreInv, VersionsOrdered, Chain
  <2>7. TripInv'
    BY <1>2, <2>1, <2>2, <2>3, <2>4, <2>5, <2>6 DEF TripInv, Due
  <2>8. SnapshotCurrent' /\ AtRest'
    BY <1>2, <2>1, <2>2 DEF SnapshotCurrent, AtRest, Quiescent
  <2>9. QED BY <1>1, <2>7, <2>8 DEF WorkInv
<1>5. QED BY <1>3, <1>4

LEMMA SkipPausedKeepsWork ==
  ASSUME TypeOK, WorkInv, SkipPaused
  PROVE  WorkInv'
<1>1. /\ pc = "paused" /\ pc' = "patch" /\ path' = "paused"
      /\ obj' = OnPause(obj) /\ verdict' = PauseResult(obj)
      /\ UNCHANGED <<server, cache, stream, dirty, elapsed, orig>>
  BY DEF SkipPaused, Goto
<1>2. /\ ~orig.deleting /\ orig.ann # "none" /\ orig.rv <= server.rv
      /\ obj.uid = orig.uid /\ obj.gen = orig.gen /\ obj.ann = orig.ann
  BY <1>1 DEF WorkInv, TripInv, Busy
<1>3. obj'.uid = obj.uid /\ obj'.gen = obj.gen /\ obj'.ann = obj.ann
  BY <1>1 DEF OnPause, TypeOK, Version
<1>4. verdict' = "stop" => Due(orig)
  BY <1>1, <1>2, WindowsAssumption DEF PauseResult, Due
<1>5. PathDone'
  BY <1>1, <1>2, <1>4 DEF PathDone, Due
<1>6. TripInv'
  BY <1>1, <1>2, <1>3, <1>5 DEF TripInv
<1>7. QED
  BY <1>1, <1>6, StoreUnchanged, BusyKeepsWork DEF WorkInv, Busy

LEMMA AddFinalizerKeepsWork ==
  ASSUME TypeOK, WorkInv, AddFinalizer
  PROVE  WorkInv'
<1>1. ReturnError /\ UNCHANGED cache
  BY DEF AddFinalizer, ReturnError
<1>2. CASE UNCHANGED <<server, stream>>
  BY <1>1, <1>2, StoreUnchanged, ReturnErrorKeepsWork DEF WorkInv
<1>3. CASE Write([server EXCEPT !.fin = TRUE])
  <2>1. /\ [server EXCEPT !.fin = TRUE] \in Version
        /\ [server EXCEPT !.fin = TRUE].uid = server.uid
        /\ [server EXCEPT !.fin = TRUE].deleting = server.deleting
    BY DEF TypeOK, Version
  <2>2. StoreInv'
    BY <1>1, <1>3, <2>1, SameIsOnward, WriteKeepsStore DEF WorkInv
  <2>3. QED BY <1>1, <2>2, ReturnErrorKeepsWork
<1>4. QED BY <1>2, <1>3 DEF AddFinalizer

LEMMA SyncKeepsWork ==
  ASSUME TypeOK, WorkInv, SyncSucceeds \/ SyncFails \/ SyncRejects
  PROVE  WorkInv'
<1>1. pc = "sync" /\ UNCHANGED <<server, cache, stream, dirty, elapsed>>
  BY DEF SyncSucceeds, SyncFails, SyncRejects
<1>2. StoreInv'
  BY <1>1, StoreUnchanged DEF WorkInv
<1>3. /\ ~orig.deleting /\ Due(orig) /\ orig.rv <= server.rv
      /\ obj.uid = orig.uid /\ obj.gen = orig.gen /\ obj.ann = orig.ann
  BY <1>1 DEF WorkInv, TripInv, Busy
<1>4. CASE SyncSucceeds
  <2>1. pc' = "patch" /\ path' = "normal" /\ obj' = Observe(obj) /\ UNCHANGED orig
    BY <1>4 DEF SyncSucceeds, Goto
  <2>2. /\ obj'.uid = obj.uid /\ obj'.gen = obj.gen /\ obj'.ann = obj.ann
        /\ obj'.obs = obj.gen
    BY <2>1 DEF Observe, TypeOK, Version
  <2>3. PathDone'
    BY <1>1, <1>3, <2>1, <2>2 DEF PathDone, Due
  <2>4. TripInv'
    BY <1>1, <1>3, <2>1, <2>2, <2>3 DEF TripInv
  <2>5. QED BY <1>1, <1>2, <2>1, <2>4, BusyKeepsWork DEF Busy
<1>5. CASE SyncFails
  BY <1>2, <1>5, ReturnErrorKeepsWork DEF SyncFails
<1>6. CASE SyncRejects /\ BackoffGiven
  BY <1>2, <1>6, ReturnErrorKeepsWork DEF SyncRejects
<1>7. CASE SyncRejects /\ ~BackoffGiven
  <2>1. /\ pc' = "patch" /\ path' = "permanent" /\ obj' = [obj EXCEPT !.ready = "False"]
        /\ <<obj.uid, obj.gen>> \in rejected' /\ UNCHANGED orig
    BY <1>7 DEF SyncRejects, Goto
  <2>2. obj'.uid = obj.uid /\ obj'.gen = obj.gen /\ obj'.ann = obj.ann
    BY <2>1 DEF TypeOK, Version
  <2>3. PathDone'
    BY <1>1, <1>3, <2>1 DEF PathDone, Due
  <2>4. TripInv'
    BY <1>1, <1>3, <2>1, <2>2, <2>3 DEF TripInv
  <2>5. QED BY <1>1, <1>2, <2>1, <2>4, BusyKeepsWork DEF Busy
<1>8. QED BY <1>4, <1>5, <1>6, <1>7

LEMMA FinalizeKeepsWork ==
  ASSUME TypeOK, WorkInv, FinalizeDone \/ FinalizeRequeues \/ FinalizeFails
  PROVE  WorkInv'
<1>1. pc = "finalize" /\ UNCHANGED <<server, cache, stream, dirty>>
  BY DEF FinalizeDone, FinalizeRequeues, FinalizeFails
<1>2. StoreInv'
  BY <1>1, StoreUnchanged DEF WorkInv
<1>3. CASE FinalizeFails
  BY <1>2, <1>3, ReturnErrorKeepsWork DEF FinalizeFails
<1>4. CASE FinalizeDone \/ FinalizeRequeues
  <2>1. pc' = "patch" /\ path' = "delete" /\ UNCHANGED orig
    BY <1>4 DEF FinalizeDone, FinalizeRequeues, Goto
  <2>2. obj'.uid = obj.uid /\ obj'.gen = obj.gen /\ obj'.ann = obj.ann
    BY <1>4 DEF FinalizeDone, FinalizeRequeues, TypeOK, Version
  <2>3. /\ orig.deleting /\ orig.rv <= server.rv
        /\ obj.uid = orig.uid /\ obj.gen = orig.gen /\ obj.ann = orig.ann
    BY <1>1 DEF WorkInv, TripInv, Busy
  <2>4. TripInv'
    BY <1>1, <2>1, <2>2, <2>3 DEF TripInv, PathDone
  <2>5. QED BY <1>1, <1>2, <2>1, <2>4, BusyKeepsWork DEF Busy
<1>5. QED BY <1>3, <1>4

LEMMA SendPatchKeepsWork ==
  ASSUME TypeOK, WorkInv, SendPatch
  PROVE  WorkInv'
<1>1. /\ pc = "patch" /\ pc' = "patching" /\ base' = server.rv
      /\ UNCHANGED <<server, cache, stream, dirty, elapsed, obj, orig, path, verdict, rejected>>
  BY DEF SendPatch, Goto, ghostVars
<1>2. server.rv \in Nat
  BY DEF TypeOK, Version
<1>3. TripInv'
  BY <1>1, <1>2 DEF WorkInv, TripInv, PathDone, Due, Busy
<1>4. QED BY <1>1, <1>3, StoreUnchanged, BusyKeepsWork DEF WorkInv, Busy

\* What patchStatus was called for is done, as far as the object that is stored
\* when nothing else is left to do is concerned.
LEMMA DoneIsSettled ==
  ASSUME TypeOK, WorkInv, pc = "patching", path # "delete", verdict = "stop",
         ~dirty, stream = {}, path = "normal" => server.obs = server.gen
  PROVE  Settled(server)
<1>1. orig = server
  BY ReadIsStored DEF WorkInv, Busy
<1>2. PathDone
  BY DEF WorkInv, TripInv
<1>3. QED BY <1>1, <1>2 DEF PathDone, Settled

\* The ways to go on after a patch, once the versions are in order.
LEMMA AfterPatchKeepsWork ==
  ASSUME TypeOK, WorkInv, pc = "patching", NEW o, AfterPatch(o), StoreInv', server'.rv \in Nat,
         server'.rv >= server.rv, UNCHANGED <<cache, dirty, elapsed, rejected>>,
         stream' = {} => /\ UNCHANGED <<server, stream>>
                         /\ ~dirty /\ path = "normal" => server.obs = server.gen
  PROVE  WorkInv'
<1>1. CASE path = "delete" /\ verdict = "stop"
  <2>1. pc' = "removeFinalizer" /\ UNCHANGED orig
    BY <1>1 DEF AfterPatch, Goto
  <2>2. orig.deleting /\ orig.rv <= server.rv
    BY <1>1 DEF WorkInv, TripInv, PathDone, Busy
  <2>3. server.rv \in Nat /\ orig.rv \in Nat
    BY DEF TypeOK, Version
  <2>4. TripInv'
    BY <2>1, <2>2, <2>3 DEF TripInv
  <2>5. QED BY <2>1, <2>4, BusyKeepsWork DEF Busy
<1>2. CASE ~(path = "delete" /\ verdict = "stop")
  <2>1. pc' = "idle" /\ timers' = timers \cup Requeued(verdict)
    BY <1>2 DEF AfterPatch, Return
  <2>2. AtRest'
    <3> SUFFICES ASSUME Quiescent' PROVE Settled(server)'
      BY DEF AtRest
    <3>1. verdict = "stop" /\ ~dirty /\ UNCHANGED server /\ stream = {}
      BY <2>1 DEF Quiescent, Requeued
    <3>2. Settled(server)
      BY <1>2, <3>1, DoneIsSettled DEF Quiescent
    <3>3. QED BY <3>1, <3>2 DEF Settled, Due
  <2>3. QED BY <2>1, <2>2, BackToIdle DEF WorkInv
<1>3. QED BY <1>1, <1>2

LEMMA PatchAppliedKeepsWork ==
  ASSUME TypeOK, WorkInv, PatchApplied
  PROVE  WorkInv'
<1>1. /\ pc = "patching" /\ AfterPatch(server')
      /\ UNCHANGED <<cache, dirty, elapsed, rejected>>
  BY DEF PatchApplied, ghostVars
<1>2. server.rv \in Nat
  BY DEF TypeOK, Version
<1>3. CASE Merged = server
  <2>1. UNCHANGED <<server, stream>>
    BY <1>3 DEF PatchApplied
  <2>2. ASSUME stream = {}, ~dirty, path = "normal"
        PROVE  server.obs = server.gen
    <3>1. orig = server
      BY <1>1, <2>2, ReadIsStored DEF WorkInv, Busy
    <3>2. obj.obs = orig.gen
      BY <1>1, <2>2 DEF WorkInv, TripInv, PathDone
    <3>3. Merged.obs = IF obj.obs # orig.obs THEN obj.obs ELSE server.obs
      BY DEF Merged, TypeOK, Version
    <3>4. QED BY <1>3, <3>1, <3>2, <3>3
  <2>3. QED
    BY <1>1, <1>2, <2>1, <2>2, StoreUnchanged, AfterPatchKeepsWork DEF WorkInv
<1>4. CASE Merged # server
  <2>1. Write(Merged)
    BY <1>4 DEF PatchApplied
  <2>2. Merged \in Version /\ Merged.uid = server.uid /\ Merged.deleting = server.deleting
    BY DEF TypeOK, Merged, Version
  <2>3. StoreInv' /\ server'.rv = server.rv + 1 /\ stream' # {}
    BY <1>1, <2>1, <2>2, SameIsOnward, WriteFacts, WriteKeepsStore DEF WorkInv
  <2>4. QED BY <1>1, <1>2, <2>3, AfterPatchKeepsWork
<1>5. QED BY <1>3, <1>4

\* A conflict means a write since the patch was sent, which is still to come.
LEMMA PatchConflictKeepsWork ==
  ASSUME TypeOK, WorkInv, PatchConflict
  PROVE  WorkInv'
<1>1. /\ pc = "patching" /\ server.rv # base /\ AfterPatch(obj)
      /\ UNCHANGED <<server, cache, stream, dirty, elapsed, rejected>>
  BY DEF PatchConflict, ghostVars
<1>2. server.rv \in Nat /\ base \in Nat
  BY DEF TypeOK, Version
<1>3. ~dirty => stream # {}
  <2> SUFFICES ASSUME ~dirty, stream = {} PROVE FALSE
    OBVIOUS
  <2>1. orig = server
    BY <1>1, ReadIsStored DEF WorkInv, Busy
  <2>2. QED BY <1>1, <1>2, <2>1 DEF WorkInv, TripInv
<1>4. QED
  BY <1>1, <1>2, <1>3, StoreUnchanged, AfterPatchKeepsWork DEF WorkInv

\* An error is only dropped by callers that have nothing more to do.
LEMMA PatchFailsKeepsWork ==
  ASSUME TypeOK, WorkInv, PatchFails
  PROVE  WorkInv'
<1>1. /\ pc = "patching" /\ AfterPatchError
      /\ UNCHANGED <<server, cache, stream, dirty, elapsed, rejected>>
  BY DEF PatchFails, ghostVars
<1>2. StoreInv'
  BY <1>1, StoreUnchanged DEF WorkInv
<1>3. CASE path \notin {"paused", "permanent"}
  BY <1>1, <1>2, <1>3, ReturnErrorKeepsWork DEF AfterPatchError
<1>4. CASE path \in {"paused", "permanent"}
  <2>1. pc' = "idle" /\ timers' = timers \cup Requeued(verdict)
    BY <1>1, <1>4 DEF AfterPatchError, Return
  <2>2. AtRest'
    <3> SUFFICES ASSUME Quiescent' PROVE Settled(server)'
      BY DEF AtRest
    <3>1. verdict = "stop" /\ ~dirty /\ stream = {}
      BY <1>1, <2>1 DEF Quiescent, Requeued
    <3>2. Settled(server)
      BY <1>1, <1>4, <3>1, DoneIsSettled
    <3>3. QED BY <1>1, <3>2 DEF Settled, Due
  <2>3. QED BY <1>2, <2>1, <2>2, BackToIdle DEF WorkInv
<1>5. QED BY <1>3, <1>4

LEMMA RemoveFinalizerKeepsWork ==
  ASSUME TypeOK, WorkInv, RemoveFinalizer
  PROVE  WorkInv'
<1>1. pc = "removeFinalizer" /\ UNCHANGED <<cache, dirty, elapsed, rejected>>
  BY DEF RemoveFinalizer, ghostVars
<1>2. CASE ReturnError /\ UNCHANGED <<server, stream>>
  BY <1>1, <1>2, StoreUnchanged, ReturnErrorKeepsWork DEF WorkInv
<1>3. CASE server.fin /\ Write(Collected([server EXCEPT !.fin = FALSE])) /\ Return("stop")
  <2>1. /\ [server EXCEPT !.fin = FALSE] \in Version
        /\ [server EXCEPT !.fin = FALSE].uid = server.uid
        /\ [server EXCEPT !.fin = FALSE].deleting = server.deleting
    BY DEF TypeOK, Version
  <2>2. StoreInv' /\ stream' # {}
    BY <1>1, <1>3, <2>1, CollectedType, SameIsOnward, WriteKeepsStore DEF WorkInv
  <2>3. QED
    BY <1>3, <2>2, BackToIdle DEF Return, WorkInv, AtRest, Quiescent
<1>4. CASE ~server.fin /\ UNCHANGED <<server, stream>> /\ Return("stop")
  <2>1. ASSUME ~dirty, stream = {} PROVE Settled(server)
    <3>1. orig = server /\ orig.deleting
      BY <1>1, <2>1, ReadIsStored DEF WorkInv, TripInv, Busy
    <3>2. QED BY <1>4, <3>1 DEF Settled
  <2>2. AtRest'
    BY <1>1, <1>4, <2>1 DEF AtRest, Quiescent, Settled, Due
  <2>3. QED
    BY <1>1, <1>4, <2>2, StoreUnchanged, BackToIdle DEF Return, WorkInv
<1>5. QED BY <1>2, <1>3, <1>4 DEF RemoveFinalizer

LEMMA CrashKeepsWork ==
  ASSUME TypeOK, WorkInv, Crash
  PROVE  WorkInv'
<1>1. pc' = "idle" /\ dirty' = TRUE
  BY DEF Crash
<1>2. StoreInv'
  BY AdvanceKeepsStore DEF Crash, WorkInv
<1>3. QED
  BY <1>1, <1>2, BackToIdle DEF WorkInv, AtRest, Quiescent

-----------------------------------------------------------------------------
\* The invariant behind the two theorems below, for every handler and every choice
\* of the constants.
THEOREM WorkInvariance == Spec => []WorkInv
<1>1. Init => WorkInv
  <2> SUFFICES ASSUME Init PROVE WorkInv
    OBVIOUS
  <2>1. /\ server = NoObject /\ cache = NoObject /\ stream = {} /\ pc = "idle"
    BY DEF Init, CPInit
  <2>2. Chain = {NoObject} /\ NoObject.rv = 0 /\ NoObject.uid = 0 /\ ~NoObject.exists
    BY <2>1 DEF Chain, NoObject
  <2>3. StoreInv
    BY <2>1, <2>2 DEF StoreInv, VersionsOrdered, IncarnationsOrdered, Precedes
  <2>4. QED
    BY <2>1, <2>2, <2>3 DEF WorkInv, SnapshotCurrent, TripInv, Busy, AtRest, Settled
<1>2. TypeOK /\ TypeOK' /\ WorkInv /\ [Next]_vars => WorkInv'
  <2> SUFFICES ASSUME TypeOK, TypeOK', WorkInv, [Next]_vars PROVE WorkInv'
    OBVIOUS
  <2>1. CASE GetFails
    BY <2>1, StoreUnchanged, ReturnErrorKeepsWork DEF GetFails, WorkInv
  <2>2. CASE Worker
    BY <2>1, <2>2, GetKeepsWork, SkipPausedKeepsWork, AddFinalizerKeepsWork, SyncKeepsWork,
       FinalizeKeepsWork, SendPatchKeepsWork, PatchAppliedKeepsWork, PatchConflictKeepsWork,
       PatchFailsKeepsWork, RemoveFinalizerKeepsWork DEF Worker
  <2>3. CASE UNCHANGED vars
    <3>1. UNCHANGED <<server, cache, stream, dirty, timers, elapsed, pc, obj, orig, path,
                      verdict, base, rejected>>
      BY <2>3 DEF vars, cpVars, workerVars, ghostVars
    <3>2. StoreInv'
      BY <3>1, StoreUnchanged DEF WorkInv
    <3>3. TripInv'
      BY <3>1 DEF WorkInv, TripInv, Busy, PathDone, Due
    <3>4. SnapshotCurrent' /\ AtRest'
      BY <3>1 DEF WorkInv, SnapshotCurrent, Busy, AtRest, Quiescent, Settled, Due
    <3>5. QED BY <3>2, <3>3, <3>4 DEF WorkInv
  <2>4. QED
    BY <2>2, <2>3, EnvironmentKeepsWork, CrashKeepsWork DEF Next
<1>3. QED
  BY <1>1, <1>2, TypeCorrect, PTL DEF Spec

\* No return path of Reconcile drops work: at rest, a live unpaused object is synced
\* at its generation or was rejected there, and a deleted one is let go.
THEOREM NoLostWorkCorrect == Spec => []NoLostWork
<1>1. WorkInv => NoLostWork
  BY DEF WorkInv, AtRest, Settled, NoLostWork
<1>2. QED BY <1>1, WorkInvariance, PTL

\* A pause that still has to end by itself keeps the controller awake.
THEOREM AutoResumeScheduledCorrect == Spec => []AutoResumeScheduled
<1>1. WorkInv => AutoResumeScheduled
  BY DEF WorkInv, AtRest, Settled, Due, AutoResumeScheduled
<1>2. QED BY <1>1, WorkInvariance, PTL

(***************************************************************************)
(* Observed generations.  A merge patch with a new observedGeneration is   *)
(* only ever sent for an incarnation whose finalizer is stored, so it      *)
(* lands where it was meant; and its value is the generation of the        *)
(* snapshot, which no stored observedGeneration has got ahead of.          *)
(***************************************************************************)
\* v has observed nothing that a reader of w does not know to exist.
Within(v, w) ==
  /\ v.uid = w.uid => v.obs <= w.gen
  /\ v.uid > w.uid => v.obs = 0

GenerationsOrdered ==
  \A v, w \in Chain : v.rv <= w.rv /\ v.uid = w.uid => v.gen <= w.gen

ChainSynced == \A v \in Chain : v.obs > 0 => <<v.uid, v.obs>> \in synced

ChainWithin == \A v \in Chain : Within(v, cache)

SnapshotWithin ==
  Busy => \A v \in Chain : Within(v, orig) /\ (v.uid = orig.uid => orig.gen <= v.gen)

MemoryInv ==
  /\ pc \in {"sync", "paused", "finalize"} => obj.obs = orig.obs
  /\ pc \in {"patch", "patching"} =>
       IF path = "normal"
       THEN /\ orig.fin /\ ~orig.deleting
            /\ obj.obs = orig.gen /\ <<orig.uid, orig.gen>> \in synced
       ELSE obj.obs = orig.obs

ObsInv ==
  GenerationsOrdered /\ ChainSynced /\ ChainWithin /\ SnapshotWithin /\ MemoryInv

-----------------------------------------------------------------------------
\* Writing o observes nothing: it keeps what is observed, or starts afresh.
Modest(o) ==
  /\ o \in Version
  /\ \/ o.uid = server.uid /\ o.gen >= server.gen /\ o.obs = server.obs
     \/ o.uid > server.uid /\ o.obs = 0

\* The step leaves the snapshot alone or has no more use for it.
SnapshotKept == pc' = "idle" \/ (Busy /\ orig' = orig)

\* A version that differs from the stored one in neither of those is modest.
LEMMA SameIsModest ==
  ASSUME TypeOK, NEW o \in Version, o.uid = server.uid, o.gen = server.gen, o.obs = server.obs
  PROVE  Modest(o) /\ Modest(Collected(o))
<1>1. server.gen \in Nat
  BY DEF TypeOK, Version
<1>2. Collected(o) \in Version /\ Collected(o).uid = o.uid
  BY CollectedType
<1>3. Collected(o).gen = o.gen /\ Collected(o).obs = o.obs
  <2>1. [o EXCEPT !.exists = FALSE].gen = o.gen /\ [o EXCEPT !.exists = FALSE].obs = o.obs
    BY DEF Version
  <2>2. QED BY <2>1 DEF Collected
<1>4. QED BY <1>1, <1>2, <1>3 DEF Modest

\* What the API server stores, field by field.
LEMMA WriteStores ==
  ASSUME TypeOK, NEW o \in Version, Write(o), cache' = cache
  PROVE  /\ server'.rv = server.rv + 1
         /\ server'.uid = o.uid /\ server'.gen = o.gen /\ server'.obs = o.obs
         /\ Chain' = Chain \cup {server'}
  BY DEF Write, Version, Chain, TypeOK

LEMMA VersionNumbers ==
  ASSUME TypeOK
  PROVE  \A v \in Chain \cup {server, cache, orig, obj} :
           v.rv \in Nat /\ v.uid \in Nat /\ v.gen \in Nat /\ v.obs \in Nat
  BY DEF TypeOK, Chain, Version

\* A write of an incarnation that exists leaves the order of generations and what
\* is within reach of the readers alone if its observedGeneration is within theirs.
LEMMA WriteKeepsObs ==
  ASSUME TypeOK, VersionsOrdered, ObsInv, NEW o \in Version, Write(o),
         o.uid = server.uid => o.gen >= server.gen, o.uid >= server.uid,
         IncarnationsOrdered, Within(o, cache), Busy => Within(o, orig) /\ orig.uid <= server.uid,
         o.obs > 0 => <<o.uid, o.obs>> \in synced,
         UNCHANGED <<cache, synced>>
  PROVE  GenerationsOrdered' /\ ChainSynced' /\ ChainWithin' /\ (SnapshotKept => SnapshotWithin')
<1>1. /\ server'.rv = server.rv + 1
      /\ server'.uid = o.uid /\ server'.gen = o.gen /\ server'.obs = o.obs
      /\ Chain' = Chain \cup {server'}
  BY WriteStores
<1>2. /\ \A v \in Chain \cup {server, cache, orig} :
            v.rv \in Nat /\ v.uid \in Nat /\ v.gen \in Nat /\ v.obs \in Nat
      /\ o.uid \in Nat /\ o.gen \in Nat /\ o.obs \in Nat /\ server \in Chain
  BY VersionNumbers DEF Version, VersionsOrdered
<1>3. GenerationsOrdered'
  <2>1. \A v \in Chain : v.rv <= server.rv /\ v.uid <= server.uid
    BY <1>2 DEF VersionsOrdered, IncarnationsOrdered, Precedes
  <2>2. \A v \in Chain : v.uid = server'.uid => v.gen <= server'.gen
    BY <1>1, <1>2, <2>1 DEF ObsInv, GenerationsOrdered
  <2>3. ASSUME NEW v \in Chain', NEW w \in Chain', v.rv <= w.rv, v.uid = w.uid
        PROVE  v.gen <= w.gen
    <3>1. CASE v \in Chain /\ w \in Chain
      BY <2>3, <3>1 DEF ObsInv, GenerationsOrdered
    <3>2. CASE v \in Chain /\ w = server'
      BY <2>2, <2>3, <3>2
    <3>3. CASE v = server' /\ w \in Chain
      BY <1>1, <1>2, <2>1, <2>3, <3>3
    <3>4. CASE v = server' /\ w = server'
      BY <1>1, <1>2, <3>4
    <3>5. QED BY <1>1, <3>1, <3>2, <3>3, <3>4
  <2>4. QED BY <2>3 DEF GenerationsOrdered
<1>4. ChainSynced'
  BY <1>1 DEF ObsInv, ChainSynced
<1>5. ChainWithin'
  BY <1>1 DEF ObsInv, ChainWithin, Within
<1>6. ASSUME orig' = orig, Busy PROVE SnapshotWithin'
  <2>1. \A v \in Chain' : Within(v, orig)
    BY <1>1, <1>6 DEF ObsInv, SnapshotWithin, Within
  <2>2. server'.uid = orig.uid => orig.gen <= server'.gen
    BY <1>1, <1>2, <1>6 DEF ObsInv, SnapshotWithin
  <2>3. QED
    BY <1>1, <1>6, <2>1, <2>2 DEF ObsInv, SnapshotWithin, Within
<1>7. QED BY <1>3, <1>4, <1>5, <1>6 DEF SnapshotKept, SnapshotWithin, Busy

LEMMA ModestKeepsObs ==
  ASSUME TypeOK, IInv, ObsInv, NEW o, Modest(o), Write(o), UNCHANGED <<cache, synced>>
  PROVE  GenerationsOrdered' /\ ChainSynced' /\ ChainWithin' /\ (SnapshotKept => SnapshotWithin')
<1>1. server \in Chain /\ o \in Version
  BY DEF Modest, IInv, CoreInv, VersionsOrdered
<1>2. \A v \in {server, cache, orig, o} : v.uid \in Nat /\ v.gen \in Nat
  BY <1>1, VersionNumbers DEF Version
<1>3. cache.uid <= server.uid /\ Within(server, cache)
  <2>1. cache.rv <= server.rv /\ cache \in Chain
    BY DEF IInv, CoreInv, VersionsOrdered, Chain
  <2>2. QED
    BY <1>1, <2>1 DEF IInv, CoreInv, IncarnationsOrdered, Precedes, ObsInv, ChainWithin
<1>4. Busy => orig.uid <= server.uid /\ Within(server, orig)
  BY <1>1 DEF IInv, ReadInv, Precedes, ObsInv, SnapshotWithin
<1>5. Within(o, cache) /\ (Busy => Within(o, orig))
  BY <1>2, <1>3, <1>4 DEF Modest, Within
<1>6. o.obs > 0 => <<o.uid, o.obs>> \in synced
  BY <1>1 DEF Modest, ObsInv, ChainSynced
<1>7. (o.uid = server.uid => o.gen >= server.gen) /\ o.uid >= server.uid
  BY <1>2 DEF Modest
<1>8. QED
  BY <1>1, <1>4, <1>5, <1>6, <1>7, WriteKeepsObs DEF IInv, CoreInv

LEMMA AdvanceKeepsObs ==
  ASSUME TypeOK, IInv, ObsInv, NEW v \in Chain, cache' = v,
         stream' = {w \in stream : w.rv > v.rv}, UNCHANGED <<server, synced>>
  PROVE  GenerationsOrdered' /\ ChainSynced' /\ ChainWithin' /\ (SnapshotKept => SnapshotWithin')
<1>1. Chain' \subseteq Chain
  BY DEF Chain
<1>2. \A w \in Chain : w.rv \in Nat /\ w.uid \in Nat /\ w.gen \in Nat /\ w.obs \in Nat
  BY VersionNumbers
<1>3. cache \in Chain /\ \A w \in Chain : cache.rv <= w.rv
  BY <1>2 DEF IInv, CoreInv, VersionsOrdered, Chain
<1>4. \A w \in Chain' : v.rv <= w.rv
  BY <1>2 DEF Chain
<1>5. GenerationsOrdered' /\ ChainSynced'
  BY <1>1 DEF ObsInv, GenerationsOrdered, ChainSynced
<1>6. ChainWithin'
  <2> SUFFICES ASSUME NEW w \in Chain' PROVE Within(w, v)
    BY DEF ChainWithin, Within
  <2>1. w \in Chain /\ Within(w, cache)
    BY <1>1 DEF ObsInv, ChainWithin
  <2>2. cache.uid <= v.uid
    BY <1>3 DEF IInv, CoreInv, IncarnationsOrdered, Precedes
  <2>3. cache.uid = v.uid => cache.gen <= v.gen
    BY <1>3 DEF ObsInv, GenerationsOrdered
  <2>4. QED BY <1>2, <1>3, <2>1, <2>2, <2>3 DEF Within
<1>7. SnapshotKept => SnapshotWithin'
  BY <1>1 DEF ObsInv, SnapshotKept, SnapshotWithin, Within, Busy
<1>8. QED BY <1>5, <1>6, <1>7

LEMMA ChainKeepsObs ==
  ASSUME ObsInv, UNCHANGED <<server, cache, stream>>, synced \subseteq synced'
  PROVE  GenerationsOrdered' /\ ChainSynced' /\ ChainWithin' /\ (SnapshotKept => SnapshotWithin')
<1>1. Chain' = Chain
  BY DEF Chain
<1>2. QED
  BY <1>1 DEF ObsInv, GenerationsOrdered, ChainSynced, ChainWithin, SnapshotKept,
     SnapshotWithin, Within, Busy

LEMMA UsersAreModest ==
  ASSUME TypeOK,
         UserCreate \/ UserEditSpec \/ UserSetPause \/ UserDelete \/ OtherReleases
  PROVE  \E o : Write(o) /\ Modest(o)
<1>0. server \in Version /\ server.uid \in Nat /\ server.gen \in Nat
  BY DEF TypeOK, Version
<1>1. CASE UserCreate
  <2>1. PICK held \in BornHeld, fin \in BornWithFin : Write(NewObject(held, fin))
    BY <1>1 DEF UserCreate
  <2>2. NewObject(held, fin) \in Version
    <3>1. held \in BOOLEAN /\ fin \in BOOLEAN
      BY ChoicesAssumption
    <3>2. QED BY <1>0, <3>1 DEF NewObject, Version, Annotations
  <2>3. Modest(NewObject(held, fin))
    BY <1>0, <2>2 DEF NewObject, Modest
  <2>4. QED BY <2>1, <2>3
<1>2. CASE UserEditSpec
  <2>1. Modest([server EXCEPT !.gen = @ + 1])
    BY <1>0 DEF Modest, Version
  <2>2. QED BY <1>2, <2>1 DEF UserEditSpec
<1>3. CASE UserSetPause
  <2>1. PICK a \in Annotations : Write([server EXCEPT !.ann = a])
    BY <1>3 DEF UserSetPause
  <2>2. Modest([server EXCEPT !.ann = a])
    BY <1>0 DEF Modest, Version
  <2>3. QED BY <2>1, <2>2
<1>4. CASE UserDelete
  <2> DEFINE o == [server EXCEPT !.deleting = TRUE]
  <2>0. o \in Version /\ o.uid = server.uid /\ o.gen = server.gen /\ o.obs = server.obs
    BY DEF TypeOK, Version
  <2>1. Modest(Collected(o))
    BY <2>0, SameIsModest
  <2>2. QED BY <1>4, <2>1 DEF UserDelete
<1>5. CASE OtherReleases
  <2> DEFINE o == [server EXCEPT !.held = FALSE]
  <2>0. o \in Version /\ o.uid = server.uid /\ o.gen = server.gen /\ o.obs = server.obs
    BY DEF TypeOK, Version
  <2>1. Modest(Collected(o))
    BY <2>0, SameIsModest
  <2>2. QED BY <1>5, <2>1 DEF OtherReleases
<1>6. QED BY <1>1, <1>2, <1>3, <1>4, <1>5

LEMMA EnvironmentKeepsObs ==
  ASSUME TypeOK, IInv, ObsInv, Environment
  PROVE  ObsInv'
<1>1. UNCHANGED <<pc, obj, orig, path, synced>>
  BY DEF Environment, workerVars, ghostVars
<1>2. MemoryInv'
  BY <1>1 DEF ObsInv, MemoryInv
<1>k. SnapshotKept
  BY <1>1 DEF SnapshotKept, Busy
<1>3. CASE UserCreate \/ UserEditSpec \/ UserSetPause \/ UserDelete \/ OtherReleases
  <2>1. PICK o : Write(o) /\ Modest(o)
    BY <1>3, UsersAreModest
  <2>2. UNCHANGED cache
    BY <1>3, UsersWrite
  <2>3. QED BY <1>1, <1>2, <1>k, <2>1, <2>2, ModestKeepsObs DEF ObsInv
<1>4. CASE Deliver
  <2>1. UNCHANGED server
    BY <1>4 DEF Deliver
  <2>2. QED
    BY <1>1, <1>2, <1>k, <1>4, <2>1, DeliverAdvances, AdvanceKeepsObs DEF ObsInv, IInv
<1>5. CASE TimerFires \/ WindowElapses
  <2>1. UNCHANGED <<server, cache, stream>>
    BY <1>5 DEF TimerFires, WindowElapses
  <2>2. QED BY <1>1, <1>2, <1>k, <2>1, ChainKeepsObs DEF ObsInv
<1>6. QED
  BY <1>3, <1>4, <1>5 DEF Environment, CPNext

-----------------------------------------------------------------------------

\* A reconcile that ends without a write.
LEMMA ReturnKeepsObs ==
  ASSUME ObsInv, pc' = "idle", UNCHANGED <<server, cache, stream, synced>>
  PROVE  ObsInv'
  BY ChainKeepsObs DEF ObsInv, SnapshotKept, MemoryInv

\* A reconcile that ends with a write.
LEMMA LastWriteKeepsObs ==
  ASSUME TypeOK, IInv, ObsInv, NEW o, Modest(o), Write(o), UNCHANGED <<cache, synced>>,
         pc' = "idle"
  PROVE  ObsInv'
  BY ModestKeepsObs DEF ObsInv, SnapshotKept, MemoryInv

LEMMA GetKeepsObs ==
  ASSUME TypeOK, IInv, ObsInv, Get
  PROVE  ObsInv'
<1>1. UNCHANGED <<server, cache, stream, synced>> /\ pc = "idle"
  BY DEF Get, ghostVars
<1>2. CASE NothingToDo(cache)
  BY <1>1, <1>2, ReturnKeepsObs DEF Get
<1>3. CASE ~NothingToDo(cache)
  <2>1. orig' = cache /\ obj' = cache /\ pc' = Route(cache)
    BY <1>3 DEF Get, Goto
  <2>2. pc' \in {"finalize", "removeFinalizer", "paused", "addFinalizer", "sync"}
    BY <2>1 DEF Route
  <2>3. cache \in Chain /\ \A v \in Chain : v.rv \in Nat /\ cache.rv <= v.rv
    BY VersionNumbers DEF IInv, CoreInv, VersionsOrdered, Chain
  <2>4. \A v \in Chain : cache.uid = v.uid => cache.gen <= v.gen
    BY <2>3 DEF ObsInv, GenerationsOrdered
  <2>5. SnapshotWithin'
    BY <1>1, <2>1, <2>4 DEF ObsInv, ChainWithin, SnapshotWithin, Within, Chain
  <2>6. MemoryInv'
    BY <2>1, <2>2 DEF MemoryInv
  <2>7. QED
    BY <1>1, <2>5, <2>6, ChainKeepsObs DEF ObsInv
<1>4. QED BY <1>2, <1>3

\* Before Sync returns, the finalizer of its object is stored.
LEMMA SyncKeepsObs ==
  ASSUME TypeOK, IInv, ObsInv, SyncSucceeds \/ SyncFails \/ SyncRejects
  PROVE  ObsInv'
<1>1. pc = "sync" /\ UNCHANGED <<server, cache, stream>>
  BY DEF SyncSucceeds, SyncFails, SyncRejects
<1>2. CASE SyncSucceeds
  <2>1. /\ pc' = "patch" /\ path' = "normal" /\ obj' = Observe(obj) /\ UNCHANGED orig
        /\ synced' = synced \cup {<<obj.uid, obj.gen>>}
    BY <1>2 DEF SyncSucceeds, Goto
  <2>2. orig.fin /\ ~orig.deleting /\ obj.uid = orig.uid /\ obj.gen = orig.gen
    BY <1>1 DEF IInv, WorkerInv, Busy
  <2>3. obj'.obs = obj.gen
    BY <2>1 DEF Observe, TypeOK, Version
  <2>4. MemoryInv'
    BY <2>1, <2>2, <2>3 DEF MemoryInv
  <2>5. SnapshotKept
    BY <1>1, <2>1 DEF SnapshotKept, Busy
  <2>6. QED BY <1>1, <2>1, <2>4, <2>5, ChainKeepsObs DEF ObsInv
<1>3. CASE SyncFails \/ (SyncRejects /\ BackoffGiven)
  BY <1>1, <1>3, ReturnKeepsObs DEF SyncFails, SyncRejects, ReturnError, Return
<1>4. CASE SyncRejects /\ ~BackoffGiven
  <2>1. /\ pc' = "patch" /\ path' = "permanent" /\ obj' = [obj EXCEPT !.ready = "False"]
        /\ UNCHANGED <<orig, synced>>
    BY <1>4 DEF SyncRejects, Goto
  <2>2. obj'.obs = obj.obs
    BY <2>1 DEF TypeOK, Version
  <2>3. MemoryInv' /\ SnapshotKept
    BY <1>1, <2>1, <2>2 DEF ObsInv, MemoryInv, SnapshotKept, Busy
  <2>4. QED BY <1>1, <2>1, <2>3, ChainKeepsObs DEF ObsInv
<1>5. QED BY <1>2, <1>3, <1>4

LEMMA OtherStepsKeepObs ==
  ASSUME TypeOK, IInv, ObsInv,
         SkipPaused \/ SendPatch \/ FinalizeDone \/ FinalizeRequeues
  PROVE  ObsInv'
<1>1. UNCHANGED <<server, cache, stream, orig, synced>> /\ Busy
  BY DEF SkipPaused, SendPatch, FinalizeDone, FinalizeRequeues, ghostVars, Busy
<1>2. MemoryInv'
  <2>1. CASE SkipPaused
    <3>1. OnPause(obj).obs = obj.obs
      BY DEF OnPause, TypeOK, Version
    <3>2. QED BY <2>1, <3>1 DEF SkipPaused, Goto, ObsInv, MemoryInv
  <2>2. CASE SendPatch
    BY <2>2 DEF SendPatch, Goto, ghostVars, ObsInv, MemoryInv
  <2>3. CASE FinalizeDone
    BY <2>3 DEF FinalizeDone, Goto, ObsInv, MemoryInv
  <2>4. CASE FinalizeRequeues
    <3>1. [obj EXCEPT !.ready = "False"].obs = obj.obs
      BY DEF TypeOK, Version
    <3>2. QED BY <2>4, <3>1 DEF FinalizeRequeues, Goto, ObsInv, MemoryInv
  <2>5. QED BY <2>1, <2>2, <2>3, <2>4
<1>3. QED
  BY <1>1, <1>2, ChainKeepsObs DEF ObsInv, SnapshotKept

\* Where the worker writes metadata, it ends the reconcile.
LEMMA FinalizerWritesKeepObs ==
  ASSUME TypeOK, IInv, ObsInv, AddFinalizer \/ RemoveFinalizer
  PROVE  ObsInv'
<1>1. pc' = "idle" /\ UNCHANGED <<cache, synced>>
  BY DEF AddFinalizer, RemoveFinalizer, ReturnError, Return, ghostVars
<1>2. CASE UNCHANGED <<server, stream>>
  BY <1>1, <1>2, ReturnKeepsObs
<1>3. CASE Write([server EXCEPT !.fin = TRUE])
  <2> DEFINE o == [server EXCEPT !.fin = TRUE]
  <2>0. o \in Version /\ o.uid = server.uid /\ o.gen = server.gen /\ o.obs = server.obs
    BY DEF TypeOK, Version
  <2>1. Modest(o)
    BY <2>0, SameIsModest
  <2>2. QED BY <1>1, <1>3, <2>1, LastWriteKeepsObs
<1>4. CASE Write(Collected([server EXCEPT !.fin = FALSE]))
  <2> DEFINE o == [server EXCEPT !.fin = FALSE]
  <2>0. o \in Version /\ o.uid = server.uid /\ o.gen = server.gen /\ o.obs = server.obs
    BY DEF TypeOK, Version
  <2>1. Modest(Collected(o))
    BY <2>0, SameIsModest
  <2>2. QED BY <1>1, <1>4, <2>1, LastWriteKeepsObs
<1>5. QED BY <1>2, <1>3, <1>4 DEF AddFinalizer, RemoveFinalizer

\* The patch that stores an observed generation reaches the incarnation it is about.
LEMMA PatchHitsItsObject ==
  ASSUME IInv, ObsInv, pc = "patching", path = "normal"
  PROVE  server.uid = orig.uid /\ obj.obs = orig.gen /\ <<orig.uid, orig.gen>> \in synced
<1>1. /\ orig.fin /\ ~orig.deleting /\ obj.obs = orig.gen
      /\ <<orig.uid, orig.gen>> \in synced
  BY DEF ObsInv, MemoryInv
<1>2. Guards(orig.uid)
  BY <1>1 DEF IInv, ReadInv, Busy, Accounted
<1>3. QED BY <1>1, <1>2 DEF Guards

\* What applying the patch stores: nothing new, or the generation of the snapshot.
LEMMA MergedObserves ==
  ASSUME TypeOK, IInv, ObsInv, pc = "patching"
  PROVE  /\ Merged \in Version /\ Merged.uid = server.uid /\ Merged.gen = server.gen
         /\ \/ Merged.obs = server.obs
            \/ /\ path = "normal" /\ server.uid = orig.uid /\ Merged.obs = orig.gen
               /\ server.obs <= orig.gen /\ <<orig.uid, orig.gen>> \in synced
<1>1. /\ Merged \in Version /\ Merged.uid = server.uid /\ Merged.gen = server.gen
      /\ Merged.obs = IF obj.obs # orig.obs THEN obj.obs ELSE server.obs
  BY DEF Merged, TypeOK, Version
<1>2. path # "normal" => obj.obs = orig.obs
  BY DEF ObsInv, MemoryInv
<1>3. server \in Chain /\ Busy
  BY DEF IInv, CoreInv, VersionsOrdered, Busy
<1>4. path = "normal" => /\ server.uid = orig.uid /\ obj.obs = orig.gen
                         /\ <<orig.uid, orig.gen>> \in synced
  BY PatchHitsItsObject
<1>5. server.uid = orig.uid => server.obs <= orig.gen
  BY <1>3 DEF ObsInv, SnapshotWithin, Within
<1>6. QED BY <1>1, <1>2, <1>4, <1>5

LEMMA PatchAppliedKeepsObs ==
  ASSUME TypeOK, IInv, ObsInv, PatchApplied
  PROVE  ObsInv'
<1>1. pc = "patching" /\ UNCHANGED <<cache, synced>>
  BY DEF PatchApplied, ghostVars
<1>2. SnapshotKept /\ MemoryInv'
  BY <1>1 DEF PatchApplied, AfterPatch, Return, Goto, SnapshotKept, Busy, MemoryInv
<1>3. CASE UNCHANGED <<server, stream>>
  BY <1>1, <1>2, <1>3, ChainKeepsObs DEF ObsInv
<1>4. CASE Write(Merged)
  <2>1. /\ Merged \in Version /\ Merged.uid = server.uid /\ Merged.gen = server.gen
        /\ server.uid \in Nat /\ server.gen \in Nat /\ server.obs \in Nat
        /\ orig.gen \in Nat /\ orig.uid \in Nat /\ cache.uid \in Nat
    BY <1>1, MergedObserves, VersionNumbers
  <2>2. CASE Merged.obs = server.obs
    <3>1. Modest(Merged)
      BY <2>1, <2>2 DEF Modest
    <3>2. QED BY <1>1, <1>2, <1>4, <3>1, ModestKeepsObs DEF ObsInv
  <2>3. CASE /\ server.uid = orig.uid /\ Merged.obs = orig.gen
             /\ <<orig.uid, orig.gen>> \in synced
    <3>1. cache \in Chain /\ Busy
      BY <1>1 DEF Chain, Busy
    <3>2. orig.uid <= cache.uid
      BY <3>1 DEF IInv, ReadInv, Precedes
    <3>3. Within(Merged, cache)
      BY <2>1, <2>3, <3>1, <3>2 DEF ObsInv, SnapshotWithin, Within
    <3>4. Within(Merged, orig) /\ orig.uid <= server.uid
      BY <2>1, <2>3 DEF Within
    <3>5. /\ Merged.uid = server.uid => Merged.gen >= server.gen
          /\ Merged.uid >= server.uid
          /\ Merged.obs > 0 => <<Merged.uid, Merged.obs>> \in synced
      BY <2>1, <2>3
    <3>6. VersionsOrdered /\ IncarnationsOrdered
      BY DEF IInv, CoreInv
    <3>7. GenerationsOrdered' /\ ChainSynced' /\ ChainWithin' /\ (SnapshotKept => SnapshotWithin')
      BY <1>1, <1>4, <2>1, <3>3, <3>4, <3>5, <3>6, WriteKeepsObs
    <3>8. QED BY <1>2, <3>7 DEF ObsInv
  <2>4. QED BY <1>1, <2>2, <2>3, MergedObserves
<1>5. QED BY <1>3, <1>4 DEF PatchApplied

LEMMA PatchConflictKeepsObs ==
  ASSUME TypeOK, IInv, ObsInv, PatchConflict
  PROVE  ObsInv'
<1>1. pc = "patching" /\ UNCHANGED <<server, cache, stream, synced>>
  BY DEF PatchConflict, ghostVars
<1>2. SnapshotKept /\ MemoryInv'
  BY <1>1 DEF PatchConflict, AfterPatch, Return, Goto, SnapshotKept, Busy, MemoryInv
<1>3. QED BY <1>1, <1>2, ChainKeepsObs DEF ObsInv

LEMMA FailuresKeepObs ==
  ASSUME TypeOK, IInv, ObsInv, GetFails \/ PatchFails \/ FinalizeFails
  PROVE  ObsInv'
<1>1. pc' = "idle" /\ UNCHANGED <<server, cache, stream, synced>>
  BY DEF GetFails, PatchFails, AfterPatchError, FinalizeFails, ReturnError, Return, ghostVars
<1>2. QED BY <1>1, ReturnKeepsObs

LEMMA CrashKeepsObs ==
  ASSUME TypeOK, IInv, ObsInv, Crash
  PROVE  ObsInv'
<1>1. pc' = "idle" /\ UNCHANGED <<server, synced>>
  BY DEF Crash, ghostVars
<1>2. PICK v \in Chain : cache' = v /\ stream' = {w \in stream : w.rv > v.rv}
  BY DEF Crash
<1>3. QED
  BY <1>1, <1>2, AdvanceKeepsObs DEF ObsInv, SnapshotKept, MemoryInv

-----------------------------------------------------------------------------
\* The invariant behind the two theorems below.  Without the finalizer there is
\* nothing to tell the patch's target from a later incarnation of the name, so it
\* is one of handlers that finalize, on objects that are not born finalized.
THEOREM ObservationInvariance ==
  ASSUME Finalizing, BornWithFin = {FALSE}
  PROVE  Spec => []ObsInv
<1>1. Init => ObsInv
  <2> SUFFICES ASSUME Init PROVE ObsInv
    OBVIOUS
  <2>1. server = NoObject /\ cache = NoObject /\ stream = {} /\ pc = "idle"
    BY DEF Init, CPInit
  <2>2. Chain = {NoObject} /\ NoObject.gen = 0 /\ NoObject.uid = 0 /\ NoObject.obs = 0
    BY <2>1 DEF Chain, NoObject
  <2>3. QED
    BY <2>1, <2>2 DEF ObsInv, GenerationsOrdered, ChainSynced, ChainWithin, Within,
       SnapshotWithin, Busy, MemoryInv
<1>2. TypeOK /\ IInv /\ ObsInv /\ [Next]_vars => ObsInv'
  <2> SUFFICES ASSUME TypeOK, IInv, ObsInv, [Next]_vars PROVE ObsInv'
    OBVIOUS
  <2>1. CASE Worker
    BY <2>1, GetKeepsObs, SyncKeepsObs, OtherStepsKeepObs, FinalizerWritesKeepObs,
       PatchAppliedKeepsObs, PatchConflictKeepsObs, FailuresKeepObs DEF Worker
  <2>2. CASE UNCHANGED vars
    <3>1. UNCHANGED <<server, cache, stream, pc, obj, orig, path, synced>>
      BY <2>2 DEF vars, cpVars, workerVars, ghostVars
    <3>2. MemoryInv' /\ SnapshotKept
      BY <3>1 DEF ObsInv, MemoryInv, SnapshotKept, Busy
    <3>3. QED BY <3>1, <3>2, ChainKeepsObs DEF ObsInv
  <2>3. QED
    BY <2>1, <2>2, EnvironmentKeepsObs, CrashKeepsObs DEF Next
<1>3. QED
  BY <1>1, <1>2, TypeCorrect, Invariance, PTL DEF Spec

\* A stored observedGeneration belongs to a generation of that very incarnation
\* which Sync has handled.
THEOREM ObservedIsSyncedCorrect ==
  ASSUME Finalizing, BornWithFin = {FALSE}
  PROVE  Spec => []ObservedIsSynced
<1>1. IInv /\ ObsInv => ObservedIsSynced
  BY DEF IInv, CoreInv, VersionsOrdered, ObsInv, ChainSynced, ObservedIsSynced
<1>2. QED BY <1>1, Invariance, ObservationInvariance, PTL

\* Whoever writes, the observedGeneration of an incarnation does not go back.
LEMMA StepsObserveForward ==
  ASSUME TypeOK, IInv, ObsInv, Next, server'.uid = server.uid
  PROVE  server'.obs >= server.obs
<1>0. server.obs \in Nat /\ server.uid \in Nat
  BY VersionNumbers
<1>m. ASSUME NEW o, Write(o), Modest(o) PROVE server'.obs >= server.obs
  <2>1. server'.uid = o.uid /\ server'.obs = o.obs
    BY <1>m DEF Modest, Write, Version
  <2>2. QED BY <1>0, <1>m, <2>1 DEF Modest
<1>1. CASE Environment
  <2>1. CASE UserCreate \/ UserEditSpec \/ UserSetPause \/ UserDelete \/ OtherReleases
    BY <1>m, <2>1, UsersAreModest
  <2>2. CASE Deliver \/ TimerFires \/ WindowElapses
    BY <1>0, <2>2 DEF Deliver, TimerFires, WindowElapses
  <2>3. QED BY <1>1, <2>1, <2>2 DEF Environment, CPNext
<1>2. CASE AddFinalizer \/ RemoveFinalizer
  <2> DEFINE with    == [server EXCEPT !.fin = TRUE]
             without == [server EXCEPT !.fin = FALSE]
  <2>1. \A o \in {with, without} : /\ o \in Version /\ o.uid = server.uid
                                   /\ o.gen = server.gen /\ o.obs = server.obs
    BY DEF TypeOK, Version
  <2>2. \A o \in {with, without} : Modest(o) /\ Modest(Collected(o))
    BY <2>1, SameIsModest
  <2>3. server' = server \/ Write(with) \/ Write(Collected(without))
    BY <1>2 DEF AddFinalizer, RemoveFinalizer
  <2>4. QED BY <1>0, <1>m, <2>2, <2>3
<1>3. CASE PatchApplied
  <2>1. pc = "patching" /\ (server' = server \/ Write(Merged))
    BY <1>3 DEF PatchApplied
  <2>2. Merged \in Version /\ (Merged.obs = server.obs \/ Merged.obs >= server.obs)
    BY <1>0, <2>1, MergedObserves, VersionNumbers
  <2>3. Write(Merged) => server'.obs = Merged.obs
    BY <2>2 DEF Write, Version
  <2>4. QED BY <1>0, <2>1, <2>2, <2>3
<1>4. CASE \/ Get \/ GetFails \/ SkipPaused \/ SyncSucceeds \/ SyncFails \/ SyncRejects
           \/ SendPatch \/ PatchConflict \/ PatchFails
           \/ FinalizeDone \/ FinalizeRequeues \/ FinalizeFails \/ Crash
  <2>1. server' = server
    BY <1>4 DEF Get, GetFails, SkipPaused, SyncSucceeds, SyncFails, SyncRejects, SendPatch,
       PatchConflict, PatchFails, FinalizeDone, FinalizeRequeues, FinalizeFails, Crash
  <2>2. QED BY <1>0, <2>1
<1>5. QED BY <1>1, <1>2, <1>3, <1>4 DEF Next, Worker

\* The patch carries no resourceVersion and is computed from a read that may be
\* stale, and still no step takes an observed generation back.
THEOREM ObservedNeverDecreasesCorrect ==
  ASSUME Finalizing, BornWithFin = {FALSE}
  PROVE  Spec => ObservedNeverDecreases
<1>1. TypeOK /\ IInv /\ ObsInv /\ [Next]_vars
        => [server'.uid = server.uid => server'.obs >= server.obs]_vars
  BY StepsObserveForward
<1>2. QED
  BY <1>1, TypeCorrect, Invariance, ObservationInvariance, PTL DEF Spec, ObservedNeverDecreases
=============================================================================
