-------------------------- MODULE ReconcilerProofs --------------------------
(***************************************************************************)
(* Proofs about Reconciler, for every value of its constants.              *)
(***************************************************************************)
EXTENDS Reconciler, TLAPS

Busy == pc # "idle"

Guards(u) == server.exists /\ server.fin /\ server.uid = u

\* A version with the finalizer says the truth about the stored object, unless
\* Finalize has already been through with its incarnation.
Accounted(v) == v.fin => Guards(v.uid) \/ v.uid \in finalized

\* Incarnations only move forward, and a deletion is not taken back.
Precedes(a, b) ==
  /\ a.uid <= b.uid
  /\ a.uid = b.uid /\ a.deleting => b.deleting

(***************************************************************************)
(* CoreInv: what the store, the cache and the external resources satisfy   *)
(* whatever the worker is doing.                                           *)
(***************************************************************************)
\* Versions are numbered in write order, and the server holds the last one.
VersionsOrdered ==
  /\ server \in Chain
  /\ \A v \in Chain : v.rv <= server.rv /\ (v.rv = server.rv => v = server)
  /\ \A v \in stream : cache.rv < v.rv
  /\ \A v, w \in stream : v.rv = w.rv => v = w

IncarnationsOrdered ==
  \A v, w \in Chain : v.rv <= w.rv => Precedes(v, w)

\* That holds of everything that can still be read.
ChainAccounted == \A v \in Chain : Accounted(v)

\* Only the reconciler adds the finalizer, and only to an incarnation it has read.
NewUnguarded == \A v \in Chain : v.uid > cache.uid => ~v.fin

\* Whatever may still be read of a finalized incarnation is a deleted version.
FinalizedIsDeleted ==
  \A u \in finalized, v \in Chain : u <= v.uid /\ (v.uid = u => v.deleting)

AllGuarded == \A u \in ext : Guards(u)

Numbered == server.exists => server.uid # 0

CoreInv ==
  /\ VersionsOrdered /\ IncarnationsOrdered /\ ChainAccounted
  /\ NewUnguarded /\ FinalizedIsDeleted /\ AllGuarded
  /\ Numbered

(***************************************************************************)
(* ReadInv: how the snapshot of a running reconcile relates to all that.   *)
(***************************************************************************)
ReadInv ==
  Busy => /\ orig.rv <= server.rv
          /\ orig.rv = server.rv => orig = server
          /\ \A v \in Chain : Precedes(orig, v)
          /\ Accounted(orig)
          /\ ~orig.deleting => orig.uid \notin finalized
          /\ \A v \in Chain : v.uid > orig.uid => ~v.fin

(***************************************************************************)
(* WorkerInv: how the object in memory relates to the snapshot.            *)
(***************************************************************************)
\* The worker is on its way to removing the finalizer.
Cleaned == \/ pc = "removeFinalizer"
           \/ pc \in {"patch", "patching"} /\ path = "delete" /\ verdict = "stop"

Deleting == \/ pc \in {"finalize", "removeFinalizer"}
            \/ pc \in {"patch", "patching"} /\ path = "delete"

WorkerInv ==
  /\ Busy /\ pc # "removeFinalizer" =>
       obj.rv = orig.rv /\ obj.uid = orig.uid /\ obj.gen = orig.gen
  /\ pc = "removeFinalizer" =>
       /\ obj.rv <= server.rv
       /\ obj.rv = server.rv => obj.uid = server.uid
  /\ pc \in {"addFinalizer", "sync"} => ~orig.deleting
  /\ pc \in {"sync", "finalize"} => orig.fin
  /\ pc = "addFinalizer" => ~orig.fin
  /\ Deleting => orig.deleting
  /\ Cleaned => orig.uid \notin ext /\ orig.uid \in finalized

IInv == CoreInv /\ ReadInv /\ WorkerInv

(***************************************************************************)
(* Type correctness                                                        *)
(***************************************************************************)
LEMMA NoObjectType == NoObject \in Version
  BY DEF NoObject, Version, Annotations

LEMMA WriteType ==
  ASSUME TypeOK, NEW o \in Version, Write(o)
  PROVE  server' \in Version /\ stream' \subseteq Version
  BY DEF TypeOK, Write, Version

LEMMA CollectedType ==
  ASSUME NEW o \in Version
  PROVE  /\ Collected(o) \in Version
         /\ Collected(o).uid = o.uid /\ Collected(o).deleting = o.deleting
         /\ Collected(o).fin = o.fin
         /\ o.fin => Collected(o).exists = o.exists
         /\ Collected(o).exists => o.exists
<1>1. CASE o.deleting /\ ~o.fin /\ ~o.held
  BY <1>1 DEF Collected, Version
<1>2. CASE ~(o.deleting /\ ~o.fin /\ ~o.held)
  BY <1>2 DEF Collected, Version
<1>3. QED BY <1>1, <1>2

LEMMA ReturnType ==
  ASSUME TypeOK, NEW r \in Results, Return(r)
  PROVE  /\ pc' \in Steps /\ obj' \in Version /\ orig' \in Version
         /\ path' = "none" /\ verdict' \in Results /\ base' \in Nat
         /\ timers' \subseteq {"rate"} \cup Windows
  BY NoObjectType DEF TypeOK, Return, Requeued, Steps, Results

LEMMA ControlPlaneType ==
  ASSUME TypeOK, CPNext
  PROVE  /\ server' \in Version /\ cache' \in Version /\ stream' \subseteq Version
         /\ dirty' \in BOOLEAN /\ timers' \subseteq {"rate"} \cup Windows
         /\ elapsed' \subseteq Windows /\ edits' \in Nat
<1> USE DEF TypeOK
<1>1. CASE UserCreate
  <2>1. PICK held \in BornHeld, fin \in BornWithFin : Write(NewObject(held, fin))
    BY <1>1 DEF UserCreate
  <2>2. NewObject(held, fin) \in Version
    BY ChoicesAssumption DEF NewObject, Version, Annotations
  <2>3. QED BY <1>1, <2>1, <2>2, WriteType DEF UserCreate
<1>2. CASE UserEditSpec
  <2>1. [server EXCEPT !.gen = @ + 1] \in Version
    BY DEF Version
  <2>2. QED BY <1>2, <2>1, WriteType DEF UserEditSpec, UserStep
<1>3. CASE UserSetPause
  <2>1. PICK a \in Annotations : Write([server EXCEPT !.ann = a])
    BY <1>3 DEF UserSetPause
  <2>2. [server EXCEPT !.ann = a] \in Version
    BY DEF Version
  <2>3. QED BY <1>3, <2>1, <2>2, WriteType DEF UserSetPause, UserStep
<1>4. CASE UserDelete
  <2>1. [server EXCEPT !.deleting = TRUE] \in Version
    BY DEF Version
  <2>2. QED BY <1>4, <2>1, CollectedType, WriteType DEF UserDelete, UserStep
<1>5. CASE OtherReleases
  <2>1. [server EXCEPT !.held = FALSE] \in Version
    BY DEF Version
  <2>2. QED BY <1>5, <2>1, CollectedType, WriteType DEF OtherReleases
<1>6. CASE Deliver
  BY <1>6 DEF Deliver
<1>7. CASE TimerFires
  BY <1>7 DEF TimerFires
<1>8. CASE WindowElapses
  BY <1>8 DEF WindowElapses
<1>9. QED
  BY <1>1, <1>2, <1>3, <1>4, <1>5, <1>6, <1>7, <1>8 DEF CPNext

LEMMA WorkerType ==
  ASSUME TypeOK, Worker
  PROVE  TypeOK'
<1> USE DEF TypeOK
<1>r. /\ "rate" \in Results /\ "stop" \in Results
      /\ \A t \in Results : Requeued(t) \subseteq {"rate"} \cup Windows
  BY DEF Results, Requeued
<1>1. CASE Get
  BY <1>1 DEF Get, Goto, Route, Steps, ghostVars
<1>2. CASE GetFails
  <2>1. dirty' \in BOOLEAN
    BY <1>2 DEF GetFails
  <2>2. QED
    BY <1>2, <1>r, <2>1, ReturnType DEF GetFails, Fault, ReturnError, ghostVars
<1>3. CASE SkipPaused
  <2>1. OnPause(obj) \in Version
    BY DEF OnPause, Version
  <2>2. PauseResult(obj) \in Results
    BY DEF PauseResult, Results
  <2>3. QED BY <1>3, <2>1, <2>2 DEF SkipPaused, Goto, Steps, ghostVars
<1>4. CASE AddFinalizer
  <2>1. [server EXCEPT !.fin = TRUE] \in Version
    BY DEF Version
  <2>2. server' \in Version /\ stream' \subseteq Version
    BY <1>4, <2>1, WriteType DEF AddFinalizer
  <2>3. QED
    BY <1>4, <1>r, <2>2, ReturnType DEF AddFinalizer, ReturnError, Fault, ghostVars
<1>5. CASE SyncSucceeds
  <2>1. Observe(obj) \in Version /\ obj.uid \in Nat /\ obj.gen \in Nat
    BY DEF Observe, Version
  <2>2. obj' \in Version
    BY <1>5, <2>1 DEF SyncSucceeds
  <2>3. attempts' \in Nat /\ faults' \in Nat /\ synced' \subseteq Nat \X Nat
    BY <1>5, <2>1 DEF SyncSucceeds, Fault
  <2>4. QED
    BY <1>5, <1>r, <2>1, <2>2, <2>3 DEF SyncSucceeds, Goto, Steps
<1>6. CASE SyncFails
  <2>1. obj.uid \in Nat
    BY DEF Version
  <2>2. QED
    BY <1>6, <1>r, <2>1, ReturnType DEF SyncFails, RecordFailure, ReturnError, Fault
<1>7. CASE SyncRejects
  <2>1. obj.uid \in Nat /\ obj.gen \in Nat /\ [obj EXCEPT !.ready = "False"] \in Version
    BY DEF Version
  <2>2. attempts' \in Nat
    BY <1>7 DEF SyncRejects, RecordFailure
  <2>3. CASE BackoffGiven
    BY <1>7, <1>r, <2>1, <2>2, <2>3, ReturnType DEF SyncRejects, ReturnError, Fault
  <2>4. CASE ~BackoffGiven
    BY <1>7, <1>r, <2>1, <2>2, <2>4 DEF SyncRejects, Goto, Steps, Fault
  <2>5. QED BY <2>3, <2>4
<1>8. CASE SendPatch
  <2>1. server.rv \in Nat
    BY DEF Version
  <2>2. QED BY <1>8, <2>1 DEF SendPatch, Goto, Steps, ghostVars
<1>9. CASE PatchApplied
  <2>1. Merged \in Version
    BY DEF Merged, Version
  <2>2. server' \in Version /\ stream' \subseteq Version
    BY <1>9, <2>1, WriteType DEF PatchApplied
  <2>3. QED
    BY <1>9, <2>2, ReturnType DEF PatchApplied, AfterPatch, Goto, Steps, ghostVars
<1>10. CASE PatchConflict
  BY <1>10, ReturnType DEF PatchConflict, AfterPatch, Goto, Steps, ghostVars
<1>11. CASE PatchFails
  BY <1>11, <1>r, ReturnType DEF PatchFails, AfterPatchError, ReturnError, Fault, ghostVars
<1>12. CASE FinalizeDone
  <2>1. obj.uid \in Nat
    BY DEF Version
  <2>2. QED BY <1>12, <1>r, <2>1 DEF FinalizeDone, Goto, Steps
<1>13. CASE FinalizeRequeues
  <2>1. [obj EXCEPT !.ready = "False"] \in Version
    BY DEF Version
  <2>2. QED BY <1>13, <1>r, <2>1 DEF FinalizeRequeues, Goto, Steps, Fault
<1>14. CASE FinalizeFails
  BY <1>14, <1>r, ReturnType DEF FinalizeFails, ReturnError, Fault
<1>15. CASE RemoveFinalizer
  <2>1. [server EXCEPT !.fin = FALSE] \in Version
    BY DEF Version
  <2>2. server' \in Version /\ stream' \subseteq Version
    BY <1>15, <2>1, CollectedType, WriteType DEF RemoveFinalizer
  <2>3. QED
    BY <1>15, <1>r, <2>2, ReturnType DEF RemoveFinalizer, ReturnError, Fault, ghostVars
<1>16. QED
  BY <1>1, <1>2, <1>3, <1>4, <1>5, <1>6, <1>7, <1>8, <1>9, <1>10, <1>11, <1>12,
     <1>13, <1>14, <1>15 DEF Worker

LEMMA CrashType ==
  ASSUME TypeOK, Crash
  PROVE  TypeOK'
  BY NoObjectType DEF TypeOK, Crash, Fault, Chain, Steps, Results, ghostVars

\* Every variable keeps its type, whatever the constants.
THEOREM TypeCorrect == Spec => []TypeOK
<1>1. Init => TypeOK
  <2> SUFFICES ASSUME Init PROVE TypeOK
    OBVIOUS
  <2>1. dirty \in BOOLEAN
    BY DEF Init, CPInit
  <2>2. QED
    BY <2>1, NoObjectType DEF Init, CPInit, TypeOK, Steps, Results
<1>2. TypeOK /\ [Next]_vars => TypeOK'
  <2> SUFFICES ASSUME TypeOK, [Next]_vars PROVE TypeOK'
    OBVIOUS
  <2>1. CASE Worker
    BY <2>1, WorkerType
  <2>2. CASE Environment
    BY <2>2, ControlPlaneType DEF Environment, TypeOK, workerVars, ghostVars
  <2>3. CASE Crash
    BY <2>3, CrashType
  <2>4. CASE UNCHANGED vars
    BY <2>4 DEF TypeOK, vars, cpVars, workerVars, ghostVars
  <2>5. QED
    BY <2>1, <2>2, <2>3, <2>4 DEF Next
<1>3. QED
  BY <1>1, <1>2, PTL DEF Spec

(***************************************************************************)
(* Steps of the store.  A writer may submit o if it does not turn back an  *)
(* incarnation, takes the finalizer from nobody and gives it to nobody.    *)
(***************************************************************************)
Harmless(o) ==
  /\ o \in Version
  /\ Precedes(server, o)
  /\ server.exists /\ server.fin => o.exists /\ o.fin /\ o.uid = server.uid
  /\ o.fin => server.fin /\ o.uid = server.uid
  /\ o.exists => (server.exists /\ o.uid = server.uid) \/ (~o.fin /\ o.uid > server.uid)

LEMMA WriteFacts ==
  ASSUME TypeOK, NEW o \in Version, Write(o), cache' = cache
  PROVE  /\ server'.rv = server.rv + 1
         /\ server'.uid = o.uid /\ server'.exists = o.exists
         /\ server'.deleting = o.deleting /\ server'.fin = o.fin
         /\ server' \in Version
         /\ Chain' = Chain \cup {server'}
  BY DEF Write, Version, Chain, TypeOK

LEMMA ChainType ==
  ASSUME TypeOK
  PROVE  /\ Chain \subseteq Version
         /\ \A v \in Version : /\ v.rv \in Nat /\ v.uid \in Nat
                               /\ v.fin \in BOOLEAN /\ v.deleting \in BOOLEAN
                               /\ v.exists \in BOOLEAN
  BY DEF TypeOK, Chain, Version

\* A harmless write keeps the versions in order.
LEMMA WriteKeepsOrder ==
  ASSUME TypeOK, VersionsOrdered, IncarnationsOrdered,
         NEW o \in Version, Precedes(server, o), Write(o), cache' = cache
  PROVE  VersionsOrdered' /\ IncarnationsOrdered'
<1>1. /\ server'.rv = server.rv + 1
      /\ server'.uid = o.uid /\ server'.deleting = o.deleting
      /\ Chain' = Chain \cup {server'}
      /\ stream' = stream \cup {server'}
  BY WriteFacts DEF Write
<1>2. \A v \in Chain : v.rv \in Nat /\ v.uid \in Nat
  BY ChainType
<1>3. server \in Chain /\ cache \in Chain /\ stream \subseteq Chain /\ server.rv \in Nat
      /\ server.uid \in Nat /\ o.uid \in Nat
  BY ChainType, <1>2 DEF VersionsOrdered, Chain
<1>4. \A v \in Chain : v.rv < server'.rv
  BY <1>1, <1>2, <1>3 DEF VersionsOrdered
<1>5. VersionsOrdered'
  <2>1. \A v \in Chain' : v.rv <= server'.rv /\ (v.rv = server'.rv => v = server')
    BY <1>1, <1>2, <1>3, <1>4
  <2>2. \A v \in stream' : cache'.rv < v.rv
    BY <1>1, <1>3, <1>4 DEF VersionsOrdered
  <2>3. \A v, w \in stream' : v.rv = w.rv => v = w
    BY <1>1, <1>2, <1>3, <1>4 DEF VersionsOrdered
  <2>4. QED
    BY <1>1, <2>1, <2>2, <2>3 DEF VersionsOrdered
<1>6. IncarnationsOrdered'
  <2>1. \A v \in Chain : Precedes(v, server)
    BY <1>3 DEF VersionsOrdered, IncarnationsOrdered
  <2>2. \A v \in Chain : Precedes(v, server')
    BY <1>1, <1>2, <1>3, <2>1 DEF Precedes
  <2>3. Precedes(server', server')
    BY <1>1, <1>3 DEF Precedes
  <2>4. \A v, w \in Chain' : v.rv <= w.rv => Precedes(v, w)
    <3> SUFFICES ASSUME NEW v \in Chain', NEW w \in Chain', v.rv <= w.rv
                 PROVE  Precedes(v, w)
      OBVIOUS
    <3>1. CASE w = server'
      BY <1>1, <2>2, <2>3, <3>1
    <3>2. CASE w # server' /\ v # server'
      BY <1>1, <3>2 DEF IncarnationsOrdered
    <3>3. CASE w # server' /\ v = server'
      BY <1>1, <1>2, <1>3, <1>4, <3>3
    <3>4. QED BY <3>1, <3>2, <3>3
  <2>5. QED
    BY <2>4 DEF IncarnationsOrdered, Precedes
<1>7. QED BY <1>5, <1>6

LEMMA WriteKeepsCore ==
  ASSUME TypeOK, CoreInv, NEW o, Harmless(o), Write(o),
         cache' = cache, ext' = ext, finalized' = finalized
  PROVE  CoreInv'
<1>1. o \in Version /\ Precedes(server, o)
  BY DEF Harmless
<1>2. VersionsOrdered' /\ IncarnationsOrdered'
  BY <1>1, WriteKeepsOrder DEF CoreInv
<1>3. /\ server'.uid = o.uid /\ server'.exists = o.exists
      /\ server'.deleting = o.deleting /\ server'.fin = o.fin
      /\ Chain' = Chain \cup {server'}
  BY <1>1, WriteFacts
<1>4. server \in Chain /\ \A v \in Chain : v.uid \in Nat
  BY ChainType DEF CoreInv, VersionsOrdered
<1>5. o.uid \in Nat /\ server.uid \in Nat /\ cache \in Chain /\ cache.uid \in Nat
  BY <1>1, <1>4, ChainType DEF Chain
<1>6. \A u : Guards(u) => Guards(u)'
  BY <1>3 DEF Guards, Harmless
<1>7. ChainAccounted'
  <2>1. \A v \in Chain : Accounted(v)'
    BY <1>6 DEF CoreInv, ChainAccounted, Accounted
  <2>2. Accounted(server)
    BY <1>4 DEF CoreInv, ChainAccounted
  <2>3. server'.fin => Guards(server.uid)' \/ server.uid \in finalized'
    BY <1>3, <1>6, <2>2 DEF Accounted, Harmless
  <2>4. server'.fin => server'.uid = server.uid
    BY <1>3 DEF Harmless
  <2>5. QED
    BY <1>3, <2>1, <2>3, <2>4 DEF ChainAccounted, Accounted, Guards
<1>8. NewUnguarded'
  <2>1. ~(server'.uid > cache.uid /\ server'.fin)
    BY <1>3, <1>4 DEF Harmless, CoreInv, NewUnguarded
  <2>2. QED
    BY <1>3, <2>1 DEF CoreInv, NewUnguarded
<1>9. FinalizedIsDeleted'
  <2>1. ASSUME NEW u \in finalized
        PROVE  u <= server'.uid /\ (server'.uid = u => server'.deleting)
    <3>1. u <= server.uid /\ (server.uid = u => server.deleting)
      BY <1>4 DEF CoreInv, FinalizedIsDeleted
    <3>2. u \in Nat
      BY DEF TypeOK
    <3>3. QED
      BY <1>1, <1>3, <1>5, <3>1, <3>2 DEF Precedes
  <2>2. QED
    BY <1>3, <2>1 DEF CoreInv, FinalizedIsDeleted
<1>10. AllGuarded'
  BY <1>6 DEF CoreInv, AllGuarded
<1>11. Numbered'
  BY <1>3, <1>5 DEF CoreInv, Numbered, Harmless
<1>12. QED
  BY <1>2, <1>7, <1>8, <1>9, <1>10, <1>11 DEF CoreInv

LEMMA WriteKeepsRead ==
  ASSUME TypeOK, CoreInv, Busy, ReadInv, NEW o, Harmless(o), Write(o),
         cache' = cache, orig' = orig, finalized' = finalized
  PROVE  ReadInv'
<1>1. /\ server'.rv = server.rv + 1
      /\ server'.uid = o.uid /\ server'.exists = o.exists
      /\ server'.deleting = o.deleting /\ server'.fin = o.fin
      /\ Chain' = Chain \cup {server'}
  BY WriteFacts DEF Harmless
<1>2. server \in Chain /\ server.uid \in Nat /\ server.rv \in Nat
      /\ orig.uid \in Nat /\ orig.rv \in Nat /\ o.uid \in Nat
  BY ChainType DEF CoreInv, VersionsOrdered, TypeOK, Harmless
<1>3. orig.rv <= server'.rv /\ orig.rv # server'.rv
  BY <1>1, <1>2 DEF ReadInv
<1>4. \A v \in Chain' : Precedes(orig, v)
  <2>1. Precedes(orig, server)
    BY <1>2 DEF ReadInv
  <2>2. Precedes(orig, server')
    BY <1>1, <1>2, <2>1 DEF Harmless, Precedes
  <2>3. QED
    BY <1>1, <2>2 DEF ReadInv
<1>5. Accounted(orig)'
  BY <1>1 DEF ReadInv, Accounted, Guards, Harmless
<1>6. \A v \in Chain' : v.uid > orig.uid => ~v.fin
  BY <1>1, <1>2 DEF ReadInv, Harmless
<1>7. QED
  BY <1>3, <1>4, <1>5, <1>6 DEF ReadInv, Precedes, Accounted, Guards

(***************************************************************************)
(* Steps of the informer: the cache moves on to a version it had not shown *)
(* yet, or, after a crash, to any version it may still show.               *)
(***************************************************************************)
LEMMA AdvanceKeepsCore ==
  ASSUME TypeOK, CoreInv, NEW v \in Chain, cache' = v,
         stream' = {w \in stream : w.rv > v.rv},
         server' = server, ext' = ext, finalized' = finalized
  PROVE  CoreInv' /\ Chain' \subseteq Chain
<1>1. /\ server \in Chain /\ cache \in Chain /\ stream \subseteq Chain
      /\ \A w \in Chain : w.rv \in Nat /\ w.uid \in Nat
  BY ChainType DEF CoreInv, VersionsOrdered, Chain
<1>2. Chain' \subseteq Chain
  BY <1>1 DEF Chain
<1>3. \A w \in Chain : cache.rv <= w.rv
  BY <1>1 DEF CoreInv, VersionsOrdered, Chain
<1>4. server \in Chain'
  <2>1. CASE v = server
    BY <2>1 DEF Chain
  <2>2. CASE v # server
    <3>1. v.rv < server.rv
      BY <1>1, <2>2 DEF CoreInv, VersionsOrdered
    <3>2. server # cache
      BY <1>1, <1>3, <3>1
    <3>3. QED
      BY <1>1, <3>1, <3>2 DEF Chain
  <2>3. QED BY <2>1, <2>2
<1>5. VersionsOrdered'
  BY <1>2, <1>4 DEF CoreInv, VersionsOrdered
<1>6. IncarnationsOrdered'
  BY <1>2 DEF CoreInv, IncarnationsOrdered, Precedes
<1>7. ChainAccounted'
  BY <1>2 DEF CoreInv, ChainAccounted, Accounted, Guards
<1>8. NewUnguarded'
  <2>1. cache.uid <= v.uid
    BY <1>1, <1>3 DEF CoreInv, IncarnationsOrdered, Precedes
  <2>2. QED
    BY <1>1, <1>2, <2>1 DEF CoreInv, NewUnguarded
<1>9. FinalizedIsDeleted' /\ AllGuarded'
  BY <1>2 DEF CoreInv, FinalizedIsDeleted, AllGuarded, Guards
<1>10. Numbered'
  BY DEF CoreInv, Numbered
<1>11. QED
  BY <1>2, <1>5, <1>6, <1>7, <1>8, <1>9, <1>10 DEF CoreInv

LEMMA StoreKept ==
  ASSUME CoreInv, UNCHANGED <<server, cache, stream>>, finalized \subseteq finalized',
         AllGuarded', FinalizedIsDeleted'
  PROVE  CoreInv'
<1>1. VersionsOrdered' /\ IncarnationsOrdered' /\ NewUnguarded' /\ Numbered'
  BY DEF CoreInv, VersionsOrdered, IncarnationsOrdered, NewUnguarded, Numbered,
     Precedes, Chain
<1>2. ChainAccounted'
  BY DEF CoreInv, ChainAccounted, Accounted, Guards, Chain
<1>3. QED
  BY <1>1, <1>2 DEF CoreInv

LEMMA StoreAndGhostsKept ==
  ASSUME CoreInv, UNCHANGED <<server, cache, stream, ext, finalized>>
  PROVE  CoreInv'
  BY StoreKept DEF CoreInv, AllGuarded, FinalizedIsDeleted, Guards, Chain

LEMMA ReadKept ==
  ASSUME ReadInv, UNCHANGED <<pc, orig, server, finalized>>, Chain' \subseteq Chain
  PROVE  ReadInv'
  BY DEF ReadInv, Busy, Accounted, Guards, Precedes

(***************************************************************************)
(* Users, other controllers, the informer and the timers.                  *)
(***************************************************************************)
LEMMA UsersAreHarmless ==
  ASSUME TypeOK, CoreInv, BornWithFin = {FALSE},
         UserCreate \/ UserEditSpec \/ UserSetPause \/ UserDelete \/ OtherReleases
  PROVE  /\ \E o : Harmless(o) /\ Write(o)
         /\ UNCHANGED cache
<1> USE DEF TypeOK
<1>0. server.uid \in Nat /\ server.gen \in Nat
  BY DEF Version
<1>1. CASE UserCreate
  <2>1. PICK held \in BornHeld : Write(NewObject(held, FALSE))
    BY <1>1 DEF UserCreate
  <2>2. NewObject(held, FALSE) \in Version
    <3>1. held \in BOOLEAN
      BY ChoicesAssumption
    <3>2. QED BY <1>0, <3>1 DEF NewObject, Version, Annotations
  <2>3. Harmless(NewObject(held, FALSE))
    BY <1>0, <1>1, <2>2 DEF Harmless, NewObject, Precedes, UserCreate
  <2>4. QED BY <1>1, <2>1, <2>3 DEF UserCreate
<1>2. CASE UserEditSpec
  <2>1. Harmless([server EXCEPT !.gen = @ + 1])
    BY <1>0 DEF Harmless, Version, Precedes
  <2>2. QED BY <1>2, <2>1 DEF UserEditSpec
<1>3. CASE UserSetPause
  <2>1. PICK a \in Annotations : Write([server EXCEPT !.ann = a])
    BY <1>3 DEF UserSetPause
  <2>2. Harmless([server EXCEPT !.ann = a])
    BY <1>0 DEF Harmless, Version, Precedes
  <2>3. QED BY <1>3, <2>1, <2>2 DEF UserSetPause
<1>4. CASE UserDelete
  <2> DEFINE o == [server EXCEPT !.deleting = TRUE]
  <2>1. /\ o \in Version
        /\ o.uid = server.uid /\ o.fin = server.fin /\ o.exists = server.exists
        /\ server.deleting => o.deleting
    BY DEF Version
  <2> HIDE DEF o
  <2>2. Harmless(Collected(o))
    BY <1>0, <2>1, CollectedType DEF Harmless, Precedes
  <2>3. QED BY <1>4, <2>2 DEF UserDelete, o
<1>5. CASE OtherReleases
  <2> DEFINE o == [server EXCEPT !.held = FALSE]
  <2>1. /\ o \in Version
        /\ o.uid = server.uid /\ o.fin = server.fin /\ o.exists = server.exists
        /\ server.deleting => o.deleting
    BY DEF Version
  <2> HIDE DEF o
  <2>2. Harmless(Collected(o))
    BY <1>0, <2>1, CollectedType DEF Harmless, Precedes
  <2>3. QED BY <1>5, <2>2 DEF OtherReleases, o
<1>6. QED BY <1>1, <1>2, <1>3, <1>4, <1>5

LEMMA DeliverAdvances ==
  ASSUME TypeOK, CoreInv, Deliver
  PROVE  \E v \in Chain : /\ cache' = v
                          /\ stream' = {w \in stream : w.rv > v.rv}
<1>1. PICK v \in stream : /\ \A w \in stream : v.rv <= w.rv
                          /\ cache' = v
                          /\ stream' = stream \ {v}
  BY DEF Deliver
<1>2. \A w \in stream : w.rv \in Nat
  BY DEF TypeOK, Version
<1>3. \A w \in stream : w # v <=> w.rv > v.rv
  BY <1>1, <1>2 DEF CoreInv, VersionsOrdered
<1>4. stream' = {w \in stream : w.rv > v.rv}
  BY <1>1, <1>3
<1>5. QED BY <1>1, <1>4 DEF Chain

LEMMA EnvironmentKeepsIInv ==
  ASSUME TypeOK, IInv, BornWithFin = {FALSE}, Environment
  PROVE  IInv'
<1>1. UNCHANGED <<pc, obj, orig, path, verdict, ext, finalized>>
  BY DEF Environment, workerVars, ghostVars
<1>2. CASE UserCreate \/ UserEditSpec \/ UserSetPause \/ UserDelete \/ OtherReleases
  <2>1. PICK o : Harmless(o) /\ Write(o)
    BY <1>2, UsersAreHarmless DEF IInv
  <2>2. UNCHANGED cache
    BY <1>2, UsersAreHarmless DEF IInv
  <2>3. CoreInv'
    BY <1>1, <2>1, <2>2, WriteKeepsCore DEF IInv
  <2>4. ReadInv'
    BY <1>1, <2>1, <2>2, WriteKeepsRead DEF IInv, ReadInv, Busy
  <2>5. server'.rv = server.rv + 1 /\ server.rv \in Nat /\ obj.rv \in Nat
    BY <2>1, <2>2, WriteFacts DEF Harmless, TypeOK, Version
  <2>6. WorkerInv'
    BY <1>1, <2>5 DEF IInv, WorkerInv, Busy, Deleting, Cleaned
  <2>7. QED BY <2>3, <2>4, <2>6 DEF IInv
<1>3. CASE Deliver
  <2>1. CoreInv' /\ Chain' \subseteq Chain /\ server' = server
    BY <1>1, <1>3, DeliverAdvances, AdvanceKeepsCore DEF IInv, Deliver
  <2>2. ReadInv'
    BY <1>1, <2>1, ReadKept DEF IInv
  <2>3. WorkerInv'
    BY <1>1, <2>1 DEF IInv, WorkerInv, Busy, Deleting, Cleaned
  <2>4. QED BY <2>1, <2>2, <2>3 DEF IInv
<1>4. CASE TimerFires \/ WindowElapses
  <2>1. UNCHANGED <<server, cache, stream>>
    BY <1>4 DEF TimerFires, WindowElapses
  <2>2. CoreInv'
    BY <1>1, <2>1, StoreAndGhostsKept DEF IInv
  <2>3. ReadInv'
    BY <1>1, <2>1, ReadKept DEF IInv, Chain
  <2>4. WorkerInv'
    BY <1>1, <2>1 DEF IInv, WorkerInv, Busy, Deleting, Cleaned
  <2>5. QED BY <2>2, <2>3, <2>4 DEF IInv
<1>5. QED
  BY <1>2, <1>3, <1>4 DEF Environment, CPNext

(***************************************************************************)
(* Steps of the worker.                                                    *)
(***************************************************************************)
\* A reconcile that has returned has nothing left to go wrong.
LEMMA ReturnKeeps ==
  ASSUME pc' = "idle"
  PROVE  ReadInv' /\ WorkerInv'
  BY DEF ReadInv, WorkerInv, Busy, Deleting, Cleaned

\* Sync runs on the guarded incarnation, so what it creates is guarded.
LEMMA SyncIsGuarded ==
  ASSUME IInv, pc = "sync", UNCHANGED <<server, cache, stream, finalized>>,
         ext' \in {ext, ext \cup {obj.uid}}
  PROVE  CoreInv'
<1>1. Guards(obj.uid)
  BY DEF IInv, ReadInv, WorkerInv, Busy, Accounted
<1>2. AllGuarded'
  BY <1>1 DEF IInv, CoreInv, AllGuarded, Guards
<1>3. FinalizedIsDeleted'
  BY DEF IInv, CoreInv, FinalizedIsDeleted, Chain
<1>4. QED BY <1>2, <1>3, StoreKept DEF IInv

\* Finalize only removes external resources, and closes what is being deleted.
LEMMA FinalizeIsSafe ==
  ASSUME TypeOK, IInv, pc = "finalize", UNCHANGED <<server, cache, stream>>,
         ext' \in {ext, ext \ {obj.uid}},
         finalized' \in {finalized, finalized \cup {obj.uid}}
  PROVE  CoreInv'
<1>1. AllGuarded'
  BY DEF IInv, CoreInv, AllGuarded, Guards
<1>2. obj.uid = orig.uid /\ orig.deleting /\ \A v \in Chain : Precedes(orig, v)
  BY DEF IInv, ReadInv, WorkerInv, Busy, Deleting
<1>3. FinalizedIsDeleted'
  BY <1>2 DEF IInv, CoreInv, FinalizedIsDeleted, Precedes, Chain
<1>4. QED BY <1>1, <1>3, StoreKept DEF IInv

LEMMA GetKeeps ==
  ASSUME TypeOK, IInv, Finalizing, Get
  PROVE  IInv'
<1>1. CoreInv'
  BY StoreAndGhostsKept DEF Get, IInv, ghostVars
<1>2. CASE NothingToDo(cache)
  BY <1>1, <1>2, ReturnKeeps DEF Get, IInv
<1>3. CASE ~NothingToDo(cache)
  <2>1. /\ pc' = Route(cache) /\ orig' = cache /\ obj' = cache
        /\ UNCHANGED <<server, cache, stream, ext, finalized, path, verdict>>
    BY <1>3 DEF Get, Goto, ghostVars
  <2>2. cache \in Chain /\ server \in Chain /\ cache.rv \in Nat
    BY ChainType DEF Chain, IInv, CoreInv, VersionsOrdered
  <2>3. \A v \in Chain : cache.rv <= v.rv
    BY <2>2, ChainType DEF IInv, CoreInv, VersionsOrdered, Chain
  <2>4. ReadInv'
    <3>1. cache.rv <= server.rv /\ (cache.rv = server.rv => cache = server)
      BY <2>2 DEF IInv, CoreInv, VersionsOrdered
    <3>2. \A v \in Chain : Precedes(cache, v)
      BY <2>2, <2>3 DEF IInv, CoreInv, IncarnationsOrdered
    <3>3. Accounted(cache) /\ \A v \in Chain : v.uid > cache.uid => ~v.fin
      BY <2>2 DEF IInv, CoreInv, ChainAccounted, NewUnguarded
    <3>4. ~cache.deleting => cache.uid \notin finalized
      BY <2>2 DEF IInv, CoreInv, FinalizedIsDeleted
    <3>5. Chain' = Chain /\ Accounted(cache)' /\ orig'.rv = cache.rv
      BY <2>1, <3>3 DEF Chain, Accounted, Guards
    <3>6. QED
      BY <2>1, <3>1, <3>2, <3>3, <3>4, <3>5 DEF ReadInv, Accounted, Guards, Precedes
  <2>5. WorkerInv'
    <3>1. Route(cache) \in {"finalize", "paused", "addFinalizer", "sync"}
      BY DEF Route
    <3>2. Route(cache) = "finalize" => cache.deleting /\ cache.fin
      BY <1>3 DEF Route, NothingToDo
    <3>3. Route(cache) = "sync" => ~cache.deleting /\ cache.fin
      BY DEF Route
    <3>4. Route(cache) = "addFinalizer" => ~cache.deleting /\ ~cache.fin
      BY DEF Route
    <3>5. QED
      BY <2>1, <3>1, <3>2, <3>3, <3>4 DEF WorkerInv, Busy, Deleting, Cleaned
  <2>6. QED BY <1>1, <2>4, <2>5 DEF IInv
<1>4. QED BY <1>2, <1>3

LEMMA AddFinalizerKeeps ==
  ASSUME TypeOK, IInv, AddFinalizer
  PROVE  IInv'
<1>1. pc' = "idle" /\ UNCHANGED <<cache, ext, finalized>>
  BY DEF AddFinalizer, Return, ReturnError, ghostVars
<1>2. CASE UNCHANGED <<server, stream>>
  BY <1>1, <1>2, ReturnKeeps, StoreAndGhostsKept DEF IInv
<1>3. CASE UpdateAccepted /\ Write([server EXCEPT !.fin = TRUE])
  <2> DEFINE o == [server EXCEPT !.fin = TRUE]
  <2>1. /\ o \in Version /\ o.uid = server.uid /\ o.fin
        /\ o.exists = server.exists /\ o.deleting = server.deleting
    BY DEF Version, TypeOK
  <2>2. Write(o) /\ server.exists
    BY <1>3 DEF UpdateAccepted
  <2> HIDE DEF o
  <2>3. server.uid \in Nat /\ server \in Chain
    BY ChainType DEF IInv, CoreInv, VersionsOrdered
  <2>4. orig = server
    BY <1>3 DEF IInv, ReadInv, WorkerInv, Busy, UpdateAccepted, AddFinalizer
  <2>5. /\ server'.uid = server.uid /\ server'.exists /\ server'.fin
        /\ Chain' = Chain \cup {server'}
        /\ server'.deleting = server.deleting
    BY <1>1, <2>1, <2>2, WriteFacts
  <2>6. VersionsOrdered' /\ IncarnationsOrdered'
    BY <1>1, <2>1, <2>2, <2>3, WriteKeepsOrder DEF IInv, CoreInv, Precedes
  <2>7. \A u : Guards(u) => Guards(u)'
    BY <2>5 DEF Guards
  <2>8. ChainAccounted'
    <3>1. \A v \in Chain : Accounted(v)'
      BY <1>1, <2>7 DEF IInv, CoreInv, ChainAccounted, Accounted
    <3>2. QED BY <2>5, <3>1 DEF ChainAccounted, Accounted, Guards
  <2>9. NewUnguarded'
    <3>1. cache \in Chain /\ cache.uid \in Nat
      BY ChainType DEF Chain
    <3>2. server.uid <= cache.uid
      BY <2>4, <3>1 DEF IInv, ReadInv, Busy, Precedes, AddFinalizer
    <3>3. QED BY <1>1, <2>3, <2>5, <3>1, <3>2 DEF IInv, CoreInv, NewUnguarded
  <2>10. FinalizedIsDeleted'
    BY <1>1, <2>3, <2>5 DEF IInv, CoreInv, FinalizedIsDeleted
  <2>11. AllGuarded'
    BY <1>1, <2>7 DEF IInv, CoreInv, AllGuarded
  <2>12. Numbered'
    BY <2>2, <2>5 DEF IInv, CoreInv, Numbered
  <2>13. QED
    BY <1>1, <2>6, <2>8, <2>9, <2>10, <2>11, <2>12, ReturnKeeps DEF IInv, CoreInv
<1>4. QED
  BY <1>2, <1>3 DEF AddFinalizer

\* The status patch is a harmless write: it leaves metadata alone.
LEMMA MergedIsHarmless ==
  ASSUME TypeOK
  PROVE  Harmless(Merged)
<1>1. /\ Merged \in Version /\ Merged.uid = server.uid /\ Merged.fin = server.fin
      /\ Merged.exists = server.exists /\ Merged.deleting = server.deleting
  BY DEF TypeOK, Merged, Version
<1>2. server.uid \in Nat
  BY DEF TypeOK, Version
<1>3. QED BY <1>1, <1>2 DEF Harmless, Precedes

LEMMA PatchAppliedKeeps ==
  ASSUME TypeOK, IInv, PatchApplied
  PROVE  IInv'
<1>1. UNCHANGED <<cache, ext, finalized>> /\ pc = "patching"
  BY DEF PatchApplied, ghostVars
<1>2. CoreInv'
  <2>1. CASE UNCHANGED <<server, stream>>
    BY <1>1, <2>1, StoreAndGhostsKept DEF IInv
  <2>2. CASE Write(Merged)
    BY <1>1, <2>2, MergedIsHarmless, WriteKeepsCore DEF IInv
  <2>3. QED BY <2>1, <2>2 DEF PatchApplied
<1>3. CASE path = "delete" /\ verdict = "stop"
  <2>1. pc' = "removeFinalizer" /\ obj' = server' /\ UNCHANGED <<orig, path, verdict>>
    BY <1>3 DEF PatchApplied, AfterPatch, Goto
  <2>2. ReadInv'
    <3>1. CASE UNCHANGED <<server, stream>>
      BY <1>1, <2>1, <3>1 DEF IInv, ReadInv, Busy, Accounted, Guards, Precedes, Chain
    <3>2. CASE Write(Merged)
      BY <1>1, <2>1, <3>2, MergedIsHarmless, WriteKeepsRead DEF IInv, Busy
    <3>3. QED BY <3>1, <3>2 DEF PatchApplied
  <2>3. server'.rv \in Nat
    BY WorkerType DEF Worker, TypeOK, Version
  <2>4. orig.deleting /\ orig.uid \notin ext /\ orig.uid \in finalized
    BY <1>1, <1>3 DEF IInv, WorkerInv, Deleting, Cleaned
  <2>5. WorkerInv'
    BY <1>1, <2>1, <2>3, <2>4 DEF WorkerInv, Busy, Deleting, Cleaned
  <2>6. QED BY <1>2, <2>2, <2>5 DEF IInv
<1>4. CASE ~(path = "delete" /\ verdict = "stop")
  BY <1>2, <1>4, ReturnKeeps DEF PatchApplied, AfterPatch, Return, IInv
<1>5. QED BY <1>3, <1>4

LEMMA PatchConflictKeeps ==
  ASSUME TypeOK, IInv, PatchConflict
  PROVE  IInv'
<1>1. UNCHANGED <<server, cache, stream, ext, finalized>> /\ pc = "patching"
  BY DEF PatchConflict, ghostVars
<1>2. CoreInv'
  BY <1>1, StoreAndGhostsKept DEF IInv
<1>3. CASE path = "delete" /\ verdict = "stop"
  <2>1. pc' = "removeFinalizer" /\ UNCHANGED <<obj, orig, path, verdict>>
    BY <1>3 DEF PatchConflict, AfterPatch, Goto
  <2>2. ReadInv'
    BY <1>1, <2>1 DEF IInv, ReadInv, Busy, Accounted, Guards, Precedes, Chain
  <2>3. /\ obj.rv = orig.rv /\ obj.uid = orig.uid
        /\ orig.rv <= server.rv /\ (orig.rv = server.rv => orig = server)
    BY <1>1 DEF IInv, ReadInv, WorkerInv, Busy
  <2>4. orig.deleting /\ orig.uid \notin ext /\ orig.uid \in finalized
    BY <1>1, <1>3 DEF IInv, WorkerInv, Deleting, Cleaned
  <2>5. WorkerInv'
    BY <1>1, <2>1, <2>3, <2>4 DEF WorkerInv, Busy, Deleting, Cleaned
  <2>6. QED BY <1>2, <2>2, <2>5 DEF IInv
<1>4. CASE ~(path = "delete" /\ verdict = "stop")
  BY <1>2, <1>4, ReturnKeeps DEF PatchConflict, AfterPatch, Return, IInv
<1>5. QED BY <1>3, <1>4

LEMMA RemoveFinalizerKeeps ==
  ASSUME TypeOK, IInv, RemoveFinalizer
  PROVE  IInv'
<1>1. /\ pc = "removeFinalizer" /\ pc' = "idle"
      /\ UNCHANGED <<cache, ext, finalized>>
  BY DEF RemoveFinalizer, Return, ReturnError, ghostVars
<1>2. CASE UNCHANGED <<server, stream>>
  BY <1>1, <1>2, ReturnKeeps, StoreAndGhostsKept DEF IInv
<1>3. CASE /\ UpdateAccepted /\ server.fin
           /\ Write(Collected([server EXCEPT !.fin = FALSE]))
  <2> DEFINE o == [server EXCEPT !.fin = FALSE]
  <2>1. /\ o \in Version /\ o.uid = server.uid /\ ~o.fin
        /\ o.deleting = server.deleting
    BY DEF Version, TypeOK
  <2>2. Write(Collected(o))
    BY <1>3
  <2> HIDE DEF o
  <2>3. /\ server.uid \in Nat /\ server \in Chain /\ orig.uid \in Nat
        /\ \A v \in Chain : v.uid \in Nat
    BY ChainType DEF IInv, CoreInv, VersionsOrdered, TypeOK
  <2>4. /\ server'.uid = server.uid /\ ~server'.fin
        /\ server'.deleting = server.deleting
        /\ Chain' = Chain \cup {server'}
    BY <1>1, <2>1, <2>2, CollectedType, WriteFacts
  <2>5. VersionsOrdered' /\ IncarnationsOrdered'
    BY <1>1, <2>1, <2>2, <2>3, CollectedType, WriteKeepsOrder
       DEF IInv, CoreInv, Precedes
  \* The object is the incarnation Finalize has cleaned up, and no newer one.
  <2>6. server.uid = orig.uid
    BY <1>1, <1>3, <2>3 DEF IInv, ReadInv, Busy, Precedes
  <2>7. orig.deleting /\ orig.uid \notin ext /\ orig.uid \in finalized
    BY <1>1 DEF IInv, WorkerInv, Deleting, Cleaned
  <2>8. ChainAccounted'
    <3>1. \A v \in Chain : v.fin => v.uid \in finalized
      BY <2>6, <2>7 DEF IInv, CoreInv, ChainAccounted, Accounted, Guards
    <3>2. QED BY <1>1, <2>4, <3>1 DEF ChainAccounted, Accounted
  <2>9. NewUnguarded'
    BY <1>1, <2>4 DEF IInv, CoreInv, NewUnguarded
  <2>10. FinalizedIsDeleted'
    BY <1>1, <2>3, <2>4 DEF IInv, CoreInv, FinalizedIsDeleted
  <2>11. AllGuarded'
    BY <1>1, <2>6, <2>7 DEF IInv, CoreInv, AllGuarded, Guards
  <2>12. Numbered'
    BY <1>3, <2>4 DEF IInv, CoreInv, Numbered, UpdateAccepted
  <2>13. QED
    BY <1>1, <2>5, <2>8, <2>9, <2>10, <2>11, <2>12, ReturnKeeps DEF IInv, CoreInv
<1>4. QED
  BY <1>2, <1>3 DEF RemoveFinalizer

LEMMA WorkerKeepsIInv ==
  ASSUME TypeOK, IInv, Finalizing, Worker
  PROVE  IInv'
<1>1. CASE Get
  BY <1>1, GetKeeps
<1>2. CASE AddFinalizer
  BY <1>2, AddFinalizerKeeps
<1>3. CASE PatchApplied
  BY <1>3, PatchAppliedKeeps
<1>4. CASE PatchConflict
  BY <1>4, PatchConflictKeeps
<1>5. CASE RemoveFinalizer
  BY <1>5, RemoveFinalizerKeeps
<1>6. CASE GetFails \/ PatchFails
  BY <1>6, ReturnKeeps, StoreAndGhostsKept
     DEF GetFails, PatchFails, AfterPatchError, Return, ReturnError, IInv, ghostVars
<1>7. CASE SkipPaused
  <2>1. /\ pc = "paused" /\ pc' = "patch" /\ path' = "paused"
        /\ obj' = OnPause(obj)
        /\ UNCHANGED <<server, cache, stream, orig, ext, finalized>>
    BY <1>7 DEF SkipPaused, Goto, ghostVars
  <2>2. OnPause(obj).rv = obj.rv /\ OnPause(obj).uid = obj.uid /\ OnPause(obj).gen = obj.gen
    BY DEF OnPause, TypeOK, Version
  <2>3. CoreInv'
    BY <2>1, StoreAndGhostsKept DEF IInv
  <2>4. ReadInv'
    BY <2>1 DEF IInv, ReadInv, Busy, Accounted, Guards, Precedes, Chain
  <2>5. WorkerInv'
    BY <2>1, <2>2 DEF IInv, WorkerInv, Busy, Deleting, Cleaned
  <2>6. QED BY <2>3, <2>4, <2>5 DEF IInv
<1>8. CASE SyncSucceeds
  <2>1. /\ pc = "sync" /\ pc' = "patch" /\ path' = "normal"
        /\ obj' = Observe(obj)
        /\ ext' = ext \cup {obj.uid}
        /\ UNCHANGED <<server, cache, stream, orig, finalized>>
    BY <1>8 DEF SyncSucceeds, Goto
  <2>2. obj'.rv = obj.rv /\ obj'.uid = obj.uid /\ obj'.gen = obj.gen
    BY <2>1 DEF Observe, TypeOK, Version
  <2>3. CoreInv'
    BY <2>1, SyncIsGuarded
  <2>4. ReadInv'
    BY <2>1 DEF IInv, ReadInv, Busy, Accounted, Guards, Precedes, Chain
  <2>5. WorkerInv'
    BY <2>1, <2>2 DEF IInv, WorkerInv, Busy, Deleting, Cleaned
  <2>6. QED BY <2>3, <2>4, <2>5 DEF IInv
<1>9. CASE SyncFails
  BY <1>9, SyncIsGuarded, ReturnKeeps DEF SyncFails, ReturnError, Return, IInv
<1>10. CASE SyncRejects
  <2>1. CoreInv'
    BY <1>10, SyncIsGuarded DEF SyncRejects
  <2>2. CASE BackoffGiven
    BY <1>10, <2>1, <2>2, ReturnKeeps DEF SyncRejects, ReturnError, Return, IInv
  <2>3. CASE ~BackoffGiven
    <3>1. /\ pc = "sync" /\ pc' = "patch" /\ path' = "permanent"
          /\ obj' = [obj EXCEPT !.ready = "False"]
          /\ UNCHANGED <<server, cache, stream, orig, finalized>>
      BY <1>10, <2>3 DEF SyncRejects, Goto
    <3>2. obj'.rv = obj.rv /\ obj'.uid = obj.uid /\ obj'.gen = obj.gen
      BY <3>1 DEF TypeOK, Version
    <3>3. ReadInv'
      BY <3>1 DEF IInv, ReadInv, Busy, Accounted, Guards, Precedes, Chain
    <3>4. WorkerInv'
      BY <3>1, <3>2 DEF IInv, WorkerInv, Busy, Deleting, Cleaned
    <3>5. QED BY <2>1, <3>3, <3>4 DEF IInv
  <2>4. QED BY <2>2, <2>3
<1>11. CASE SendPatch
  <2>1. /\ pc = "patch" /\ pc' = "patching"
        /\ UNCHANGED <<server, cache, stream, obj, orig, path, verdict, ext, finalized>>
    BY <1>11 DEF SendPatch, Goto, ghostVars
  <2>2. CoreInv'
    BY <2>1, StoreAndGhostsKept DEF IInv
  <2>3. ReadInv'
    BY <2>1 DEF IInv, ReadInv, Busy, Accounted, Guards, Precedes, Chain
  <2>4. WorkerInv'
    BY <2>1 DEF IInv, WorkerInv, Busy, Deleting, Cleaned
  <2>5. QED BY <2>2, <2>3, <2>4 DEF IInv
<1>12. CASE FinalizeDone \/ FinalizeRequeues
  <2>1. /\ pc = "finalize" /\ pc' = "patch" /\ path' = "delete"
        /\ UNCHANGED <<server, cache, stream, orig>>
        /\ ext' \in {ext, ext \ {obj.uid}}
        /\ finalized' \in {finalized, finalized \cup {obj.uid}}
    BY <1>12 DEF FinalizeDone, FinalizeRequeues, Goto
  <2>2. obj'.rv = obj.rv /\ obj'.uid = obj.uid /\ obj'.gen = obj.gen
    BY <1>12 DEF FinalizeDone, FinalizeRequeues, TypeOK, Version
  <2>3. verdict' = "stop" => obj.uid \notin ext' /\ obj.uid \in finalized'
    BY <1>12 DEF FinalizeDone, FinalizeRequeues
  <2>4. CoreInv'
    BY <2>1, FinalizeIsSafe
  <2>5. ReadInv'
    <3>1. obj.uid = orig.uid /\ orig.deleting
      BY <2>1 DEF IInv, WorkerInv, Busy, Deleting
    <3>2. Accounted(orig)'
      BY <2>1 DEF IInv, ReadInv, Busy, Accounted, Guards
    <3>3. QED
      BY <2>1, <3>1, <3>2 DEF IInv, ReadInv, Busy, Accounted, Guards, Precedes, Chain
  <2>6. WorkerInv'
    BY <2>1, <2>2, <2>3 DEF IInv, WorkerInv, Busy, Deleting, Cleaned
  <2>7. QED BY <2>4, <2>5, <2>6 DEF IInv
<1>13. CASE FinalizeFails
  BY <1>13, FinalizeIsSafe, ReturnKeeps DEF FinalizeFails, ReturnError, Return, IInv
<1>14. QED
  BY <1>1, <1>2, <1>3, <1>4, <1>5, <1>6, <1>7, <1>8, <1>9, <1>10, <1>11, <1>12,
     <1>13 DEF Worker

LEMMA CrashKeepsIInv ==
  ASSUME TypeOK, IInv, Crash
  PROVE  IInv'
<1>1. CoreInv'
  BY AdvanceKeepsCore DEF Crash, IInv, ghostVars
<1>2. QED
  BY <1>1, ReturnKeeps DEF Crash, IInv

(***************************************************************************)
(* The theorems.                                                           *)
(***************************************************************************)
LEMMA InitIInv == Init => IInv
<1> SUFFICES ASSUME Init PROVE IInv
  OBVIOUS
<1>1. /\ server = NoObject /\ cache = NoObject /\ stream = {} /\ pc = "idle"
      /\ ext = {} /\ finalized = {}
  BY DEF Init, CPInit
<1>2. Chain = {NoObject} /\ NoObject.rv = 0 /\ NoObject.uid = 0 /\ ~NoObject.fin
      /\ ~NoObject.exists
  BY <1>1 DEF Chain, NoObject
<1>3. CoreInv
  BY <1>1, <1>2 DEF CoreInv, VersionsOrdered, IncarnationsOrdered, ChainAccounted,
     NewUnguarded, FinalizedIsDeleted, AllGuarded, Accounted, Precedes,
     Numbered
<1>4. QED
  BY <1>1, <1>3 DEF IInv, ReadInv, WorkerInv, Busy, Deleting, Cleaned

LEMMA StutterKeepsIInv ==
  ASSUME IInv, UNCHANGED vars
  PROVE  IInv'
<1>1. UNCHANGED <<server, cache, stream, pc, obj, orig, path, verdict, ext, finalized>>
  BY DEF vars, cpVars, workerVars, ghostVars
<1>2. CoreInv'
  BY <1>1, StoreAndGhostsKept DEF IInv
<1>3. ReadInv' /\ WorkerInv'
  BY <1>1 DEF IInv, ReadInv, WorkerInv, Busy, Deleting, Cleaned, Accounted, Guards,
     Precedes, Chain
<1>4. QED BY <1>2, <1>3 DEF IInv

\* The invariant the safety theorems rest on, for a handler with a Finalize and
\* users who do not set the streamline finalizer themselves.
THEOREM Invariance ==
  ASSUME Finalizing, BornWithFin = {FALSE}
  PROVE  Spec => []IInv
<1>1. TypeOK /\ IInv /\ [Next]_vars => IInv'
  BY WorkerKeepsIInv, EnvironmentKeepsIInv, CrashKeepsIInv, StutterKeepsIInv DEF Next
<1>2. QED
  BY InitIInv, TypeCorrect, <1>1, PTL DEF Spec

\* No external resource outlives its object or its finalizer, however far the
\* cache lags, whatever users, other controllers, failures and crashes do.
THEOREM NoLeakCorrect ==
  ASSUME BornWithFin = {FALSE}
  PROVE  Spec => []NoLeak
<1>1. CASE Finalizing
  <2>1. IInv => NoLeak
    BY DEF IInv, CoreInv, AllGuarded, Guards, NoLeak
  <2>2. QED
    BY <1>1, <2>1, Invariance, PTL
<1>2. CASE ~Finalizing
  <2>1. NoLeak
    BY <1>2 DEF NoLeak
  <2>2. QED
    BY <2>1, PTL
<1>3. QED BY <1>1, <1>2

\* Sync never runs on an incarnation that Finalize has reported cleaned up.
THEOREM NoSyncAfterFinalizeCorrect ==
  ASSUME BornWithFin = {FALSE}
  PROVE  Spec => []NoSyncAfterFinalize
<1>1. CASE Finalizing
  <2>1. IInv => NoSyncAfterFinalize
    BY DEF IInv, ReadInv, WorkerInv, Busy, NoSyncAfterFinalize
  <2>2. QED
    BY <1>1, <2>1, Invariance, PTL
<1>2. CASE ~Finalizing
  <2>1. NoSyncAfterFinalize
    BY <1>2 DEF NoSyncAfterFinalize
  <2>2. QED
    BY <2>1, PTL
<1>3. QED BY <1>1, <1>2
(***************************************************************************)
(* The reconciler implements CleanupGuarantee.                             *)
(***************************************************************************)
Guarded == IF server.exists /\ server.fin THEN server.uid ELSE 0

LEMMA GuardedBy ==
  ASSUME CoreInv
  PROVE  /\ \A u : Guards(u) => Guarded = u /\ u # 0
         /\ Guarded # 0 => Guards(Guarded)
  BY DEF CoreInv, Numbered, Guards, Guarded

\* A harmless write leaves the guard alone.
LEMMA HarmlessKeepsGuard ==
  ASSUME TypeOK, NEW o, Harmless(o), Write(o), cache' = cache
  PROVE  Guarded' = Guarded
<1>1. server'.uid = o.uid /\ server'.exists = o.exists /\ server'.fin = o.fin
  BY WriteFacts DEF Harmless
<1>2. QED BY <1>1 DEF Harmless, Guarded

LEMMA AddFinalizerGuards ==
  ASSUME TypeOK, IInv, AddFinalizer
  PROVE  Contract!Guard \/ (Guarded' = Guarded /\ UNCHANGED <<ext, finalized>>)
<1>1. UNCHANGED <<cache, ext, finalized>> /\ pc = "addFinalizer"
  BY DEF AddFinalizer, ghostVars
<1>2. CASE UNCHANGED server
  BY <1>1, <1>2 DEF Guarded
<1>3. CASE UpdateAccepted /\ Write([server EXCEPT !.fin = TRUE])
  <2>1. /\ [server EXCEPT !.fin = TRUE] \in Version
        /\ server.uid \in Nat
    BY DEF TypeOK, Version
  <2>2. server'.uid = server.uid /\ server'.exists = server.exists /\ server'.fin
    BY <1>1, <1>3, <2>1, WriteFacts DEF TypeOK, Version
  <2>3. orig = server /\ ~orig.fin /\ ~orig.deleting /\ server.exists
    BY <1>1, <1>3 DEF IInv, ReadInv, WorkerInv, Busy, UpdateAccepted
  <2>4. server.uid \notin finalized /\ server.uid # 0
    BY <1>1, <2>3 DEF IInv, ReadInv, Busy, CoreInv, Numbered
  <2>5. Guarded = 0 /\ Guarded' = server.uid
    BY <2>2, <2>3 DEF Guarded
  <2>6. QED
    BY <1>1, <2>1, <2>4, <2>5 DEF Contract!Guard, Guarded
<1>4. QED BY <1>2, <1>3 DEF AddFinalizer

LEMMA SyncProvisions ==
  ASSUME IInv, pc = "sync", UNCHANGED <<server, finalized>>,
         ext' \in {ext, ext \cup {obj.uid}}
  PROVE  Contract!Provision \/ (Guarded' = Guarded /\ UNCHANGED <<ext, finalized>>)
<1>1. Guards(obj.uid) /\ obj.uid \notin finalized
  BY DEF IInv, ReadInv, WorkerInv, Busy, Accounted
<1>2. Guarded = obj.uid /\ obj.uid # 0 /\ Guarded' = Guarded
  BY <1>1, GuardedBy DEF IInv, Guarded
<1>3. QED
  BY <1>1, <1>2 DEF Contract!Provision, Guarded

LEMMA FinalizeCloses ==
  ASSUME IInv, pc = "finalize", UNCHANGED server,
         \/ ext' = ext \ {obj.uid} /\ finalized' = finalized \cup {obj.uid}
         \/ ext' \in {ext, ext \ {obj.uid}} /\ finalized' = finalized
  PROVE  \/ Contract!Close \/ Contract!Deprovision
         \/ Guarded' = Guarded /\ UNCHANGED <<ext, finalized>>
<1>1. obj.uid = orig.uid /\ (Guards(obj.uid) \/ obj.uid \in finalized)
  BY DEF IInv, ReadInv, WorkerInv, Busy, Accounted
<1>2. Guarded' = Guarded
  BY DEF Guarded
<1>3. CASE Guards(obj.uid)
  <2>1. Guarded = obj.uid /\ obj.uid # 0
    BY <1>3, GuardedBy DEF IInv
  <2>2. QED
    BY <1>2, <2>1 DEF Contract!Close, Contract!Deprovision, Guarded
<1>4. CASE ~Guards(obj.uid)
  <2>1. obj.uid \notin ext /\ obj.uid \in finalized
    BY <1>1, <1>4 DEF IInv, CoreInv, AllGuarded
  <2>2. ext' = ext /\ finalized' = finalized
    BY <2>1
  <2>3. QED BY <1>2, <2>2
<1>5. QED BY <1>3, <1>4

LEMMA RemoveFinalizerUnguards ==
  ASSUME TypeOK, IInv, RemoveFinalizer
  PROVE  Contract!Unguard \/ (Guarded' = Guarded /\ UNCHANGED <<ext, finalized>>)
<1>1. UNCHANGED <<cache, ext, finalized>> /\ pc = "removeFinalizer"
  BY DEF RemoveFinalizer, ghostVars
<1>2. CASE UNCHANGED server
  BY <1>1, <1>2 DEF Guarded
<1>3. CASE /\ UpdateAccepted /\ server.fin
           /\ Write(Collected([server EXCEPT !.fin = FALSE]))
  <2> DEFINE o == [server EXCEPT !.fin = FALSE]
  <2>1. o \in Version /\ o.uid = server.uid /\ ~o.fin
    BY DEF Version, TypeOK
  <2>2. Write(Collected(o))
    BY <1>3
  <2> HIDE DEF o
  <2>3. ~server'.fin
    BY <1>1, <2>1, <2>2, CollectedType, WriteFacts
  <2>4. /\ server.uid \in Nat /\ server \in Chain /\ orig.uid \in Nat
        /\ \A v \in Chain : v.uid \in Nat
    BY ChainType DEF IInv, CoreInv, VersionsOrdered, TypeOK
  <2>5. server.uid = orig.uid
    BY <1>1, <1>3, <2>4 DEF IInv, ReadInv, Busy, Precedes
  <2>6. orig.uid \notin ext /\ orig.uid \in finalized
    BY <1>1 DEF IInv, WorkerInv, Cleaned
  <2>7. Guarded = server.uid /\ Guarded' = 0
    BY <1>3, <2>3 DEF Guarded, UpdateAccepted
  <2>8. QED
    BY <1>1, <2>5, <2>6, <2>7 DEF Contract!Unguard, Guarded
<1>4. QED BY <1>2, <1>3 DEF RemoveFinalizer

LEMMA StepImplements ==
  ASSUME TypeOK, IInv, BornWithFin = {FALSE}, [Next]_vars
  PROVE  Contract!Next \/ (Guarded' = Guarded /\ UNCHANGED <<ext, finalized>>)
<1> USE DEF Contract!Next
<1>1. CASE AddFinalizer
  BY <1>1, AddFinalizerGuards
<1>2. CASE SyncSucceeds \/ SyncFails \/ SyncRejects
  BY <1>2, SyncProvisions DEF SyncSucceeds, SyncFails, SyncRejects
<1>3. CASE FinalizeDone \/ FinalizeRequeues \/ FinalizeFails
  BY <1>3, FinalizeCloses DEF FinalizeDone, FinalizeRequeues, FinalizeFails
<1>4. CASE RemoveFinalizer
  BY <1>4, RemoveFinalizerUnguards
<1>5. CASE PatchApplied
  <2>1. CASE UNCHANGED server
    BY <1>5, <2>1 DEF PatchApplied, Guarded, ghostVars
  <2>2. CASE Write(Merged)
    BY <1>5, <2>2, MergedIsHarmless, HarmlessKeepsGuard DEF PatchApplied, ghostVars
  <2>3. QED BY <1>5, <2>1, <2>2 DEF PatchApplied
<1>6. CASE Get \/ GetFails \/ SkipPaused \/ SendPatch \/ PatchConflict \/ PatchFails
           \/ Crash
  BY <1>6 DEF Get, GetFails, SkipPaused, SendPatch, PatchConflict, PatchFails, Crash,
     Guarded, ghostVars
<1>7. CASE Environment
  <2>1. UNCHANGED <<ext, finalized>>
    BY <1>7 DEF Environment, ghostVars
  <2>2. CASE UserCreate \/ UserEditSpec \/ UserSetPause \/ UserDelete \/ OtherReleases
    BY <2>1, <2>2, UsersAreHarmless, HarmlessKeepsGuard DEF IInv
  <2>3. CASE Deliver \/ TimerFires \/ WindowElapses
    BY <2>1, <2>3 DEF Deliver, TimerFires, WindowElapses, Guarded
  <2>4. QED BY <1>7, <2>2, <2>3 DEF Environment, CPNext
<1>8. CASE UNCHANGED vars
  BY <1>8 DEF vars, cpVars, ghostVars, Guarded
<1>9. QED
  BY <1>1, <1>2, <1>3, <1>4, <1>5, <1>6, <1>7, <1>8 DEF Next, Worker

\* The reconciler keeps the contract handler.go states for FinalizingHandler: the
\* finalizer is stored before Sync creates anything and is removed only after
\* Finalize has returned Stop() for that very incarnation.
THEOREM ContractImplemented ==
  ASSUME Finalizing, BornWithFin = {FALSE}
  PROVE  Spec => ImplementsContract
<1>1. Init => Contract!Init
  BY DEF Init, CPInit, NoObject, Contract!Init
<1>2. TypeOK /\ IInv /\ [Next]_vars => [Contract!Next]_(Contract!vars)
  BY StepImplements DEF Contract!vars, Guarded
<1>3. QED
  BY <1>1, <1>2, TypeCorrect, Invariance, PTL DEF Spec, Contract!Spec, ImplementsContract
=============================================================================
