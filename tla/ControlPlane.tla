---------------------------- MODULE ControlPlane ----------------------------
(***************************************************************************)
(* The Kubernetes control plane as src/pkg/streamline/reconciler.go uses   *)
(* it, for ONE object key.  None of this code is in the repository:        *)
(*                                                                         *)
(*   - the API server stores the current version of the object (server);   *)
(*   - r.Client.Get reads an informer cache (cache) that lags behind; the  *)
(*     versions written since are in the watch stream, delivered in order; *)
(*   - the controller's workqueue holds the key (dirty) and its delayed    *)
(*     re-adds (timers), and never runs two workers on one key.            *)
(*                                                                         *)
(* Users create, edit, pause and delete the object at any time.  Only the  *)
(* reconciler removes the streamline finalizer.                            *)
(***************************************************************************)
EXTENDS Naturals

CONSTANTS
  Windows,      \* the resume-at instants users may put in a pause annotation
  Pausing,      \* whether users set the pause annotation at all
  BornWithFin,  \* whether objects may be created with the finalizer already set
  BornHeld,     \* whether they may be created with another controller's finalizer
  MaxUid,       \* bound: how often the name is (re)created
  MaxGen,       \* bound: spec generations of one incarnation
  MaxEdits      \* bound: user actions in a behaviour, creations apart

\* The reconcile results a window may not be confused with.
ASSUME WindowsAssumption ==
  Windows \cap {"none", "forever", "stop", "rate"} = {}
ASSUME ChoicesAssumption ==
  /\ BornWithFin \subseteq BOOLEAN /\ BornHeld \subseteq BOOLEAN
  /\ Pausing \in BOOLEAN
ASSUME BoundsAssumption ==
  MaxUid \in Nat /\ MaxGen \in Nat /\ MaxEdits \in Nat

VARIABLES
  server,       \* the version the API server holds
  cache,        \* the version the informer cache holds
  stream,       \* the versions written after cache and not yet delivered
  dirty,        \* the key is in the workqueue
  timers,       \* delayed re-adds: "rate" (rate limiter, short delay) or a window
  elapsed,      \* the windows that time.Now() is after
  edits         \* user actions so far, creations apart

cpVars == <<server, cache, stream, dirty, timers, elapsed, edits>>

(***************************************************************************)
(* One version of the object.  A deleted object is a version too: exists   *)
(* is FALSE and uid is that of the incarnation that went away.             *)
(***************************************************************************)
Annotations == {"none", "forever"} \cup Windows

Version ==
  [rv       : Nat,           \* metadata.resourceVersion, in write order
   uid      : Nat,           \* metadata.uid: one per incarnation
   exists   : BOOLEAN,
   deleting : BOOLEAN,       \* deletionTimestamp is set
   fin      : BOOLEAN,       \* the streamline finalizer is present
   held     : BOOLEAN,       \* some other controller's finalizer is present
   gen      : Nat,           \* metadata.generation
   ann      : Annotations,   \* pause annotation: none, without or with resume-at
   obs      : Nat,           \* status.observedGeneration
   ready    : {"Unknown", "True", "False"},   \* the Ready condition
   paused   : Nat]           \* generation of the Paused=True condition, 0 if none

NoObject ==
  [rv |-> 0, uid |-> 0, exists |-> FALSE, deleting |-> TRUE, fin |-> FALSE,
   held |-> FALSE, gen |-> 0, ann |-> "none", obs |-> 0, ready |-> "Unknown",
   paused |-> 0]

Chain == {cache} \cup stream        \* every version a Get may still return

CPInit ==
  /\ server = NoObject
  /\ cache = NoObject
  /\ stream = {}
  /\ dirty = FALSE
  /\ timers = {}
  /\ elapsed = {}
  /\ edits = 0

\* The API server accepts o as the next version and announces it to watchers.
Write(o) ==
  LET new == [o EXCEPT !.rv = server.rv + 1]
  IN  /\ server' = new
      /\ stream' = stream \cup {new}

\* What is stored once the finalizers of o change: an object that is being
\* deleted goes away with its last finalizer.
Collected(o) ==
  IF o.deleting /\ ~o.fin /\ ~o.held THEN [o EXCEPT !.exists = FALSE] ELSE o

(***************************************************************************)
(* Users and other controllers.                                            *)
(***************************************************************************)
UserStep == edits < MaxEdits /\ edits' = edits + 1

\* The next incarnation, as its creator submits it.
NewObject(held, fin) ==
  [rv |-> server.rv, uid |-> server.uid + 1, exists |-> TRUE, deleting |-> FALSE,
   fin |-> fin, held |-> held, gen |-> 1, ann |-> "none", obs |-> 0,
   ready |-> "Unknown", paused |-> 0]

UserCreate ==
  /\ ~server.exists /\ server.uid < MaxUid
  /\ \E held \in BornHeld, fin \in BornWithFin : Write(NewObject(held, fin))
  /\ UNCHANGED <<cache, dirty, timers, elapsed, edits>>

UserEditSpec ==
  /\ UserStep
  /\ server.exists /\ server.gen < MaxGen
  /\ Write([server EXCEPT !.gen = @ + 1])
  /\ UNCHANGED <<cache, dirty, timers, elapsed>>

\* pauseChecker.Pause (with SetAutoResume for a window) or Resume, and Update.
UserSetPause ==
  /\ UserStep
  /\ Pausing /\ server.exists
  /\ \E a \in Annotations \ {server.ann} : Write([server EXCEPT !.ann = a])
  /\ UNCHANGED <<cache, dirty, timers, elapsed>>

UserDelete ==
  /\ UserStep
  /\ server.exists /\ ~server.deleting
  /\ Write(Collected([server EXCEPT !.deleting = TRUE]))
  /\ UNCHANGED <<cache, dirty, timers, elapsed>>

\* Another controller finishes its own cleanup and removes its finalizer.
OtherReleases ==
  /\ server.exists /\ server.deleting /\ server.held
  /\ Write(Collected([server EXCEPT !.held = FALSE]))
  /\ UNCHANGED <<cache, dirty, timers, elapsed, edits>>

(***************************************************************************)
(* Informer and workqueue.                                                 *)
(***************************************************************************)
Deliver ==
  /\ \E v \in stream :
       /\ \A w \in stream : v.rv <= w.rv
       /\ cache' = v
       /\ stream' = stream \ {v}
  /\ dirty' = TRUE
  /\ UNCHANGED <<server, timers, elapsed, edits>>

TimerFires ==
  /\ \E t \in timers :
       /\ t \in Windows => t \in elapsed
       /\ timers' = timers \ {t}
  /\ dirty' = TRUE
  /\ UNCHANGED <<server, cache, stream, elapsed, edits>>

WindowElapses ==
  /\ \E w \in Windows \ elapsed : elapsed' = elapsed \cup {w}
  /\ UNCHANGED <<server, cache, stream, dirty, timers, edits>>

CPNext ==
  \/ UserCreate \/ UserEditSpec \/ UserSetPause \/ UserDelete \/ OtherReleases
  \/ Deliver \/ TimerFires \/ WindowElapses
=============================================================================
