----------------------------- MODULE Resources -----------------------------
(***************************************************************************)
(* The resource manager of src/pkg/streamline/resources.go at work for one *)
(* owner, and the dry run of dryrun.go, on the objects of an API server    *)
(* that others change too.  Reads come from a cache that lags the server;  *)
(* every call to the server is a step of its own, and may fail, also after *)
(* it took effect.                                                         *)
(*                                                                         *)
(* Of an object are kept its content (the spec, or the data of a kind that *)
(* has no spec), its labels (annotations are treated alike) and its        *)
(* controller.  Content that is not the desired one is "old" if this field *)
(* manager applied it for an earlier release of the handler, and "drift"   *)
(* if the server holds it for another field manager: another client, or    *)
(* the Create and Update of the handler itself, which name none.  A        *)
(* resourceVersion is compared for equality only: what was read carries    *)
(* whether the object has been written since.                              *)
(***************************************************************************)
EXTENDS Integers, FiniteSets, SequencesExt

CONSTANTS
  Names,       \* the children, in the order EnsureAll is given them
  WithSpec,    \* the names whose kind has a spec
  Options,     \* sets of EnsureOptions: strategy, mergeLabels, forceConflicts
  MaxEvents    \* bound: changes by others, failed calls, calls beside EnsureAll

Children == ToSet(Names)

Strategies == {"Replace", "Merge", "Apply"}

ASSUME ChildrenAssumption ==
  Names \in Seq(Children) /\ WithSpec \subseteq Children /\ MaxEvents \in Nat

EnsureOptions == [strategy : Strategies, mergeLabels : BOOLEAN, forceConflicts : BOOLEAN]

ASSUME OptionsAssumption == Options \subseteq EnsureOptions

VARIABLES
  store,    \* the API server: per name the object, or None
  cache,    \* what the manager's client reads: an object, and whether it is current
  opts,     \* the options the handler passes
  call,     \* the handler's call in progress, of the manager or of its client
  result,   \* the last ResourceResult
  plan,     \* per name: what DryRunResourceManager recorded, while nothing has changed
  events    \* events so far

vars == <<store, cache, opts, call, result, plan, events>>

None == [content |-> "none", labels |-> {}, controller |-> "none"]

Object == [content : {"want", "old", "drift"}, labels : SUBSET {"own", "foreign"},
           controller : {"none", "me", "other"}]

\* What the handler asks for, before and after SetControllerReference.
Bare == [content |-> "want", labels |-> {"own"}, controller |-> "none"]
Desired == [Bare EXCEPT !.controller = "me"]

NoResult == [name |-> "none", action |-> "none", dry |-> FALSE]

\* rest: the names still to do; todo: the next call of the client, for the first of them.
NoCall == [op |-> "none", dry |-> FALSE, rest |-> <<>>, todo |-> "none",
           read |-> None, current |-> TRUE]

Init ==
  /\ store \in [Children -> {None, Bare, [Desired EXCEPT !.content = "old"],
                             [Desired EXCEPT !.content = "drift"]}]
  /\ cache = [n \in Children |-> [val |-> store[n], current |-> TRUE]]
  /\ opts \in Options
  /\ call = NoCall /\ result = NoResult
  /\ plan = [n \in Children |-> "none"]
  /\ events = 0

Event == events < MaxEvents /\ events' = events + 1

\* The server stores v under n; what was read of it before is no longer current.
Put(n, v) ==
  /\ store' = [store EXCEPT ![n] = v]
  /\ IF v = store[n] THEN UNCHANGED <<cache, plan>>
     ELSE /\ cache' = [cache EXCEPT ![n].current = FALSE]
          /\ plan' = [plan EXCEPT ![n] = "none"]

\* What a call of op does first with a name.
First(op) == CASE op = "Delete" -> "delete"
               [] op = "DeleteAllOf" -> "deleteAllOf"
               [] OTHER -> "get"

Begin(op, names, dry) ==
  /\ call = NoCall /\ names # <<>>
  /\ call' = [NoCall EXCEPT !.op = op, !.dry = dry, !.rest = names, !.todo = First(op)]
  /\ result' = NoResult
  /\ UNCHANGED <<store, cache, opts, plan>>

\* The loop of EnsureAll and DeleteAll goes on to the next name.
Done(action) ==
  /\ result' = [name |-> Head(call.rest), action |-> action, dry |-> call.dry]
  /\ call' = IF Len(call.rest) = 1 THEN NoCall
             ELSE [call EXCEPT !.rest = Tail(@), !.read = None, !.current = TRUE,
                               !.todo = First(call.op)]

\* The first error ends the call.
Fail == call' = NoCall /\ result' = NoResult

IsOwned(obj) == obj.controller = "me"

\* ListOwned with filterOwned; the cache lists them in any order.
ListOwned == {n \in Children : IsOwned(cache[n].val)}

\* Mutant: labels are not compared.
NeedsUpdateOfSpec(n, obj) == n \in WithSpec /\ obj.content # "want"

\* The content is compared under "spec" only.
needsUpdate(n, obj) ==
  \/ n \in WithSpec /\ obj.content # "want"
  \/ ~opts.mergeLabels /\ obj.labels # Desired.labels

(***************************************************************************)
(* The client's Get of the first name left, and what is made of it.        *)
(***************************************************************************)
Then(todo) ==
  /\ call' = [call EXCEPT !.todo = todo, !.read = cache[Head(call.rest)].val,
                          !.current = cache[Head(call.rest)].current]
  /\ UNCHANGED result

\* Mutant: another controller's reference is not respected.
AdoptAnyway(obj) == IF IsOwned(obj) THEN Done("unchanged") ELSE Then("adopt")

\* SetControllerReference refuses an object that has another controller.
Adopt(obj) ==
  IF IsOwned(obj) THEN Done("unchanged")
  ELSE IF obj.controller = "other" THEN Fail
  ELSE Then("adopt")

Orphan(obj) == IF IsOwned(obj) THEN Then("orphan") ELSE Done("unchanged")

Get ==
  LET n == Head(call.rest)  obj == cache[n].val IN
  /\ call.todo = "get"
  /\ CASE call.op \in {"Ensure", "EnsureOwned"} /\ obj = None -> Then("create")
       [] call.op = "Ensure" /\ obj # None ->
            IF needsUpdate(n, obj) THEN Then("update") ELSE Done("unchanged")
       [] call.op = "EnsureOwned" /\ obj # None -> Done("unchanged")
       [] call.op = "Adopt" -> IF obj = None THEN Fail ELSE Adopt(obj)
       [] call.op = "Orphan" -> IF obj = None THEN Fail ELSE Orphan(obj)
  /\ UNCHANGED <<store, cache, opts, plan, events>>

\* The client cannot read it.
GetFails == call.todo = "get" /\ Event /\ Fail /\ UNCHANGED <<store, cache, opts, plan>>

(***************************************************************************)
(* performUpdate.  mergeLabels adds the desired labels to the map of the   *)
(* object that was read, if it has one, or else to a new map; a merge      *)
(* patch holds what then differs between the two objects.                  *)
(***************************************************************************)
MergedLabels(read) ==
  IF opts.mergeLabels THEN read.labels \cup Desired.labels ELSE Desired.labels

\* The labels of the object that was read, after that.
LabelsOf(read) ==
  IF opts.mergeLabels /\ read.labels # {} THEN MergedLabels(read) ELSE read.labels

Merge(obj, read) ==
  LET from == LabelsOf(read)  to == MergedLabels(read) IN
  [content |-> IF read.content = "want" THEN obj.content ELSE "want",
   controller |-> IF read.controller = "me" THEN obj.controller ELSE "me",
   labels |-> (obj.labels \ (from \ to)) \cup (to \ from)]

\* What the server makes of a write, and whether it accepts it.
Written(obj) ==
  CASE call.todo = "create" -> Desired
    [] call.todo = "delete" -> None
    [] call.todo = "adopt" -> [call.read EXCEPT !.controller = "me"]
    [] call.todo = "orphan" -> [call.read EXCEPT !.controller = "none"]
    [] call.todo = "update" ->
         CASE opts.strategy = "Merge" -> Merge(obj, call.read)
           [] opts.strategy = "Apply" -> [Desired EXCEPT !.labels = @ \cup obj.labels]
           [] opts.strategy = "Replace" -> [Desired EXCEPT !.labels = MergedLabels(call.read)]

\* Mutant: performUpdate does not copy the resourceVersion.
AcceptedUnversioned(obj) == (call.todo = "create") <=> (obj = None)

\* Mutant: a write to an object that is gone is taken for a success.
AcceptedAbsent(obj) == call.todo = "create" => obj = None

\* An apply would add a second controller, or, unless it is forced, set a field that
\* another manager holds to another value (an absent label is nobody's).
ApplyRefused(obj) ==
  \/ obj.controller = "other"
  \/ ~opts.forceConflicts /\ obj.content = "drift"

Accepted(obj) ==
  IF call.todo = "create" THEN obj = None
  ELSE /\ obj # None
       /\ call.todo = "delete" \/ call.current
          \/ (call.todo = "update" /\ opts.strategy = "Merge")
       /\ ~(call.todo = "update" /\ opts.strategy = "Apply" /\ ApplyRefused(obj))

Action ==
  CASE call.todo = "create" -> "created"
    [] call.todo = "update" -> "updated"
    [] call.todo = "delete" -> "deleted"
    [] call.todo = "adopt" -> "adopted"
    [] call.todo = "orphan" -> "orphaned"

Writing == call.todo \in {"create", "update", "delete", "adopt", "orphan"}

\* A write reaches the server.
Write ==
  LET n == Head(call.rest)  obj == store[n] IN
  /\ Writing /\ ~call.dry
  /\ \/ Accepted(obj) /\ Put(n, Written(obj)) /\ Done(Action)
     \/ /\ ~Accepted(obj) /\ UNCHANGED <<store, cache, plan>>
        /\ IF call.todo = "delete" THEN Done("unchanged") ELSE Fail
  /\ UNCHANGED <<opts, events>>

\* A write fails, or its answer is lost.
WriteFails ==
  LET n == Head(call.rest) IN
  /\ Writing /\ ~call.dry /\ Event
  /\ \/ Accepted(store[n]) /\ Put(n, Written(store[n]))
     \/ UNCHANGED <<store, cache, plan>>
  /\ Fail
  /\ UNCHANGED opts

(***************************************************************************)
(* The methods of a DryRunClient, which records what it is asked for.      *)
(***************************************************************************)
\* The manager calls Update to adopt, to orphan and to replace, Patch to merge or apply.
Updating == call.todo \in {"adopt", "orphan"}
            \/ (call.todo = "update" /\ opts.strategy = "Replace")

DryCreate == call.todo = "create" /\ Done(Action)

\* Update reads the object again, for the record.
DryUpdate == Updating /\ IF cache[Head(call.rest)].val = None THEN Fail ELSE Done(Action)

DryUpdateFails == Updating /\ Event /\ Fail

DryPatch == call.todo = "update" /\ ~Updating /\ Done(Action)

\* Delete does not look whether there is something to delete.
DryDelete == call.todo = "delete" /\ Done(Action)

WriteDry ==
  /\ call.dry
  /\ \/ (DryCreate \/ DryUpdate \/ DryPatch \/ DryDelete) /\ UNCHANGED events
     \/ DryUpdateFails
  /\ UNCHANGED <<store, cache, opts, plan>>

\* The handler calls DeleteAllOf of its client, which a DryRunClient inherits from the
\* client it wraps: it takes effect (and so does SubResource, for statuses).
DeleteAllOf ==
  /\ call.todo = "deleteAllOf" /\ call' = NoCall
  /\ store' = [n \in Children |-> None]
  /\ cache' = [n \in Children |->
                 [cache[n] EXCEPT !.current = store[n] = None /\ cache[n].current]]
  /\ plan' = [n \in Children |-> IF store[n] = None THEN plan[n] ELSE "none"]
  /\ UNCHANGED <<opts, result, events>>

\* Mutant: the dry run compares as needsUpdate does.
HasDriftOfSpec(obj) == obj.content # Bare.content

\* DiffCalculator.Diff of the object and the desired one, which has no owner yet.
HasDrift(obj) == obj # Bare

\* DryRunResourceManager.Ensure and Delete.
Predict(n) ==
  LET obj == cache[n].val IN
  /\ call = NoCall /\ Event
  /\ plan' = [plan EXCEPT ![n] = IF obj = None THEN "create"
                                 ELSE IF HasDrift(obj) THEN "update" ELSE "skip"]
  /\ UNCHANGED <<store, cache, opts, call, result>>

PredictDelete(n) ==
  /\ call = NoCall /\ Event
  /\ plan' = [plan EXCEPT ![n] = IF cache[n].val = None THEN "absent" ELSE "delete"]
  /\ UNCHANGED <<store, cache, opts, call, result>>

-----------------------------------------------------------------------------
\* What others may make of an object.
Changed(obj) ==
  IF obj = None THEN {[Bare EXCEPT !.content = "drift", !.labels = {"foreign"}]}
  ELSE {None, [obj EXCEPT !.content = "drift"], [obj EXCEPT !.labels = @ \cup {"foreign"}],
        [obj EXCEPT !.labels = @ \ {"own"}],
        [obj EXCEPT !.controller = IF @ = "none" THEN "other" ELSE @]}

OthersChange(n) ==
  /\ Event
  /\ \E v \in Changed(store[n]) \ {store[n]} : Put(n, v)
  /\ call' = IF call.rest # <<>> /\ Head(call.rest) = n
             THEN [call EXCEPT !.current = FALSE] ELSE call
  /\ UNCHANGED <<opts, result>>

Sync(n) ==
  /\ ~cache[n].current
  /\ cache' = [cache EXCEPT ![n] = [val |-> store[n], current |-> TRUE]]
  /\ plan' = [plan EXCEPT ![n] = "none"]
  /\ UNCHANGED <<store, opts, call, result, events>>

EnsureAll == Begin("Ensure", Names, FALSE) /\ UNCHANGED events

OtherCall ==
  /\ Event
  /\ \/ \E op \in {"EnsureOwned", "Adopt", "Orphan", "Delete"}, n \in Children, dry \in BOOLEAN :
          Begin(op, <<n>>, dry)
     \/ Begin("Ensure", Names, TRUE)
     \/ \E owned \in SetToSeqs(ListOwned) : Begin("Delete", owned, FALSE)
     \/ \E dry \in BOOLEAN : Begin("DeleteAllOf", Names, dry)

Next ==
  \/ EnsureAll \/ OtherCall \/ Get \/ GetFails \/ Write \/ WriteFails \/ WriteDry \/ DeleteAllOf
  \/ \E n \in Children : Predict(n) \/ PredictDelete(n) \/ OthersChange(n) \/ Sync(n)

Spec == Init /\ [][Next]_vars

(***************************************************************************)
(* The owner is reconciled again and again, calls return, watches deliver. *)
(***************************************************************************)
Fairness ==
  /\ WF_vars(EnsureAll) /\ WF_vars(Get) /\ WF_vars(Write) /\ WF_vars(WriteDry)
  /\ WF_vars(DeleteAllOf)
  /\ \A n \in Children : WF_vars(Sync(n))

FairSpec == Spec /\ Fairness

-----------------------------------------------------------------------------
TypeOK ==
  /\ store \in [Children -> Object \cup {None}]
  /\ \A n \in Children : cache[n].val \in Object \cup {None}
  /\ \A n \in Children : cache[n].current => cache[n].val = store[n]
  /\ plan \in [Children -> {"none", "create", "update", "skip", "delete", "absent"}]
  /\ call.rest \in Seq(Children) /\ (call.todo = "none" <=> call = NoCall)
  /\ events \in 0..MaxEvents

\* A step of the manager's call that changes the object of name n.
Changes(n) ==
  Writing /\ Head(call.rest) = n /\ call'.rest # call.rest /\ store'[n] # store[n]

\* What was written over is nothing, is what was read, or keeps what others changed.
Informed(n) ==
  \/ call.todo = "create" /\ store[n] = None
  \/ call.op # "EnsureOwned" /\ store[n] = call.read
  \/ /\ opts.strategy = "Merge" /\ call.op = "Ensure"
     /\ call.read.content = "want" => store'[n].content = store[n].content
     /\ call.read.controller = "me" => store'[n].controller = store[n].controller
     /\ \A l \in {"own", "foreign"} :
          (l \in call.read.labels <=> l \in Desired.labels) =>
            (l \in store'[n].labels <=> l \in store[n].labels)
     /\ opts.mergeLabels => store[n].labels \subseteq store'[n].labels

(***************************************************************************)
(* What others wrote since the manager read is not undone unread: only a   *)
(* merge patch lands on a changed object, and it leaves every field others *)
(* changed since alone unless it has the field to set itself, and takes no *)
(* label away if labels are to be merged; EnsureOwned writes over nothing  *)
(* (Ensure, Adopt, Orphan, performUpdate).                                 *)
(***************************************************************************)
NoBlindWrite ==
  [][\A n \in Children : Changes(n) /\ call.todo # "delete" => Informed(n)]_vars

(***************************************************************************)
(* Adopt does not take an object from another controller, nor Orphan free  *)
(* one of it, however late their write arrives; neither touches more than  *)
(* the reference.                                                          *)
(***************************************************************************)
OwnershipKept ==
  [][\A n \in Children : Changes(n) /\ call.op \in {"Adopt", "Orphan"} =>
       /\ store[n].controller # "other"
       /\ store'[n] = [store[n] EXCEPT !.controller = store'[n].controller]]_vars

\* The result of a real call agrees with what is recorded for its name.
AsPlanned ==
  LET n == result'.name  p == plan[n] IN
  /\ call.op = "Ensure" /\ p \notin {"none", "delete", "absent"} =>
       /\ result'.action = "created" <=> p = "create"
       /\ result'.action = "updated" => p = "update"
  /\ result'.action = "deleted" /\ cache[n].current => p # "absent"

(***************************************************************************)
(* What the dry run manager recorded is what the call then does, as long   *)
(* as nothing the manager reads has changed: a creation or an update was   *)
(* foretold, what would be skipped is unchanged, and, if the cache was     *)
(* current, what would not be found is not deleted.                        *)
(***************************************************************************)
PredictionSound ==
  [][result' # result /\ result' # NoResult /\ ~result'.dry => AsPlanned]_vars

(***************************************************************************)
(* Once others, failures and other calls have ceased, EnsureAll brings     *)
(* every child whose kind has a spec to the desired content, and to the    *)
(* desired labels unless these are merged or applied; except a child that  *)
(* the server refuses to apply to, for its other controller or, unforced,  *)
(* for content another field manager set, and what comes after it.         *)
(***************************************************************************)
Matches(n) ==
  /\ store[n] # None
  /\ n \in WithSpec => store[n].content = "want"
  /\ ~opts.mergeLabels /\ opts.strategy # "Apply" => store[n].labels = Desired.labels

Refused(n) ==
  /\ store[n] # None /\ needsUpdate(n, store[n])
  /\ opts.strategy = "Apply" /\ ApplyRefused(store[n])

Converges ==
  <>[](\A i \in DOMAIN Names : Matches(Names[i]) \/ \E j \in 1..i : Refused(Names[j]))
=============================================================================
