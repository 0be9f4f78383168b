--------------------------- MODULE ResourcesProofs ---------------------------
(***************************************************************************)
(* Proofs about Resources, for any children, options and number of events. *)
(***************************************************************************)
EXTENDS Resources, SequenceTheorems, FiniteSetTheorems, TLAPS

Values  == Object \cup {None}
Writes  == {"create", "update", "delete", "adopt", "orphan"}
Actions == {"none", "created", "updated", "unchanged", "deleted", "adopted", "orphaned"}

Operations == {"Ensure", "EnsureOwned", "Adopt", "Orphan", "Delete", "DeleteAllOf"}

CachedValue == [val : Values, current : BOOLEAN]

Call == [op : Operations \cup {"none"}, dry : BOOLEAN,
         rest : Seq(Children), todo : Writes \cup {"none", "get", "deleteAllOf"}, read : Values,
         current : BOOLEAN]

(***************************************************************************)
(* What the steps of one call leave to the next.                           *)
(***************************************************************************)
\* The types that TypeOK needs to know to be kept, its own conjuncts apart.
Typed ==
  /\ store \in [Children -> Values]
  /\ cache \in [Children -> CachedValue]
  /\ opts \in EnsureOptions
  /\ call \in Call
  /\ result \in [name : Children \cup {"none"}, action : Actions, dry : BOOLEAN]
  /\ plan \in [Children -> {"none", "create", "update", "skip", "delete", "absent"}]
  /\ events \in 0..MaxEvents

CacheTrue == \A n \in Children : cache[n].current => cache[n].val = store[n]

\* A write of the kind that op makes of n once it has read v.
Suits(op, todo, n, v) ==
  /\ todo = "create" => op \in {"Ensure", "EnsureOwned"} /\ v = None
  /\ todo = "update" => op = "Ensure" /\ v # None /\ needsUpdate(n, v)
  /\ todo = "adopt"  => op = "Adopt" /\ v # None /\ v.controller = "none"
  /\ todo = "orphan" => op = "Orphan" /\ v # None /\ v.controller = "me"

\* A call writes what its operation writes, and has looked at the object first.
CallInv ==
  /\ call.todo = "none" <=> call = NoCall
  /\ call # NoCall => call.rest # <<>> /\ call.op # "none"
  /\ call.todo = "get" => call.op \in {"Ensure", "EnsureOwned", "Adopt", "Orphan"}
  /\ call.todo = "delete" <=> call.op = "Delete"
  /\ call.todo = "deleteAllOf" <=> call.op = "DeleteAllOf"
  /\ Suits(call.op, call.todo, Head(call.rest), call.read)

\* What was read and has not been written since is what is stored.
ReadTrue ==
  call.todo \in {"update", "adopt", "orphan"} /\ call.current =>
    call.read = store[Head(call.rest)]

\* What was recorded by a dry run was recorded of what the cache still holds,
Foretold(p, v) ==
  CASE p = "none"   -> TRUE
    [] p = "create" -> v = None
    [] p = "update" -> v # None
    [] p = "skip"   -> v = Bare
    [] p = "delete" -> v # None
    [] p = "absent" -> v = None

PlanTrue == \A n \in Children : Foretold(plan[n], cache[n].val)

\* and the call in progress has read no other.
PlanRead ==
  call.todo \in {"create", "update"} /\ plan[Head(call.rest)] # "none" =>
    call.read = cache[Head(call.rest)].val

ManagerInv == Typed /\ CacheTrue /\ CallInv /\ ReadTrue /\ PlanTrue /\ PlanRead

-----------------------------------------------------------------------------
LEMMA ObjectsType ==
  /\ None \in Values /\ Bare \in Object /\ Desired \in Object
  /\ \A v \in Object : v # None
  BY DEF None, Bare, Desired, Object, Values

LEMMA NoCallType ==
  /\ NoCall \in Call /\ NoCall.todo = "none" /\ NoCall.rest = <<>> /\ NoCall.dry = FALSE
  /\ NoCall.op = "none"
  BY ObjectsType DEF NoCall, Call

LEMMA HeadIsChild ==
  ASSUME Typed, CallInv, call # NoCall
  PROVE  /\ Head(call.rest) \in Children /\ Tail(call.rest) \in Seq(Children)
         /\ Len(call.rest) # 1 => Tail(call.rest) # <<>>
         /\ Tail(call.rest) # call.rest
<1>1. call.rest \in Seq(Children) /\ call.rest # <<>>
  BY DEF Typed, Call, CallInv
<1>2. /\ Head(call.rest) \in Children /\ Tail(call.rest) \in Seq(Children)
      /\ Len(Tail(call.rest)) = Len(call.rest) - 1 /\ Len(call.rest) \in Nat \ {0}
  BY <1>1, HeadTailProperties, EmptySeq
<1>3. Tail(call.rest) = <<>> => Len(call.rest) = 1
  <2>1. Len(<<>>) = 0
    OBVIOUS
  <2>2. Tail(call.rest) = <<>> => Len(Tail(call.rest)) = 0
    BY <2>1, Zenon
  <2>3. QED BY <1>2, <2>2
<1>4. Tail(call.rest) # call.rest
  <2> SUFFICES ASSUME Tail(call.rest) = call.rest PROVE FALSE
    OBVIOUS
  <2>1. Len(Tail(call.rest)) = Len(call.rest)
    OBVIOUS
  <2>2. QED BY <1>2, <2>1
<1>5. QED BY <1>2, <1>3, <1>4

\* The store, the cache and the plan after a write of the server.
LEMMA PutKeeps ==
  ASSUME Typed, CacheTrue, PlanTrue, NEW n \in Children, NEW v \in Values, Put(n, v)
  PROVE  /\ store' \in [Children -> Values] /\ cache' \in [Children -> CachedValue]
         /\ plan' \in [Children -> {"none", "create", "update", "skip", "delete", "absent"}]
         /\ CacheTrue' /\ PlanTrue'
         /\ \A m \in Children : /\ m # n => store'[m] = store[m]
                                /\ plan'[m] # "none" =>
                                     plan'[m] = plan[m] /\ cache'[m].val = cache[m].val
         /\ store'[n] = v
<1>1. CASE v = store[n]
  <2>1. UNCHANGED <<store, cache, plan>>
    BY <1>1 DEF Put, Typed
  <2>2. QED BY <1>1, <2>1 DEF Typed, CacheTrue, PlanTrue
<1>2. CASE v # store[n]
  <2>1. /\ store' = [store EXCEPT ![n] = v] /\ cache' = [cache EXCEPT ![n].current = FALSE]
        /\ plan' = [plan EXCEPT ![n] = "none"]
    BY <1>2 DEF Put
  <2>2. /\ cache' \in [Children -> CachedValue]
        /\ \A m \in Children : /\ cache'[m].val = cache[m].val
                               /\ cache'[m].current => m # n /\ cache[m].current
    <3>1. cache' = [m \in Children |->
                      IF m = n THEN [cache[m] EXCEPT !.current = FALSE] ELSE cache[m]]
      BY <2>1 DEF Typed
    <3>2. \A m \in Children : cache[m] \in CachedValue
      BY DEF Typed
    <3>3. QED BY <3>1, <3>2 DEF CachedValue
  <2>3. /\ store' \in [Children -> Values] /\ store'[n] = v
        /\ \A m \in Children : m # n => store'[m] = store[m] /\ plan'[m] = plan[m]
        /\ plan'[n] = "none"
        /\ plan' \in [Children -> {"none", "create", "update", "skip", "delete", "absent"}]
    BY <2>1 DEF Typed
  <2>4. CacheTrue'
    BY <2>2, <2>3 DEF CacheTrue
  <2>5. PlanTrue'
    BY <2>2, <2>3 DEF PlanTrue, Foretold
  <2>6. QED BY <2>2, <2>3, <2>4, <2>5
<1>3. QED BY <1>1, <1>2

\* The call goes on to the next name, or ends.
LEMMA DoneKeeps ==
  ASSUME Typed, CallInv, call # NoCall, NEW a \in Actions, Done(a) 
  PROVE  /\ call' \in Call /\ CallInv' /\ ReadTrue' /\ PlanRead'
         /\ result' \in [name : Children \cup {"none"}, action : Actions, dry : BOOLEAN]
<1>1. result' \in [name : Children \cup {"none"}, action : Actions, dry : BOOLEAN]
  BY HeadIsChild DEF Done, Typed, Call
<1>2. CASE Len(call.rest) = 1
  <2>1. call' = NoCall
    BY <1>2 DEF Done
  <2>2. QED BY <1>1, <2>1, NoCallType DEF CallInv, Suits, ReadTrue, PlanRead
<1>3. CASE Len(call.rest) # 1
  <2>1. call' = [call EXCEPT !.rest = Tail(call.rest), !.read = None, !.current = TRUE,
                             !.todo = First(call.op)]
    BY <1>3 DEF Done
  <2>2. /\ call' \in Call /\ call'.rest = Tail(call.rest) /\ call'.op = call.op
        /\ call'.todo = First(call.op)
    BY <2>1, HeadIsChild, ObjectsType DEF Typed, Call, Writes, First
  <2>3. call.op \in Operations
    BY DEF CallInv, Typed, Call
  <2>4. call'.rest # <<>> /\ call' # NoCall
    BY <1>3, <2>2, NoCallType, HeadIsChild
  <2>5. QED
    BY <1>1, <2>2, <2>3, <2>4 DEF CallInv, Suits, ReadTrue, PlanRead, First, Operations
<1>4. QED BY <1>2, <1>3

LEMMA FailKeeps ==
  ASSUME Fail
  PROVE  /\ call' \in Call /\ CallInv' /\ ReadTrue' /\ PlanRead'
         /\ result' \in [name : Children \cup {"none"}, action : Actions, dry : BOOLEAN]
  BY NoCallType DEF Fail, NoResult, Actions, CallInv, Suits, ReadTrue, PlanRead

-----------------------------------------------------------------------------
LEMMA OwnedType ==
  SetToSeqs(ListOwned) \subseteq Seq(Children)
<1>1. IsFiniteSet(Children)
  <2>1. /\ Names \in [1..Len(Names) -> Children] /\ Len(Names) \in Nat
        /\ DOMAIN Names = 1..Len(Names)
    BY ChildrenAssumption, LenProperties
  <2>2. Names \in Surjection(1..Len(Names), Children)
    BY <2>1 DEF Surjection, Children, ToSet
  <2>3. IsFiniteSet(1..Len(Names))
    BY <2>1, FS_Interval
  <2>4. QED BY <2>2, <2>3, FS_Surjection
<1>2. ListOwned \subseteq Children
  BY DEF ListOwned
<1>3. Cardinality(ListOwned) \in Nat
  BY <1>1, <1>2, FS_Subset, FS_CardinalityType
<1>4. SetToSeqs(ListOwned) \subseteq [1..Cardinality(ListOwned) -> Children]
  BY <1>2 DEF SetToSeqs
<1>5. QED BY <1>3, <1>4, SeqDef

LEMMA BeginKeeps ==
  ASSUME NEW op \in Operations,
         NEW names \in Seq(Children), NEW dry \in BOOLEAN, Begin(op, names, dry)
  PROVE  /\ call' \in Call /\ CallInv' /\ ReadTrue' /\ PlanRead'
         /\ result' \in [name : Children \cup {"none"}, action : Actions, dry : BOOLEAN]
         /\ call.rest = <<>> /\ call'.rest # <<>>
         /\ result' = NoResult /\ UNCHANGED <<store, cache, opts, plan>>
<1>1. /\ call = NoCall /\ names # <<>> /\ result' = NoResult
      /\ call' = [NoCall EXCEPT !.op = op, !.dry = dry, !.rest = names, !.todo = First(op)]
      /\ UNCHANGED <<store, cache, opts, plan>>
  BY DEF Begin
<1>2. /\ call'.op = op /\ call'.dry = dry /\ call'.rest = names /\ call' \in Call
      /\ call'.todo = First(op)
  BY <1>1, NoCallType DEF NoCall, Call, Writes, First, Operations
<1>3. call' # NoCall
  BY <1>1, <1>2, NoCallType
<1>4. CallInv' /\ ReadTrue' /\ PlanRead'
  BY <1>1, <1>2, <1>3 DEF CallInv, Suits, ReadTrue, PlanRead, First, Operations
<1>5. QED
  BY <1>1, <1>2, <1>4, NoCallType DEF NoResult, Actions

\* A Get that leads to a write.
LEMMA ThenKeeps ==
  ASSUME Typed, CacheTrue, CallInv, call.todo = "get", UNCHANGED <<store, cache, opts, plan>>,
         NEW todo \in Writes \ {"delete"}, Then(todo),
         Suits(call.op, todo, Head(call.rest), cache[Head(call.rest)].val)
  PROVE  call' \in Call /\ CallInv' /\ ReadTrue' /\ PlanRead' /\ result' = result
<1> DEFINE n == Head(call.rest)
<1>1. call # NoCall /\ call.rest # <<>> /\ call.op \notin {"Delete", "DeleteAllOf", "none"}
  BY DEF CallInv
<1>2. n \in Children /\ cache[n] \in CachedValue
  BY <1>1, HeadIsChild DEF Typed
<1>3. call' = [call EXCEPT !.todo = todo, !.read = cache[n].val, !.current = cache[n].current]
  BY DEF Then
<1>4. /\ call' \in Call /\ call'.todo = todo /\ call'.read = cache[n].val
      /\ call'.current = cache[n].current /\ call'.rest = call.rest /\ call'.op = call.op
  BY <1>2, <1>3 DEF Typed, Call, CachedValue
<1>5. call' # NoCall
  BY <1>4, NoCallType DEF Writes
<1>6. CallInv'
  <2>1. Suits(call.op, call.todo, Head(call.rest), call.read)'
    BY <1>4 DEF Suits, needsUpdate
  <2>2. QED BY <1>1, <1>4, <1>5, <2>1 DEF CallInv, Writes
<1>7. ReadTrue' /\ PlanRead'
  BY <1>2, <1>4 DEF ReadTrue, PlanRead, CacheTrue
<1>8. QED BY <1>4, <1>6, <1>7 DEF Then

\* A Get finds its object right, finds it wrong and sets out to write, or gives up.
LEMMA GetDecides ==
  ASSUME ManagerInv, Get
  PROVE  \/ Done("unchanged") /\ cache[Head(call.rest)].val # None
         \/ Fail
         \/ \E todo \in Writes \ {"delete"} :
              Then(todo) /\ Suits(call.op, todo, Head(call.rest), cache[Head(call.rest)].val)
<1> DEFINE n == Head(call.rest)
           v == cache[n].val
<1>1. call # NoCall /\ call.op \in {"Ensure", "EnsureOwned", "Adopt", "Orphan"}
  BY DEF Get, ManagerInv, CallInv, NoCall
<1>2. v \in Values
  BY <1>1, HeadIsChild DEF ManagerInv, Typed, CachedValue
<1>3. CASE call.op \in {"Ensure", "EnsureOwned"} /\ v = None
  <2>1. Then("create")
    BY <1>3 DEF Get
  <2>2. QED BY <1>3, <2>1 DEF Suits, Writes
<1>4. CASE call.op = "Ensure" /\ v # None
  <2>1. IF needsUpdate(n, v) THEN Then("update") ELSE Done("unchanged")
    BY <1>4 DEF Get
  <2>2. QED BY <1>4, <2>1 DEF Suits, Writes
<1>5. CASE call.op = "EnsureOwned" /\ v # None
  <2>1. Done("unchanged")
    BY <1>5 DEF Get
  <2>2. QED BY <1>5, <2>1
<1>6. CASE call.op = "Adopt"
  <2>1. IF v = None THEN Fail ELSE Adopt(v)
    BY <1>6 DEF Get
  <2>2. v # None /\ v.controller # "me" /\ v.controller # "other" => v.controller = "none"
    BY <1>2 DEF Values, Object
  <2>3. QED BY <1>6, <2>1, <2>2 DEF Adopt, IsOwned, Suits, Writes
<1>7. CASE call.op = "Orphan"
  <2>1. IF v = None THEN Fail ELSE Orphan(v)
    BY <1>7 DEF Get
  <2>2. QED BY <1>7, <2>1 DEF Orphan, IsOwned, Suits, Writes
<1>8. QED BY <1>1, <1>3, <1>4, <1>5, <1>6, <1>7

LEMMA GetKeeps ==
  ASSUME ManagerInv, Get
  PROVE  ManagerInv'
<1>1. call.todo = "get" /\ UNCHANGED <<store, cache, opts, plan, events>>
  BY DEF Get
<1>2. call # NoCall
  BY <1>1 DEF ManagerInv, CallInv
<1>3. Typed /\ CacheTrue /\ CallInv
  BY DEF ManagerInv
<1>4. /\ call' \in Call /\ CallInv' /\ ReadTrue' /\ PlanRead'
      /\ result' \in [name : Children \cup {"none"}, action : Actions, dry : BOOLEAN]
  <2>1. CASE Done("unchanged")
    BY <1>2, <1>3, <2>1, DoneKeeps DEF Actions
  <2>2. CASE Fail
    BY <2>2, FailKeeps
  <2>3. CASE \E todo \in Writes \ {"delete"} :
               Then(todo) /\ Suits(call.op, todo, Head(call.rest), cache[Head(call.rest)].val)
    <3>1. call' \in Call /\ CallInv' /\ ReadTrue' /\ PlanRead' /\ result' = result
      BY <1>1, <1>3, <2>3, ThenKeeps
    <3>2. QED BY <1>3, <3>1 DEF Typed
  <2>4. QED BY <2>1, <2>2, <2>3, GetDecides
<1>5. CacheTrue' /\ PlanTrue'
  BY <1>1 DEF ManagerInv, CacheTrue, PlanTrue
<1>6. QED
  BY <1>1, <1>3, <1>4, <1>5 DEF ManagerInv, Typed

LEMMA GetFailsKeeps ==
  ASSUME ManagerInv, GetFails
  PROVE  ManagerInv'
<1>1. UNCHANGED <<store, cache, opts, plan>> /\ Fail /\ events' \in 0..MaxEvents
  BY ChildrenAssumption DEF GetFails, Event, ManagerInv, Typed
<1>2. QED
  BY <1>1, FailKeeps DEF ManagerInv, Typed, CacheTrue, PlanTrue

-----------------------------------------------------------------------------
LEMMA WrittenType ==
  ASSUME Typed, CallInv, call # NoCall, NEW obj \in Values, Writing, Accepted(obj)
  PROVE  Written(obj) \in Values /\ Action \in Actions
<1>1. call.read \in Values /\ opts \in EnsureOptions
  BY DEF Typed, Call
<1>2. Action \in Actions
  BY DEF Writing, Action, Actions
<1>3. CASE call.todo = "create" \/ call.todo = "delete"
  <2>1. Written(obj) \in {Desired, None}
    BY <1>3 DEF Written
  <2>2. QED BY <1>2, <2>1, ObjectsType DEF Values
<1>4. CASE call.todo = "adopt" \/ call.todo = "orphan"
  <2>1. call.read \in Object
    BY <1>1, <1>4 DEF CallInv, Suits, Values
  <2>2. /\ [call.read EXCEPT !.controller = "me"] \in Object
        /\ [call.read EXCEPT !.controller = "none"] \in Object
    BY <2>1 DEF Object
  <2>3. Written(obj) \in {[call.read EXCEPT !.controller = "me"],
                          [call.read EXCEPT !.controller = "none"]}
    BY <1>4 DEF Written
  <2>4. QED BY <1>2, <2>2, <2>3 DEF Values
<1>5. CASE call.todo = "update"
  <2>1. call.read \in Object /\ obj \in Object
    BY <1>1, <1>5 DEF CallInv, Suits, Accepted, Values
  <2>2. Merge(obj, call.read) \in Object
    BY <2>1 DEF Merge, MergedLabels, LabelsOf, Object, Desired, Bare
  <2>3. [Desired EXCEPT !.labels = Desired.labels \cup obj.labels] \in Object
    BY <2>1, ObjectsType DEF Object
  <2>4. [Desired EXCEPT !.labels = MergedLabels(call.read)] \in Object
    BY <2>1, ObjectsType DEF MergedLabels, Object
  <2>5. opts.strategy \in {"Replace", "Merge", "Apply"}
    BY <1>1 DEF EnsureOptions, Strategies
  <2>6. Written(obj) \in {Merge(obj, call.read),
                          [Desired EXCEPT !.labels = Desired.labels \cup obj.labels],
                          [Desired EXCEPT !.labels = MergedLabels(call.read)]}
    BY <1>5, <2>5 DEF Written
  <2>7. QED BY <1>2, <2>2, <2>3, <2>4, <2>6 DEF Values
<1>6. QED BY <1>2, <1>3, <1>4, <1>5 DEF Writing

\* Everything that a write of the call leads to, whether it is accepted, refused or lost.
LEMMA WriteKeeps ==
  ASSUME ManagerInv, Write \/ WriteFails \/ WriteDry
  PROVE  ManagerInv'
<1> DEFINE n == Head(call.rest)
<1>1. Typed /\ CacheTrue /\ CallInv /\ PlanTrue
  BY DEF ManagerInv
<1>2. Writing /\ UNCHANGED opts /\ events' \in 0..MaxEvents
  <2>1. CASE Write \/ WriteFails
    BY <1>1, <2>1, ChildrenAssumption DEF Write, WriteFails, Event, Typed
  <2>2. CASE WriteDry
    BY <1>1, <2>2, ChildrenAssumption DEF WriteDry, DryCreate, DryUpdate, DryUpdateFails, DryPatch,
       DryDelete, Updating, Writing, Event, Typed
  <2>3. QED BY <2>1, <2>2
<1>3. call # NoCall
  BY <1>2, NoCallType DEF Writing
<1>4. n \in Children /\ store[n] \in Values
  BY <1>1, <1>3, HeadIsChild DEF Typed
<1>5. /\ call' \in Call /\ CallInv' /\ ReadTrue' /\ PlanRead'
      /\ result' \in [name : Children \cup {"none"}, action : Actions, dry : BOOLEAN]
  <2>1. Action \in Actions
    BY <1>2 DEF Writing, Action, Actions
  <2>2. \/ Fail \/ Done(Action) \/ Done("unchanged")
    BY DEF Write, WriteFails, WriteDry, DryCreate, DryUpdate, DryUpdateFails, DryPatch, DryDelete
  <2>3. QED BY <1>1, <1>3, <2>1, <2>2, DoneKeeps, FailKeeps DEF Actions
<1>6. /\ store' \in [Children -> Values] /\ cache' \in [Children -> CachedValue]
      /\ plan' \in [Children -> {"none", "create", "update", "skip", "delete", "absent"}]
      /\ CacheTrue' /\ PlanTrue'
  <2>1. CASE UNCHANGED <<store, cache, plan>>
    BY <1>1, <2>1 DEF Typed, CacheTrue, PlanTrue
  <2>2. CASE Accepted(store[n]) /\ Put(n, Written(store[n]))
    <3>1. Written(store[n]) \in Values
      BY <1>1, <1>2, <1>3, <1>4, <2>2, WrittenType
    <3>2. QED BY <1>1, <1>4, <2>2, <3>1, PutKeeps
  <2>3. QED BY <2>1, <2>2 DEF Write, WriteFails, WriteDry
<1>7. QED BY <1>1, <1>2, <1>5, <1>6 DEF ManagerInv, Typed

\* A DeleteAllOf, of whichever client.
LEMMA DeleteAllOfKeeps ==
  ASSUME ManagerInv, DeleteAllOf
  PROVE  ManagerInv'
<1>1. Typed /\ CacheTrue /\ PlanTrue
  BY DEF ManagerInv
<1>2. /\ call' = NoCall /\ UNCHANGED <<opts, result, events>>
      /\ store' = [n \in Children |-> None]
      /\ cache' = [n \in Children |->
                     [cache[n] EXCEPT !.current = store[n] = None /\ cache[n].current]]
      /\ plan' = [n \in Children |-> IF store[n] = None THEN plan[n] ELSE "none"]
  BY DEF DeleteAllOf
<1>3. \A n \in Children : cache[n] \in CachedValue
  BY <1>1 DEF Typed
<1>4. /\ cache' \in [Children -> CachedValue]
      /\ \A n \in Children : /\ cache'[n].val = cache[n].val
                             /\ cache'[n].current => store[n] = None /\ cache[n].current
  BY <1>2, <1>3 DEF CachedValue
<1>5. Typed'
  BY <1>1, <1>2, <1>4, ObjectsType, NoCallType DEF Typed
<1>6. CacheTrue' /\ PlanTrue'
  <2>1. CacheTrue'
    BY <1>1, <1>2, <1>4 DEF CacheTrue
  <2>2. \A n \in Children : plan'[n] = "none" \/ plan'[n] = plan[n]
    BY <1>2
  <2>3. PlanTrue'
    BY <1>1, <1>4, <2>2 DEF PlanTrue, Foretold
  <2>4. QED BY <2>1, <2>3
<1>7. CallInv' /\ ReadTrue' /\ PlanRead'
  BY <1>2, NoCallType DEF CallInv, Suits, ReadTrue, PlanRead
<1>8. QED BY <1>5, <1>6, <1>7 DEF ManagerInv

-----------------------------------------------------------------------------
LEMMA OthersChangeKeeps ==
  ASSUME ManagerInv, NEW n \in Children, OthersChange(n)
  PROVE  ManagerInv'
<1>1. Typed /\ CacheTrue /\ CallInv /\ PlanTrue /\ ReadTrue /\ PlanRead
  BY DEF ManagerInv
<1>2. UNCHANGED <<opts, result>> /\ events' \in 0..MaxEvents
  BY <1>1, ChildrenAssumption DEF OthersChange, Event, Typed
<1>3. PICK v \in Changed(store[n]) : Put(n, v)
  BY DEF OthersChange
<1>4. v \in Values
  <2>1. store[n] \in Values
    BY <1>1 DEF Typed
  <2>2. QED BY <2>1 DEF Changed, Values, Object, None, Bare
<1>5. /\ store' \in [Children -> Values] /\ cache' \in [Children -> CachedValue]
      /\ plan' \in [Children -> {"none", "create", "update", "skip", "delete", "absent"}]
      /\ CacheTrue' /\ PlanTrue'
      /\ \A m \in Children : /\ m # n => store'[m] = store[m]
                             /\ plan'[m] # "none" =>
                                  plan'[m] = plan[m] /\ cache'[m].val = cache[m].val
  BY <1>1, <1>3, <1>4, PutKeeps
<1>6. /\ call' \in Call /\ call'.op = call.op /\ call'.todo = call.todo
      /\ call'.rest = call.rest /\ call'.read = call.read
      /\ call'.current => call.current
      /\ call.rest # <<>> /\ Head(call.rest) = n => call'.current = FALSE
      /\ call = NoCall => call' = NoCall
  <2>1. call' = IF call.rest # <<>> /\ Head(call.rest) = n
                THEN [call EXCEPT !.current = FALSE] ELSE call
    BY DEF OthersChange
  <2>2. CASE call.rest # <<>> /\ Head(call.rest) = n
    BY <1>1, <2>1, <2>2, NoCallType DEF Typed, Call
  <2>3. CASE ~(call.rest # <<>> /\ Head(call.rest) = n)
    BY <1>1, <2>1, <2>3 DEF Typed
  <2>4. QED BY <2>2, <2>3
<1>7. CallInv'
  <2>1. Suits(call.op, call.todo, Head(call.rest), call.read)'
    BY <1>1, <1>2, <1>6 DEF CallInv, Suits, needsUpdate
  <2>2. call' = NoCall => call = NoCall
    BY <1>1, <1>6, NoCallType DEF CallInv
  <2>3. QED BY <1>1, <1>6, <2>1, <2>2 DEF CallInv
<1>8. call # NoCall => Head(call.rest) \in Children /\ call.rest # <<>>
  BY <1>1, HeadIsChild DEF CallInv
<1>9. ReadTrue' /\ PlanRead'
  <2>1. CASE call = NoCall
    BY <1>6, <2>1, NoCallType DEF ReadTrue, PlanRead
  <2>2. CASE call # NoCall
    BY <1>1, <1>5, <1>6, <1>8, <2>2 DEF ReadTrue, PlanRead
  <2>3. QED BY <2>1, <2>2
<1>10. QED BY <1>1, <1>2, <1>5, <1>6, <1>7, <1>9 DEF ManagerInv, Typed

\* The watch brings n up to date.
LEMMA SyncKeeps ==
  ASSUME ManagerInv, NEW n \in Children, Sync(n)
  PROVE  ManagerInv'
<1>1. Typed /\ CacheTrue /\ CallInv /\ PlanTrue /\ ReadTrue /\ PlanRead
  BY DEF ManagerInv
<1>2. /\ cache' = [cache EXCEPT ![n] = [val |-> store[n], current |-> TRUE]]
      /\ plan' = [plan EXCEPT ![n] = "none"]
      /\ UNCHANGED <<store, opts, call, result, events>>
  BY DEF Sync
<1>3. [val |-> store[n], current |-> TRUE] \in CachedValue
  BY <1>1 DEF Typed, CachedValue
<1>4. /\ cache' \in [Children -> CachedValue]
      /\ plan' \in [Children -> {"none", "create", "update", "skip", "delete", "absent"}]
      /\ cache'[n].val = store[n] /\ plan'[n] = "none"
      /\ \A m \in Children : m # n => cache'[m] = cache[m] /\ plan'[m] = plan[m]
  BY <1>1, <1>2, <1>3 DEF Typed
<1>5. Typed' /\ CacheTrue'
  BY <1>1, <1>2, <1>4 DEF Typed, CacheTrue
<1>6. PlanTrue'
  BY <1>1, <1>4 DEF PlanTrue, Foretold
<1>7. CallInv' /\ ReadTrue'
  BY <1>1, <1>2 DEF CallInv, Suits, needsUpdate, ReadTrue
<1>8. PlanRead'
  <2>1. call.todo \in {"create", "update"} => Head(call.rest) \in Children
    BY <1>1, NoCallType, HeadIsChild
  <2>2. QED BY <1>1, <1>2, <1>4, <2>1 DEF PlanRead
<1>9. QED BY <1>5, <1>6, <1>7, <1>8 DEF ManagerInv

LEMMA PredictKeeps ==
  ASSUME ManagerInv, NEW n \in Children, Predict(n) \/ PredictDelete(n)
  PROVE  ManagerInv'
<1>1. Typed /\ CacheTrue /\ CallInv /\ PlanTrue /\ ReadTrue
  BY DEF ManagerInv
<1>2. /\ UNCHANGED <<store, cache, opts, call, result>> /\ call = NoCall
      /\ events' \in 0..MaxEvents
  BY <1>1, ChildrenAssumption DEF Predict, PredictDelete, Event, Typed
<1>3. PICK p \in {"create", "update", "skip", "delete", "absent"} :
        plan' = [plan EXCEPT ![n] = p] /\ Foretold(p, cache[n].val)
  BY DEF Predict, PredictDelete, Foretold, HasDrift
<1>4. Typed' /\ CacheTrue'
  BY <1>1, <1>2, <1>3 DEF Typed, CacheTrue
<1>5. PlanTrue'
  BY <1>1, <1>2, <1>3 DEF PlanTrue, Typed
<1>6. CallInv' /\ ReadTrue' /\ PlanRead'
  BY <1>1, <1>2, NoCallType DEF CallInv, Suits, needsUpdate, ReadTrue, PlanRead
<1>7. QED BY <1>4, <1>5, <1>6 DEF ManagerInv

LEMMA CallsKeep ==
  ASSUME ManagerInv, EnsureAll \/ OtherCall
  PROVE  ManagerInv'
<1>1. Typed /\ CacheTrue /\ PlanTrue
  BY DEF ManagerInv
<1>2. events' \in 0..MaxEvents
  <2>1. UNCHANGED events \/ Event
    BY DEF EnsureAll, OtherCall
  <2>2. QED BY <1>1, <2>1, ChildrenAssumption DEF Event, Typed
<1>3. PICK op \in Operations,
           names \in Seq(Children), dry \in BOOLEAN : Begin(op, names, dry)
  <2>1. \A n \in Children : <<n>> \in Seq(Children)
    OBVIOUS
  <2>2. QED BY <2>1, OwnedType, ChildrenAssumption DEF EnsureAll, OtherCall, Operations
<1>4. /\ call' \in Call /\ CallInv' /\ ReadTrue' /\ PlanRead'
      /\ result' \in [name : Children \cup {"none"}, action : Actions, dry : BOOLEAN]
      /\ UNCHANGED <<store, cache, opts, plan>>
  BY <1>3, BeginKeeps
<1>5. QED
  BY <1>1, <1>2, <1>4 DEF ManagerInv, Typed, CacheTrue, PlanTrue

\* The invariant behind the theorems below.
THEOREM ManagerInvariance == Spec => []ManagerInv
<1>1. Init => ManagerInv
  <2> SUFFICES ASSUME Init PROVE ManagerInv
    OBVIOUS
  <2>0. store \in [Children -> Values]
    <3>1. {None, Bare, [Desired EXCEPT !.content = "old"],
           [Desired EXCEPT !.content = "drift"]} \subseteq Values
      BY ObjectsType DEF Object, Values
    <3>2. QED BY <3>1 DEF Init
  <2>1. Typed
    BY <2>0, NoCallType, OptionsAssumption, ChildrenAssumption
       DEF Init, Typed, CachedValue, NoResult, Actions
  <2>2. CacheTrue /\ PlanTrue
    BY DEF Init, CacheTrue, PlanTrue, Foretold
  <2>3. CallInv /\ ReadTrue /\ PlanRead
    BY NoCallType DEF Init, CallInv, Suits, ReadTrue, PlanRead
  <2>4. QED BY <2>1, <2>2, <2>3 DEF ManagerInv
<1>2. ManagerInv /\ [Next]_vars => ManagerInv'
  <2> SUFFICES ASSUME ManagerInv, [Next]_vars PROVE ManagerInv'
    OBVIOUS
  <2>1. CASE Next
    BY <2>1, CallsKeep, GetKeeps, GetFailsKeeps, WriteKeeps, DeleteAllOfKeeps, PredictKeeps,
       OthersChangeKeeps, SyncKeeps DEF Next
  <2>2. CASE UNCHANGED vars
    BY <2>2 DEF vars, ManagerInv, Typed, CacheTrue, CallInv, Suits, needsUpdate, ReadTrue,
       PlanTrue, PlanRead, Foretold
  <2>3. QED BY <2>1, <2>2
<1>3. QED BY <1>1, <1>2, PTL DEF Spec

\* The types; what the cache calls current is what the server stores, whoever writes.
THEOREM TypeCorrect == Spec => []TypeOK
<1>1. ManagerInv => TypeOK
  BY DEF ManagerInv, Typed, CachedValue, Values, CacheTrue, CallInv, Call, TypeOK
<1>2. QED BY <1>1, ManagerInvariance, PTL

-----------------------------------------------------------------------------
(***************************************************************************)
(* What the manager's steps do.                                            *)
(***************************************************************************)
\* Only an accepted write of the call itself goes on to the next name with the
\* object changed, and only of a client that is not a dry run.
LEMMA ChangeIsWrite ==
  ASSUME ManagerInv, Next, NEW n \in Children, Changes(n)
  PROVE  /\ Writing /\ ~call.dry /\ Accepted(store[n]) /\ store'[n] = Written(store[n])
         /\ store' = [store EXCEPT ![n] = store'[n]]
<1>1. Writing /\ Head(call.rest) = n /\ call'.rest # call.rest /\ store'[n] # store[n]
  BY DEF Changes
<1>2. store \in [Children -> Values]
  BY DEF ManagerInv, Typed
<1>3. CASE Write \/ WriteFails
  <2>1. Writing /\ ~call.dry /\ Accepted(store[n]) /\ Put(n, Written(store[n]))
    BY <1>1, <1>3 DEF Write, WriteFails
  <2>2. store' = [store EXCEPT ![n] = Written(store[n])]
    BY <2>1 DEF Put
  <2>3. QED BY <1>2, <2>1, <2>2
<1>4. CASE \/ Get \/ GetFails \/ WriteDry \/ DeleteAllOf
           \/ \E m \in Children : Predict(m) \/ PredictDelete(m) \/ Sync(m)
  BY <1>1, <1>4 DEF Get, GetFails, WriteDry, DeleteAllOf, Writing, Predict, PredictDelete, Sync
<1>5. CASE EnsureAll \/ OtherCall
  BY <1>1, <1>5 DEF EnsureAll, OtherCall, Begin
<1>6. CASE \E m \in Children : OthersChange(m)
  <2>1. PICK m \in Children : OthersChange(m)
    BY <1>6
  <2>2. call'.rest = call.rest
    BY <2>1 DEF OthersChange, ManagerInv, Typed, Call
  <2>3. QED BY <1>1, <2>2
<1>7. QED BY <1>3, <1>4, <1>5, <1>6 DEF Next

\* A write of the call knows what it writes over.
LEMMA WriteIsInformed ==
  ASSUME ManagerInv, Next, NEW n \in Children, Changes(n), call.todo # "delete"
  PROVE  Informed(n)
<1>1. /\ Writing /\ Accepted(store[n]) /\ store'[n] = Written(store[n])
      /\ Head(call.rest) = n /\ store[n] \in Values /\ call.read \in Values
  BY ChangeIsWrite DEF Changes, ManagerInv, Typed, Call
<1>2. Suits(call.op, call.todo, n, call.read)
  BY <1>1 DEF ManagerInv, CallInv
<1>3. CASE call.todo = "create"
  BY <1>1, <1>3 DEF Accepted, Informed
<1>4. CASE call.todo \in {"update", "adopt", "orphan"} /\ call.current
  <2>1. store[n] = call.read
    BY <1>1, <1>4 DEF ManagerInv, ReadTrue
  <2>2. QED BY <1>2, <1>4, <2>1 DEF Suits, Informed
<1>5. CASE call.todo \in {"update", "adopt", "orphan"} /\ ~call.current
  <2>1. call.todo = "update" /\ opts.strategy = "Merge" /\ store[n] # None
    BY <1>1, <1>5 DEF Accepted
  <2>2. store[n] \in Object /\ call.read \in Object /\ call.op = "Ensure"
    BY <1>1, <1>2, <2>1 DEF Suits, Values
  <2>3. Written(store[n]) = Merge(store[n], call.read)
    BY <2>1 DEF Written
  <2>4. QED
    BY <1>1, <2>1, <2>2, <2>3 DEF Merge, MergedLabels, LabelsOf, Object, Desired, Bare, Informed
<1>6. QED BY <1>1, <1>3, <1>4, <1>5 DEF Writing

\* Nothing that others wrote since the manager's read is undone unread.
THEOREM NoBlindWriteCorrect == Spec => NoBlindWrite
<1>1. ManagerInv /\ [Next]_vars =>
        [\A n \in Children : Changes(n) /\ call.todo # "delete" => Informed(n)]_vars
  BY WriteIsInformed
<1>2. QED BY <1>1, ManagerInvariance, PTL DEF Spec, NoBlindWrite

\* Adopt and Orphan respect another controller however late their write arrives.
THEOREM OwnershipKeptCorrect == Spec => OwnershipKept
<1>1. ASSUME ManagerInv, Next, NEW n \in Children, Changes(n), call.op \in {"Adopt", "Orphan"}
      PROVE  /\ store[n].controller # "other"
             /\ store'[n] = [store[n] EXCEPT !.controller = store'[n].controller]
  <2>1. /\ Writing /\ Accepted(store[n]) /\ store'[n] = Written(store[n])
        /\ Head(call.rest) = n /\ call.read \in Values
    BY <1>1, ChangeIsWrite DEF Changes, ManagerInv, Typed, Call
  <2>2. Suits(call.op, call.todo, n, call.read) /\ call.todo # "delete"
    BY <1>1, <2>1 DEF ManagerInv, CallInv
  <2>3. call.todo \in {"adopt", "orphan"}
    BY <1>1, <2>1, <2>2 DEF Suits, Writing
  <2>4. call.read \in Object /\ call.read.controller \in {"none", "me"}
    BY <2>1, <2>2, <2>3 DEF Suits, Values
  <2>5. store[n] = call.read
    BY <1>1, <2>1, <2>3 DEF Accepted, ManagerInv, ReadTrue
  <2>6. Written(store[n]) \in {[call.read EXCEPT !.controller = "me"],
                              [call.read EXCEPT !.controller = "none"]}
    BY <2>3 DEF Written
  <2>7. QED BY <2>1, <2>4, <2>5, <2>6 DEF Object
<1>2. ManagerInv /\ [Next]_vars =>
        [\A n \in Children : Changes(n) /\ call.op \in {"Adopt", "Orphan"} =>
           /\ store[n].controller # "other"
           /\ store'[n] = [store[n] EXCEPT !.controller = store'[n].controller]]_vars
  BY <1>1
<1>3. QED BY <1>2, ManagerInvariance, PTL DEF Spec, OwnershipKept

\* What a call reports of a name, and what it has read of it by then.
LEMMA ResultTells ==
  ASSUME ManagerInv, Next, result' # result, result' # NoResult
  PROVE  /\ call # NoCall /\ result'.name = Head(call.rest)
         /\ \/ Get /\ result'.action = "unchanged" /\ cache[result'.name].val # None
            \/ /\ Writing
               /\ \/ result'.action = Action
                  \/ call.todo = "delete" /\ result'.action = "unchanged"
               /\ ~result'.dry /\ call.todo = "delete" /\ result'.action = "deleted"
                    => store[result'.name] # None
<1>1. CASE Get
  <2>1. call # NoCall
    BY <1>1 DEF Get, ManagerInv, CallInv
  <2>2. \A todo : Then(todo) => result' = result
    BY DEF Then
  <2>3. Done("unchanged") /\ cache[Head(call.rest)].val # None
    BY <1>1, <2>2, GetDecides DEF Fail
  <2>4. QED BY <1>1, <2>1, <2>3 DEF Done
<1>2. CASE Write \/ WriteFails \/ WriteDry
  <2>1. Writing /\ call # NoCall
    <3>1. Writing
      BY <1>2 DEF Write, WriteFails, WriteDry, DryCreate, DryUpdate, DryUpdateFails, DryPatch,
         DryDelete, Updating, Writing
    <3>2. QED BY <3>1, NoCallType DEF Writing
  <2>2. \/ Done(Action) /\ (Accepted(store[Head(call.rest)]) \/ call.dry)
        \/ Done("unchanged") /\ call.todo = "delete"
    BY <1>2 DEF Write, WriteFails, WriteDry, DryCreate, DryUpdate, DryUpdateFails, DryPatch,
       DryDelete, Fail
  <2>3. \A a : Done(a) => result' = [name |-> Head(call.rest), action |-> a, dry |-> call.dry]
    BY DEF Done
  <2>4. call.todo = "delete" /\ Accepted(store[Head(call.rest)]) => store[Head(call.rest)] # None
    BY DEF Accepted
  <2>5. CASE Done(Action)
    BY <2>1, <2>2, <2>3, <2>4, <2>5
  <2>6. CASE Done("unchanged") /\ call.todo = "delete"
    BY <2>1, <2>3, <2>6
  <2>7. QED BY <2>2, <2>5, <2>6
<1>3. CASE EnsureAll \/ OtherCall
  BY <1>3 DEF EnsureAll, OtherCall, Begin
<1>4. CASE \/ GetFails \/ DeleteAllOf
           \/ \E m \in Children : Predict(m) \/ PredictDelete(m) \/ Sync(m) \/ OthersChange(m)
  BY <1>4 DEF GetFails, Fail, DeleteAllOf, Predict, PredictDelete, Sync, OthersChange
<1>5. QED BY <1>1, <1>2, <1>3, <1>4 DEF Next

\* What was foretold is what is done.
LEMMA ResultIsPlanned ==
  ASSUME ManagerInv, Next, result' # result, result' # NoResult, ~result'.dry
  PROVE  AsPlanned
<1> DEFINE n == Head(call.rest)
           p == plan[n]
           v == cache[n].val
<1>1. call # NoCall /\ result'.name = n
  BY ResultTells
<1>2. n \in Children /\ Foretold(p, v) /\ (cache[n].current => v = store[n])
      /\ p \in {"none", "create", "update", "skip", "delete", "absent"}
  BY <1>1, HeadIsChild DEF ManagerInv, PlanTrue, CacheTrue, Typed
<1>3. CASE Get /\ result'.action = "unchanged" /\ v # None
  BY <1>1, <1>2, <1>3 DEF AsPlanned, Foretold
<1>4. CASE Writing /\ call.todo # "delete" /\ result'.action = Action
  <2>1. Suits(call.op, call.todo, n, call.read)
    BY DEF ManagerInv, CallInv
  <2>2. call.todo \in {"create", "update"} /\ p # "none" => call.read = v
    BY DEF ManagerInv, PlanRead
  <2>3. call.op = "Ensure" => call.todo \in {"create", "update"}
    BY <1>4, <2>1 DEF Suits, Writing
  <2>4. /\ result'.action = "created" <=> call.todo = "create"
        /\ result'.action = "updated" <=> call.todo = "update"
        /\ result'.action # "deleted"
    BY <1>4 DEF Action, Writing
  <2>5. ~needsUpdate(n, Bare)
    BY DEF needsUpdate, Bare, Desired
  <2>6. CASE call.op = "Ensure" /\ p \notin {"none", "delete", "absent"}
    <3>1. call.read = v /\ (call.todo = "create" => v = None)
          /\ (call.todo = "update" => v # None /\ v # Bare)
      BY <2>1, <2>2, <2>3, <2>5, <2>6 DEF Suits
    <3>2. /\ call.todo = "create" <=> p = "create"
          /\ call.todo = "update" => p = "update"
      <4>1. p \in {"create", "update", "skip"} /\ call.todo \in {"create", "update"}
        BY <1>2, <2>3, <2>6
      <4>2. /\ p = "create" => v = None
            /\ p = "update" => v # None
            /\ p = "skip" => v = Bare
        BY <1>2 DEF Foretold
      <4>3. Bare # None
        BY ObjectsType
      <4>4. QED BY <3>1, <4>1, <4>2, <4>3, Zenon
    <3>3. QED BY <1>1, <2>4, <3>2 DEF AsPlanned
  <2>7. CASE ~(call.op = "Ensure" /\ p \notin {"none", "delete", "absent"})
    BY <1>1, <2>4, <2>7 DEF AsPlanned
  <2>8. QED BY <2>6, <2>7
<1>5. CASE Writing /\ call.todo = "delete"
  <2>1. call.op = "Delete" /\ (result'.action = "deleted" => store[n] # None)
    BY <1>1, <1>5, ResultTells DEF ManagerInv, CallInv
  <2>2. QED BY <1>1, <1>2, <2>1 DEF AsPlanned, Foretold
<1>6. QED BY <1>1, <1>3, <1>4, <1>5, ResultTells

\* A dry run's record is kept to, while nothing the manager reads has changed.
THEOREM PredictionSoundCorrect == Spec => PredictionSound
<1>1. ManagerInv /\ [Next]_vars =>
        [result' # result /\ result' # NoResult /\ ~result'.dry => AsPlanned]_vars
  BY ResultIsPlanned
<1>2. QED BY <1>1, ManagerInvariance, PTL DEF Spec, PredictionSound
=============================================================================
