---------------------------- MODULE PhaseMachine ----------------------------
(***************************************************************************)
(* PhaseStateMachine and StateHistory of                                   *)
(* src/pkg/streamline/statemachine.go: one machine shared by workers, each *)
(* of which moves an object of its own, while builder calls still arrive.  *)
(*                                                                         *)
(* Transition takes the machine's lock for the lookup, for the exit        *)
(* callbacks and for the enter callbacks, and runs every callback without  *)
(* it; a callback may call Transition again.  A refused Transition changes *)
(* nothing and is not a step.                                              *)
(***************************************************************************)
EXTENDS Conditions

CONSTANTS
  Workers,
  Machines,     \* the machines, as they are built before they are used
  Phases,       \* every phase that is ever named
  LateCalls,    \* builder calls made while the machine is in use
  Required,     \* the condition types whose summary the guards ask for
  MaxHistory,   \* maxSize of a StateHistory
  MaxLate       \* bound: late calls that are made

ASSUME BoundsAssumption == MaxHistory \in Nat \ {0} /\ MaxLate \in Nat

ASSUME ConditionsAssumption == Required \cup {"Ready"} \subseteq ConditionTypes

(***************************************************************************)
(* A callback is "ready" or "notready" (the two of CommonStateMachine),    *)
(* "record" (StateHistory.Record of the transition it hangs on), or a      *)
(* phase: a callback that calls Transition to it.  A machine keeps what    *)
(* runs on leaving, on a transition and on entering apart.                 *)
(***************************************************************************)
Plain == {"ready", "notready", "record"}
Callbacks == Plain \cup Phases

\* The machines whose exit and transition callbacks are among some.
MachinesOf(callbacks) ==
  [initial : Phases, phases : SUBSET Phases,
   transitions : [Phases \X Phases -> Seq([guarded : BOOLEAN, hook : Seq(callbacks)])],
   onEnter : [Phases -> Seq(Callbacks)], onExit : [Phases -> Seq(callbacks)]]

ASSUME PhasesAssumption ==
  /\ {"Running", "Failed"} \subseteq Phases /\ (Plain \cup {""}) \cap Phases = {}
  /\ Machines \subseteq MachinesOf(Callbacks)

\* AllowFrom and AllowBidirectional are calls of Allow, each of which takes the lock.
Operations == {"Allow", "AllowWithGuard", "AllowAny", "OnEnter", "OnExit", "OnTransition"}

ASSUME LateCallsAssumption ==
  LateCalls \subseteq [op : Operations, from : Phases, to : Phases, fn : Callbacks]

VARIABLES
  sm,      \* the machine: initial, phases, transitions, onEnter, onExit
  late,    \* the late calls made so far
  obj,     \* per worker: its object, with its StateHistory
  stack    \* per worker: the Transition calls in progress, innermost last

vars == <<sm, late, obj, stack>>

(***************************************************************************)
(* The builder.                                                            *)
(***************************************************************************)
NewPhaseStateMachine(initial) ==
  [initial |-> initial, phases |-> {initial},
   transitions |-> [pair \in Phases \X Phases |-> <<>>],
   onEnter |-> [p \in Phases |-> <<>>], onExit |-> [p \in Phases |-> <<>>]]

Rule(guarded, hook) == [guarded |-> guarded, hook |-> hook]

Add(m, from, to, rule) ==
  [m EXCEPT !.transitions[<<from, to>>] = Append(@, rule), !.phases = @ \cup {from, to}]

Allow(m, from, to) == Add(m, from, to, Rule(FALSE, <<>>))

AllowWithGuard(m, from, to) == Add(m, from, to, Rule(TRUE, <<>>))

AllowFrom(m, from, targets) ==
  FoldLeft(LAMBDA n, t : Allow(n, from, t), m, targets)

\* To one phase; to several it does the same for one after the other.
AllowAny(m, t) ==
  [m EXCEPT !.transitions = [pair \in DOMAIN @ |->
              IF pair[1] \in m.phases \ {t} /\ pair[2] = t
              THEN Append(@[pair], Rule(FALSE, <<>>)) ELSE @[pair]],
            !.phases = @ \cup {t}]

OnEnter(m, p, fn) ==
  [m EXCEPT !.onEnter[p] = Append(@, fn), !.phases = @ \cup {p}]

OnExit(m, p, fn) ==
  [m EXCEPT !.onExit[p] = Append(@, fn), !.phases = @ \cup {p}]

OnTransition(m, from, to, fn) ==
  IF m.transitions[from, to] # <<>>
  THEN [m EXCEPT !.transitions[<<from, to>>][1].hook = Append(@, fn)]
  ELSE Add(m, from, to, Rule(FALSE, <<fn>>))

CommonStateMachine ==
  LET moves == << <<"Pending", <<"Initializing", "Failed">>>>,
                  <<"Initializing", <<"Running", "Failed">>>>,
                  <<"Running", <<"Updating", "Degraded", "Terminating",
                                 "Failed", "Succeeded">>>>,
                  <<"Updating", <<"Running", "Failed">>>>,
                  <<"Degraded", <<"Running", "Failed", "Terminating">>>>,
                  <<"Failed", <<"Pending">>>> >>
      table == FoldLeft(LAMBDA m, e : AllowFrom(m, e[1], e[2]),
                        NewPhaseStateMachine("Pending"), moves)
  IN OnEnter(OnEnter(table, "Running", "ready"), "Failed", "notready")

JobStateMachine ==
  AllowFrom(AllowFrom(NewPhaseStateMachine("Pending"), "Pending", <<"Running", "Failed">>),
            "Running", <<"Succeeded", "Failed">>)

\* The machine with a StateHistory.Record hung on each of its transitions.
Recorded(m) ==
  [m EXCEPT !.transitions = [pair \in DOMAIN @ |->
     IF @[pair] = <<>> THEN <<>> ELSE [@[pair] EXCEPT ![1].hook = <<"record">>]]]

(***************************************************************************)
(* Queries about an object o.                                              *)
(***************************************************************************)
GuardHolds(rule, o) ==
  rule.guarded => SummaryCondition(o.conds, Required) = "True"

CurrentPhase(o) == IF o.phase = "" THEN sm.initial ELSE o.phase

\* Mutant: the guard of the transition that was found is not asked.
CanTransitionUnguarded(from, to, o) == sm.transitions[from, to] # <<>>

\* The first transition between two phases decides, as it does in Transition.
CanTransition(from, to, o) ==
  sm.transitions[from, to] # <<>> /\ GuardHolds(sm.transitions[from, to][1], o)

AllowedTransitions(from, o) ==
  {to \in Phases : \E r \in ToSet(sm.transitions[from, to]) : GuardHolds(r, o)}

IsTerminal(p) == \A to \in Phases : sm.transitions[p, to] = <<>>

-----------------------------------------------------------------------------
\* A new object, with or without a Ready condition.  Condition times
\* are of no consequence here (see Gate).
NewObject(conds) == [phase |-> "", conds |-> conds, hist |-> <<>>]

NewObjects == {NewObject(<<>>), NewObject(Set(<<>>, "Ready", "Unknown", 0))}

Init ==
  /\ sm \in Machines
  /\ late = {}
  /\ obj \in [Workers -> NewObjects]
  /\ stack = [w \in Workers |-> <<>>]

Idle(w) == stack[w] = <<>>
Top(w) == Last(stack[w])
WithTop(w, frame) == Append(Front(stack[w]), frame)

\* A call of Transition that finds its rule: the frame it works on.
Frame(from, to) ==
  [from |-> from, to |-> to, stage |-> "matched", left |-> <<>>,
   hook |-> sm.transitions[from, to][1].hook]

Accepted(o, to) == CurrentPhase(o) # to /\ CanTransition(CurrentPhase(o), to, o)

Transition(w, to) ==
  /\ Idle(w) /\ Accepted(obj[w], to)
  /\ stack' = [stack EXCEPT ![w] = <<Frame(CurrentPhase(obj[w]), to)>>]
  /\ UNCHANGED <<sm, late, obj>>

\* The callback of CommonStateMachine that writes Ready, if it is there.
SetReadyStatus(o, status) ==
  IF HasCondition(o.conds, "Ready")
  THEN [o EXCEPT !.conds[Get(o.conds, "Ready")].status = status]
  ELSE o

\* Mutant: a full history drops the entry it should add.
RecordUntilFull(hist, from, to) ==
  IF Len(hist) >= MaxHistory THEN hist ELSE Append(hist, [from |-> from, to |-> to])

\* Mutant: a full history grows.
RecordUnbounded(hist, from, to) == Append(hist, [from |-> from, to |-> to])

\* StateHistory.Record; a full history loses its oldest entry.
Record(hist, from, to) ==
  Append(IF Len(hist) >= MaxHistory THEN Tail(hist) ELSE hist, [from |-> from, to |-> to])

\* What a callback of the frame f does to the object, but for calls of Transition.
Effect(o, fn, f) ==
  CASE fn = "ready" -> SetReadyStatus(o, "True")
    [] fn = "notready" -> SetReadyStatus(o, "False")
    [] fn = "record" -> [o EXCEPT !.hist = Record(@, f.from, f.to)]
    [] fn \in Phases -> o

\* The next callback of the innermost call runs.
RunCallback(w) ==
  LET f == Top(w)
      fn == Head(f.left)
      popped == WithTop(w, [f EXCEPT !.left = Tail(@)])
  IN
  /\ ~Idle(w) /\ f.left # <<>>
  /\ IF fn \in Phases /\ Accepted(obj[w], fn)
     THEN stack' = [stack EXCEPT ![w] = Append(popped, Frame(CurrentPhase(obj[w]), fn))]
     ELSE stack' = [stack EXCEPT ![w] = popped]
  /\ obj' = [obj EXCEPT ![w] = Effect(@, fn, f)]
  /\ UNCHANGED <<sm, late>>

\* Mutant: the enter callbacks of the phase that was left run.
EnterCallbacksOfFrom(f) == sm.onEnter[f.from]

EnterCallbacks(f) == sm.onEnter[f.to]

Goto(w, f, stage, callbacks) ==
  stack' = [stack EXCEPT ![w] = WithTop(w, [f EXCEPT !.stage = stage, !.left = callbacks])]

(***************************************************************************)
(* What an innermost call does when its callbacks have run.  The callback  *)
(* of the transition is read through a pointer kept since the lookup,      *)
(* without the lock: what was there then or what is there now.             *)
(***************************************************************************)
Advance(w) ==
  LET f == Top(w) IN
  /\ ~Idle(w) /\ f.left = <<>>
  /\ \/ /\ f.stage = "matched" /\ Goto(w, f, "exit", sm.onExit[f.from])
        /\ UNCHANGED obj
     \/ /\ f.stage = "exit"
        /\ \E hook \in {f.hook, sm.transitions[f.from, f.to][1].hook} : Goto(w, f, "hook", hook)
        /\ UNCHANGED obj
     \/ /\ f.stage = "hook" /\ Goto(w, f, "enter", EnterCallbacks(f))
        /\ obj' = [obj EXCEPT ![w].phase = f.to]
     \/ /\ f.stage = "enter" /\ stack' = [stack EXCEPT ![w] = Front(@)]
        /\ UNCHANGED obj
  /\ UNCHANGED <<sm, late>>

Initialize(w) ==
  /\ Idle(w) /\ obj[w].phase = ""
  /\ obj' = [obj EXCEPT ![w].phase = sm.initial]
  /\ UNCHANGED <<sm, late, stack>>

\* The handler's own writes between transitions; Ready it leaves to the machine.
Write(w, t, status) ==
  /\ Idle(w)
  /\ obj' = [obj EXCEPT ![w].conds = Set(@, t, status, 0)]
  /\ UNCHANGED <<sm, late, stack>>

\* StateHistory.Clear.
Clear(w) ==
  /\ Idle(w)
  /\ obj' = [obj EXCEPT ![w].hist = <<>>]
  /\ UNCHANGED <<sm, late, stack>>

\* The worker turns to a new object.
NextObject(w) ==
  /\ Idle(w)
  /\ \E new \in NewObjects : obj' = [obj EXCEPT ![w] = new]
  /\ UNCHANGED <<sm, late, stack>>

Apply(m, c) ==
  CASE c.op = "Allow" -> Allow(m, c.from, c.to)
    [] c.op = "AllowWithGuard" -> AllowWithGuard(m, c.from, c.to)
    [] c.op = "AllowAny" -> AllowAny(m, c.to)
    [] c.op = "OnEnter" -> OnEnter(m, c.to, c.fn)
    [] c.op = "OnExit" -> OnExit(m, c.from, c.fn)
    [] c.op = "OnTransition" -> OnTransition(m, c.from, c.to, c.fn)

BuilderCall(c) ==
  /\ c \notin late /\ Cardinality(late) < MaxLate
  /\ sm' = Apply(sm, c)
  /\ late' = late \cup {c}
  /\ UNCHANGED <<obj, stack>>

Next ==
  \/ \E c \in LateCalls : BuilderCall(c)
  \/ \E w \in Workers :
       \/ \E to \in Phases : Transition(w, to)
       \/ RunCallback(w)
       \/ Advance(w)
       \/ Initialize(w)
       \/ \E t \in Required, status \in Statuses : Write(w, t, status)
       \/ Clear(w)
       \/ NextObject(w)

Spec == Init /\ [][Next]_vars

-----------------------------------------------------------------------------
Stages == {"matched", "exit", "hook", "enter"}

TypeOK ==
  /\ late \subseteq LateCalls
  /\ sm.phases \subseteq Phases
  /\ \A w \in Workers :
       /\ obj[w].phase \in Phases \cup {""}
       /\ ToSet(obj[w].conds) \subseteq Condition
       /\ Len(obj[w].hist) <= MaxHistory
       /\ \A f \in ToSet(stack[w]) :
            f.stage \in Stages /\ ToSet(f.left) \subseteq Callbacks

(***************************************************************************)
(* A phase changes only along a transition of the table, the first between *)
(* the two, and with its guard satisfied as the phase changes: callbacks   *)
(* that run without the lock, calls nested in them and builder calls       *)
(* meanwhile do not take an object elsewhere (Transition).                 *)
(***************************************************************************)
AlongRules ==
  [][\A w \in Workers :
       LET rules == sm.transitions[CurrentPhase(obj[w]), obj'[w].phase] IN
       ~Idle(w) /\ obj'[w].phase # obj[w].phase =>
         /\ rules # <<>>
         /\ rules[1].guarded => SummaryCondition(obj[w].conds, Required) = "True"]_vars

(***************************************************************************)
(* As a phase changes along a transition that records, the newest history  *)
(* entry is that change, nested calls and a full history notwithstanding.  *)
(***************************************************************************)
HistoryTells ==
  [][\A w \in Workers :
       /\ ~Idle(w) /\ obj'[w].phase # obj[w].phase
       /\ Contains(Top(w).hook, "record")
       => /\ obj[w].hist # <<>>
          /\ Last(obj[w].hist) = [from |-> Top(w).from, to |-> Top(w).to]]_vars

(***************************************************************************)
(* Between the calls of Transition, an object of a machine that has the    *)
(* callbacks of CommonStateMachine is Ready when it is Running and not     *)
(* Ready when it is Failed, whatever path led there.                       *)
(***************************************************************************)
ReadyFollowsPhase ==
  \A w \in Workers :
    Idle(w) /\ HasCondition(obj[w].conds, "Ready") /\ Contains(sm.onEnter["Failed"], "notready") =>
      /\ obj[w].phase = "Running" => StatusOf(obj[w].conds, "Ready") = "True"
      /\ obj[w].phase = "Failed" => StatusOf(obj[w].conds, "Ready") = "False"

(***************************************************************************)
(* The queries agree with each other and with Transition: what             *)
(* CanTransition accepts is among the AllowedTransitions; one more there   *)
(* is hidden behind a guarded transition that refuses; a terminal phase    *)
(* has none.                                                               *)
(***************************************************************************)
AnswersAgree ==
  \A w \in Workers :
    LET p == CurrentPhase(obj[w])
        allowed == AllowedTransitions(p, obj[w])
        can == {q \in Phases : CanTransition(p, q, obj[w])}
    IN /\ can \subseteq allowed
       /\ \A q \in allowed \ can : sm.transitions[p, q][1].guarded
       /\ IsTerminal(p) => allowed = {}

=============================================================================
