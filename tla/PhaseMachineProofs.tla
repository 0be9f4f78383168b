------------------------- MODULE PhaseMachineProofs -------------------------
(***************************************************************************)
(* What is proved of the phase state machine, for any machine, late calls, *)
(* guards and bounds.                                                      *)
(***************************************************************************)
EXTENDS PhaseMachine, SequenceTheorems, WellFoundedInduction, TLAPS

-----------------------------------------------------------------------------
(***************************************************************************)
(* The invariants.                                                         *)
(***************************************************************************)
Entries == [from : Phases, to : Phases]

Objects == [phase : Phases \cup {""}, conds : Seq(Condition), hist : Seq(Entries)]

Frames == [from : Phases, to : Phases, stage : Stages,
           left : Seq(Callbacks), hook : Seq(Callbacks)]

RulesOf(m, f) == m.transitions[<<f.from, f.to>>]

Inner(s) == s[Len(s)]

\* A call in progress has found a rule, and rules are never taken away.
Bounded(m, o, s) ==
  /\ Len(o.hist) <= MaxHistory
  /\ \A i \in 1..Len(s) : RulesOf(m, s[i]) # <<>>

Typed ==
  /\ sm \in MachinesOf(Callbacks)
  /\ late \subseteq LateCalls
  /\ obj \in [Workers -> Objects]
  /\ stack \in [Workers -> Seq(Frames)]
  /\ \A w \in Workers : Bounded(sm, obj[w], stack[w])

(***************************************************************************)
(* A callback that calls Transition while the phase is still to be set     *)
(* takes the object away under the outer call, which then sets the phase   *)
(* as if nothing had happened.  Calls may be nested in enter callbacks.    *)
(***************************************************************************)
NestedOnEnterOnly ==
  /\ Machines \subseteq MachinesOf(Plain)
  /\ \A c \in LateCalls : c.op \in {"OnExit", "OnTransition"} => c.fn \in Plain

\* The handler and the guards leave Ready to the machine.
ReadyIsReported == "Ready" \notin Required

PhaseIn(m, o) == IF o.phase = "" THEN m.initial ELSE o.phase

\* A call that is to set the phase is as allowed as when it found its rule:
\* what a callback may write meanwhile is Ready.
StillAllowed(m, o, f) ==
  /\ PhaseIn(m, o) = f.from
  /\ ReadyIsReported /\ RulesOf(m, f)[1].guarded =>
       SummaryCondition(o.conds, Required) = "True"

Noted(o, f) == o.hist # <<>> /\ Last(o.hist) = [from |-> f.from, to |-> f.to]

\* What recorded at the lookup still records.
StillNoted(m, o, f) ==
  Contains(f.hook, "record") =>
    /\ Contains(RulesOf(m, f)[1].hook, "record")
    /\ f.stage = "hook" => Contains(f.left, "record") \/ Noted(o, f)

\* Only the innermost call can have the phase still to set.
RulesKept(m, o, s) ==
  \A i \in 1..Len(s) :
    s[i].stage # "enter" =>
      /\ i = Len(s)
      /\ s[i].left \in Seq(Plain) /\ s[i].hook \in Seq(Plain)
      /\ StillAllowed(m, o, s[i])
      /\ StillNoted(m, o, s[i])

RulesHold ==
  /\ sm \in MachinesOf(Plain)
  /\ \A w \in Workers : RulesKept(sm, obj[w], stack[w])

-----------------------------------------------------------------------------
Signals == {"ready", "notready"}

SignalOf(p) == IF p = "Running" THEN "ready" ELSE "notready"

(***************************************************************************)
(* A machine that reports: entering Running and Failed reports first of    *)
(* all, nothing that is entered reports otherwise, and no object starts in *)
(* one of the two.                                                         *)
(***************************************************************************)
SignalsFirst(m) ==
  \A p \in Phases : \A i \in 1..Len(m.onEnter[p]) :
    m.onEnter[p][i] \in Signals =>
      i = 1 /\ p \in {"Running", "Failed"} /\ m.onEnter[p][i] = SignalOf(p)

Reports(m) ==
  /\ m.initial \notin {"Running", "Failed"}
  /\ \A p \in {"Running", "Failed"} :
       m.onEnter[p] # <<>> /\ m.onEnter[p][1] = SignalOf(p)
  /\ SignalsFirst(m)

Claims(m) == Contains(m.onEnter["Failed"], "notready")

\* A machine of which something is claimed reports as CommonStateMachine does.
ReportsFirst ==
  /\ \A m \in Machines : Claims(m) => Reports(m)
  /\ \A c \in LateCalls : c.op = "OnEnter" => c.fn \notin Signals

Right(o) ==
  HasCondition(o.conds, "Ready") =>
    /\ o.phase = "Running" => StatusOf(o.conds, "Ready") = "True"
    /\ o.phase = "Failed" => StatusOf(o.conds, "Ready") = "False"

\* The next callback of the frame reports the phase the object is in.
ToReport(o, f) ==
  /\ f.left # <<>> /\ f.left[1] = SignalOf(f.to)
  /\ f.to \in {"Running", "Failed"} /\ o.phase = f.to

\* An object between calls, or that has entered a phase, is right or about to be.
ReadyKept(o, s) ==
  /\ s = <<>> => Right(o)
  /\ \A i \in 1..Len(s) :
       s[i].stage = "enter" =>
         /\ \A j \in 1..Len(s[i].left) :
              s[i].left[j] \in Signals => i = Len(s) /\ j = 1 /\ ToReport(o, s[i])
         /\ i = Len(s) => Right(o) \/ ToReport(o, s[i])

ReadyHolds ==
  Claims(sm) => Reports(sm) /\ \A w \in Workers : ReadyKept(obj[w], stack[w])

-----------------------------------------------------------------------------
(***************************************************************************)
(* The condition list.                                                     *)
(***************************************************************************)
\* Get is the index of a condition of the type, or 0 when there is none.
LEMMA GetIs ==
  ASSUME NEW conds \in Seq(Condition), NEW t
  PROVE  /\ Get(conds, t) # 0 => Get(conds, t) \in 1..Len(conds) /\ conds[Get(conds, t)].type = t
         /\ HasCondition(conds, t) <=> Get(conds, t) # 0
<1> DEFINE I == {i \in 1..Len(conds) : conds[i].type = t}
<1>1. Get(conds, t) = IF I # {} THEN Min(I) ELSE 0
  BY DEF Get, SelectInSeq
<1>2. CASE I = {}
  BY <1>1, <1>2 DEF HasCondition
<1>3. CASE I # {}
  <2>1. I \in SUBSET Nat /\ I # {} /\ Get(conds, t) = Min(I)
    BY <1>1, <1>3
  <2> HIDE DEF I
  <2>2. IsWellFoundedOn(OpToRel(<, Nat), Nat)
    BY NatLessThanWellFounded
  <2>3. PICK x \in I : \A y \in I : ~(<<y, x>> \in OpToRel(<, Nat))
    BY <2>1, <2>2, WFMin
  <2>4. \A y, z \in Nat : <<y, z>> \in OpToRel(<, Nat) <=> y < z
    BY DEF OpToRel
  <2>5. ASSUME NEW y \in I PROVE x <= y
    <3>1. ~(y < x)
      BY <2>1, <2>3, <2>4
    <3> QED
      BY <2>1, <3>1
  <2>6. Min(I) \in I
    BY <2>5 DEF Min
  <2>7. Get(conds, t) \in 1..Len(conds) /\ conds[Get(conds, t)].type = t
    BY <2>1, <2>6 DEF I
  <2> QED
    BY <2>7 DEF HasCondition
<1> QED
  BY <1>2, <1>3

\* Lists with the conditions of a type in the same places have the same Get.
LEMMA SamePlaces ==
  ASSUME NEW a \in Seq(Condition), NEW b \in Seq(Condition), NEW t,
         {i \in 1..Len(a) : a[i].type = t} = {i \in 1..Len(b) : b[i].type = t}
  PROVE  Get(a, t) = Get(b, t)
BY DEF Get, SelectInSeq

\* Replacing the condition of one type keeps the list, and what other types say.
LEMMA ReplaceIs ==
  ASSUME NEW conds \in Seq(Condition), NEW t, HasCondition(conds, t),
         NEW c \in Condition, c.type = t
  PROVE  LET new == [conds EXCEPT ![Get(conds, t)] = c] IN
         /\ new \in Seq(Condition)
         /\ HasCondition(new, t) /\ StatusOf(new, t) = c.status
         /\ \A u : u # t => /\ HasCondition(new, u) <=> HasCondition(conds, u)
                            /\ StatusOf(new, u) = StatusOf(conds, u)
<1> DEFINE k == Get(conds, t)
           new == [conds EXCEPT ![k] = c]
<1>1. k \in 1..Len(conds) /\ conds[k].type = t /\ k # 0
  BY GetIs
<1> HIDE DEF k
<1>2. /\ new \in Seq(Condition) /\ Len(new) = Len(conds)
      /\ new[k] = c /\ \A i \in 1..Len(conds) : i # k => new[i] = conds[i]
  BY <1>1
<1> HIDE DEF new
<1>3. \A i \in 1..Len(conds) : new[i].type = conds[i].type
  BY <1>1, <1>2
<1>4. ASSUME NEW u PROVE Get(new, u) = Get(conds, u)
  <2>1. {i \in 1..Len(new) : new[i].type = u} = {i \in 1..Len(conds) : conds[i].type = u}
    BY <1>2, <1>3
  <2> QED
    BY <2>1, <1>2, SamePlaces
<1>5. HasCondition(new, t) /\ StatusOf(new, t) = c.status
  BY <1>1, <1>2, <1>4 DEF HasCondition, StatusOf, k
<1>6. ASSUME NEW u, u # t
      PROVE  (HasCondition(new, u) <=> HasCondition(conds, u)) /\ StatusOf(new, u) = StatusOf(conds, u)
  <2>1. CASE Get(conds, u) = 0
    BY <2>1, <1>4 DEF HasCondition, StatusOf
  <2>2. CASE Get(conds, u) # 0
    <3>1. Get(conds, u) \in 1..Len(conds) /\ Get(conds, u) # k
      BY <2>2, <1>1, <1>6, GetIs
    <3> QED
      BY <3>1, <2>2, <1>2, <1>4 DEF HasCondition, StatusOf
  <2> QED
    BY <2>1, <2>2
<1> QED
  BY <1>2, <1>5, <1>6 DEF new, k

\* A condition at the end says nothing of another type.
LEMMA AppendIs ==
  ASSUME NEW conds \in Seq(Condition), NEW c \in Condition
  PROVE  LET new == Append(conds, c) IN
         /\ new \in Seq(Condition)
         /\ \A u : u # c.type => /\ HasCondition(new, u) <=> HasCondition(conds, u)
                                 /\ StatusOf(new, u) = StatusOf(conds, u)
<1> DEFINE new == Append(conds, c)
<1>1. /\ new \in Seq(Condition) /\ Len(new) = Len(conds) + 1
      /\ new[Len(conds) + 1] = c /\ \A i \in 1..Len(conds) : new[i] = conds[i]
  OBVIOUS
<1> HIDE DEF new
<1>2. ASSUME NEW u, u # c.type PROVE Get(new, u) = Get(conds, u)
  <2>1. {i \in 1..Len(new) : new[i].type = u} = {i \in 1..Len(conds) : conds[i].type = u}
    BY <1>1, <1>2
  <2> QED
    BY <2>1, <1>1, SamePlaces
<1>3. ASSUME NEW u, u # c.type
      PROVE  (HasCondition(new, u) <=> HasCondition(conds, u)) /\ StatusOf(new, u) = StatusOf(conds, u)
  <2>1. Get(conds, u) # 0 => Get(conds, u) \in 1..Len(conds)
    BY GetIs
  <2> QED
    BY <2>1, <1>1, <1>2, <1>3 DEF HasCondition, StatusOf
<1> QED
  BY <1>1, <1>3 DEF new

\* Set tells the type of one condition only.
LEMMA SetIs ==
  ASSUME NEW conds \in Seq(Condition), NEW t \in ConditionTypes, NEW status \in Statuses
  PROVE  LET new == Set(conds, t, status, 0) IN
         /\ new \in Seq(Condition)
         /\ \A u : u # t => /\ HasCondition(new, u) <=> HasCondition(conds, u)
                            /\ StatusOf(new, u) = StatusOf(conds, u)
<1> DEFINE c == [type |-> t, status |-> status, time |-> 0]
           k == Get(conds, t)
           d == IF conds[k].status = c.status THEN conds[k] ELSE c
<1>1. c \in Condition /\ c.type = t
  BY DEF Condition
<1>2. CASE HasCondition(conds, t)
  <2>1. k \in 1..Len(conds) /\ conds[k].type = t
    BY <1>2, GetIs
  <2>2. Set(conds, t, status, 0) = [conds EXCEPT ![k] = d]
    BY <1>2 DEF Set
  <2>3. d \in Condition /\ d.type = t
    BY <2>1, <1>1
  <2> HIDE DEF d
  <2> QED
    BY <2>2, <2>3, <1>2, ReplaceIs DEF k
<1>3. CASE ~HasCondition(conds, t)
  <2>1. Set(conds, t, status, 0) = Append(conds, c)
    BY <1>3 DEF Set
  <2> HIDE DEF c
  <2> QED
    BY <2>1, <1>1, AppendIs
<1> QED
  BY <1>2, <1>3

\* The summary asks for the status of the required types and no more.
LEMMA SummaryIs ==
  ASSUME NEW a, NEW b, \A t \in Required : StatusOf(a, t) = StatusOf(b, t)
  PROVE  SummaryCondition(a, Required) = SummaryCondition(b, Required)
BY DEF SummaryCondition

\* The callbacks of CommonStateMachine write Ready where there is one.
LEMMA SetReadyStatusIs ==
  ASSUME NEW o \in Objects, NEW status \in Statuses
  PROVE  LET n == SetReadyStatus(o, status) IN
         /\ n \in Objects /\ n.phase = o.phase /\ n.hist = o.hist
         /\ HasCondition(n.conds, "Ready") => StatusOf(n.conds, "Ready") = status
         /\ \A u : u # "Ready" => StatusOf(n.conds, u) = StatusOf(o.conds, u)
<1>1. CASE ~HasCondition(o.conds, "Ready")
  BY <1>1 DEF SetReadyStatus
<1>2. CASE HasCondition(o.conds, "Ready")
  <2> DEFINE conds == o.conds
             k == Get(conds, "Ready")
             c == [conds[k] EXCEPT !.status = status]
             new == [conds EXCEPT ![k] = c]
  <2>1. conds \in Seq(Condition)
    BY DEF Objects
  <2>2. SetReadyStatus(o, status) = [o EXCEPT !.conds = new]
    BY <1>2 DEF SetReadyStatus
  <2> HIDE DEF conds
  <2>3. k \in 1..Len(conds) /\ conds[k].type = "Ready"
    BY <1>2, <2>1, GetIs DEF conds
  <2>4. conds[k] \in Condition
    BY <2>1, <2>3
  <2>5. c \in Condition /\ c.type = "Ready" /\ c.status = status
    BY <2>3, <2>4 DEF Condition
  <2> HIDE DEF c
  <2>6. /\ new \in Seq(Condition) /\ StatusOf(new, "Ready") = status
        /\ \A u : u # "Ready" => StatusOf(new, u) = StatusOf(conds, u)
    BY <1>2, <2>1, <2>5, ReplaceIs DEF conds
  <2> HIDE DEF new
  <2>7. /\ SetReadyStatus(o, status) \in Objects
        /\ SetReadyStatus(o, status).conds = new
        /\ SetReadyStatus(o, status).phase = o.phase
        /\ SetReadyStatus(o, status).hist = o.hist
    BY <2>2, <2>6 DEF Objects
  <2> QED
    BY <2>6, <2>7 DEF conds
<1> QED
  BY <1>1, <1>2

\* A history keeps its bound, and its newest entry is the one just recorded.
LEMMA RecordIs ==
  ASSUME NEW hist \in Seq(Entries), Len(hist) <= MaxHistory, NEW from \in Phases, NEW to \in Phases
  PROVE  LET new == Record(hist, from, to) IN
         /\ new \in Seq(Entries) /\ Len(new) <= MaxHistory
         /\ new # <<>> /\ Last(new) = [from |-> from, to |-> to]
<1> DEFINE e == [from |-> from, to |-> to]
           kept == IF Len(hist) >= MaxHistory THEN Tail(hist) ELSE hist
<1>1. e \in Entries
  BY DEF Entries
<1>2. MaxHistory \in Nat \ {0}
  BY BoundsAssumption
<1>3. kept \in Seq(Entries) /\ Len(kept) + 1 <= MaxHistory
  <2>1. CASE Len(hist) >= MaxHistory
    BY <2>1, <1>2
  <2>2. CASE ~(Len(hist) >= MaxHistory)
    BY <2>2, <1>2
  <2> QED
    BY <2>1, <2>2
<1> HIDE DEF kept, e
<1>4. LET new == Append(kept, e) IN
      /\ new \in Seq(Entries) /\ Len(new) = Len(kept) + 1 /\ new[Len(kept) + 1] = e /\ new # <<>>
  BY <1>1, <1>3
<1>5. Record(hist, from, to) = Append(kept, e)
  BY DEF Record, kept, e
<1> QED
  BY <1>3, <1>4, <1>5 DEF Last, e

-----------------------------------------------------------------------------
(***************************************************************************)
(* The builder: what is there stays, and what comes is added behind it.    *)
(***************************************************************************)
Rules(some) == [guarded : BOOLEAN, hook : Seq(some)]

\* The first rule is the one it was, and records what it recorded.
FirstStays(old, new) ==
  old # <<>> =>
    /\ new # <<>>
    /\ new[1].guarded = old[1].guarded
    /\ Contains(old[1].hook, "record") => Contains(new[1].hook, "record")

Grown(m, n, some, entered) ==
  /\ n \in MachinesOf(some)
  /\ n.initial = m.initial
  /\ \A pair \in Phases \X Phases : FirstStays(m.transitions[pair], n.transitions[pair])
  /\ \A p \in Phases : \/ n.onEnter[p] = m.onEnter[p]
                       \/ \E fn \in entered : n.onEnter[p] = Append(m.onEnter[p], fn)

\* The parts of a machine.
LEMMA MachineIs ==
  ASSUME NEW some, NEW m \in MachinesOf(some)
  PROVE  /\ m.initial \in Phases /\ m.phases \in SUBSET Phases
         /\ m.transitions \in [Phases \X Phases -> Seq(Rules(some))]
         /\ m.onEnter \in [Phases -> Seq(Callbacks)] /\ m.onExit \in [Phases -> Seq(some)]
BY DEF MachinesOf, Rules

\* A rule behind the others leaves the first where it is.
LEMMA AppendedRule ==
  ASSUME NEW some, NEW rules \in Seq(Rules(some)), NEW rule \in Rules(some)
  PROVE  /\ Append(rules, rule) \in Seq(Rules(some)) /\ Append(rules, rule) # <<>>
         /\ FirstStays(rules, Append(rules, rule))
BY DEF FirstStays

\* A machine with other transitions and phases.
With(m, transitions, phases) == [m EXCEPT !.transitions = transitions, !.phases = phases]

\* The first rules stay.
LEMMA WithGrows ==
  ASSUME NEW some, NEW m \in MachinesOf(some), NEW phases \in SUBSET Phases,
         NEW transitions \in [Phases \X Phases -> Seq(Rules(some))],
         \A pair \in Phases \X Phases : FirstStays(m.transitions[pair], transitions[pair])
  PROVE  Grown(m, With(m, transitions, phases), some, {})
<1> DEFINE n == With(m, transitions, phases)
<1>1. n = [m EXCEPT !.transitions = transitions, !.phases = phases]
  BY DEF With
<1> HIDE DEF n
<1>2. n = [initial |-> m.initial, phases |-> phases, transitions |-> transitions,
           onEnter |-> m.onEnter, onExit |-> m.onExit]
  BY <1>1 DEF MachinesOf
<1>3. n \in MachinesOf(some)
  BY <1>2, MachineIs DEF MachinesOf, Rules
<1>4. n.initial = m.initial /\ n.transitions = transitions /\ n.onEnter = m.onEnter
  BY <1>2
<1>5. Grown(m, n, some, {})
  BY <1>3, <1>4 DEF Grown
<1> QED
  BY <1>5 DEF n

\* Add appends a rule of a pair.
LEMMA AddGrows ==
  ASSUME NEW some, NEW m \in MachinesOf(some), NEW from \in Phases, NEW to \in Phases,
         NEW rule \in Rules(some)
  PROVE  Grown(m, Add(m, from, to, rule), some, {})
<1> DEFINE old == m.transitions
           new == [old EXCEPT ![<<from, to>>] = Append(old[<<from, to>>], rule)]
           phases == m.phases \cup {from, to}
<1>1. old \in [Phases \X Phases -> Seq(Rules(some))] /\ phases \in SUBSET Phases
  BY MachineIs
<1>2. Add(m, from, to, rule) = With(m, new, phases)
  BY DEF Add, With
<1> HIDE DEF old, phases
<1>3. old[<<from, to>>] \in Seq(Rules(some))
  BY <1>1
<1>4. new \in [Phases \X Phases -> Seq(Rules(some))]
  BY <1>1, <1>3, AppendedRule
<1>5. ASSUME NEW pair \in Phases \X Phases PROVE FirstStays(old[pair], new[pair])
  <2>1. CASE pair = <<from, to>>
    BY <2>1, <1>1, <1>3, AppendedRule
  <2>2. CASE pair # <<from, to>>
    BY <2>2, <1>1 DEF FirstStays
  <2> QED
    BY <2>1, <2>2
<1> HIDE DEF new
<1> QED
  BY <1>1, <1>2, <1>4, <1>5, WithGrows DEF old

\* Allow and AllowWithGuard are such.
LEMMA PlainRules ==
  ASSUME NEW some
  PROVE  Rule(FALSE, <<>>) \in Rules(some) /\ Rule(TRUE, <<>>) \in Rules(some)
BY DEF Rule, Rules

\* AllowAny appends a rule to every pair that ends in the phase.
LEMMA AllowAnyGrows ==
  ASSUME NEW some, NEW m \in MachinesOf(some), NEW t \in Phases
  PROVE  Grown(m, AllowAny(m, t), some, {})
<1> DEFINE old == m.transitions
           phases == m.phases \cup {t}
           rule == Rule(FALSE, <<>>)
           At(pair) == IF pair[1] \in m.phases \ {t} /\ pair[2] = t
                       THEN Append(old[pair], rule) ELSE old[pair]
           new == [pair \in DOMAIN old |-> At(pair)]
<1>1. old \in [Phases \X Phases -> Seq(Rules(some))] /\ phases \in SUBSET Phases
  BY MachineIs
<1>2. AllowAny(m, t) = With(m, new, phases)
  BY DEF AllowAny, With
<1>3. rule \in Rules(some)
  BY PlainRules
<1> HIDE DEF old, phases, rule
<1>4. ASSUME NEW pair \in Phases \X Phases
      PROVE  At(pair) \in Seq(Rules(some)) /\ FirstStays(old[pair], At(pair))
  <2>1. old[pair] \in Seq(Rules(some))
    BY <1>1
  <2>2. FirstStays(old[pair], old[pair])
    BY DEF FirstStays
  <2> QED
    BY <2>1, <2>2, <1>3, AppendedRule
<1> HIDE DEF At
<1>5. /\ new \in [Phases \X Phases -> Seq(Rules(some))]
      /\ \A pair \in Phases \X Phases : new[pair] = At(pair)
  BY <1>1, <1>4
<1> HIDE DEF new
<1>6. \A pair \in Phases \X Phases : FirstStays(m.transitions[pair], new[pair])
  BY <1>4, <1>5 DEF old
<1> QED
  BY <1>1, <1>2, <1>5, <1>6, WithGrows

\* OnEnter appends to the enter callbacks of a phase, OnExit touches none of them.
LEMMA OnEnterGrows ==
  ASSUME NEW some, NEW m \in MachinesOf(some), NEW p \in Phases, NEW fn \in Callbacks
  PROVE  Grown(m, OnEnter(m, p, fn), some, {fn})
<1> DEFINE old == m.onEnter
           new == [old EXCEPT ![p] = Append(old[p], fn)]
           phases == m.phases \cup {p}
           n == OnEnter(m, p, fn)
<1>1. old \in [Phases -> Seq(Callbacks)] /\ phases \in SUBSET Phases
  BY MachineIs
<1>2. n = [m EXCEPT !.onEnter = new, !.phases = phases]
  BY DEF OnEnter
<1> HIDE DEF old, phases
<1>3. old[p] \in Seq(Callbacks)
  BY <1>1
<1>4. /\ new \in [Phases -> Seq(Callbacks)]
      /\ \A q \in Phases : new[q] = old[q] \/ new[q] = Append(old[q], fn)
  BY <1>1, <1>3
<1> HIDE DEF new
<1>5. n = [initial |-> m.initial, phases |-> phases, transitions |-> m.transitions,
           onEnter |-> new, onExit |-> m.onExit]
  BY <1>2 DEF MachinesOf
<1>6. n \in MachinesOf(some)
  BY <1>1, <1>4, <1>5, MachineIs DEF MachinesOf, Rules
<1> HIDE DEF n
<1>7. \A pair \in Phases \X Phases : FirstStays(m.transitions[pair], n.transitions[pair])
  BY <1>5 DEF FirstStays
<1>8. \A q \in Phases : n.onEnter[q] = m.onEnter[q] \/ n.onEnter[q] = Append(m.onEnter[q], fn)
  BY <1>4, <1>5 DEF old
<1> QED
  BY <1>5, <1>6, <1>7, <1>8 DEF Grown, n

LEMMA OnExitGrows ==
  ASSUME NEW some, NEW m \in MachinesOf(some), NEW p \in Phases, NEW fn \in some
  PROVE  Grown(m, OnExit(m, p, fn), some, {})
<1> DEFINE old == m.onExit
           new == [old EXCEPT ![p] = Append(old[p], fn)]
           phases == m.phases \cup {p}
           n == OnExit(m, p, fn)
<1>1. old \in [Phases -> Seq(some)] /\ phases \in SUBSET Phases
  BY MachineIs
<1>2. n = [m EXCEPT !.onExit = new, !.phases = phases]
  BY DEF OnExit
<1> HIDE DEF old, phases
<1>3. old[p] \in Seq(some)
  BY <1>1
<1>4. new \in [Phases -> Seq(some)]
  BY <1>1, <1>3
<1> HIDE DEF new
<1>5. n = [initial |-> m.initial, phases |-> phases, transitions |-> m.transitions,
           onEnter |-> m.onEnter, onExit |-> new]
  BY <1>2 DEF MachinesOf
<1>6. n \in MachinesOf(some)
  BY <1>1, <1>4, <1>5, MachineIs DEF MachinesOf, Rules
<1> HIDE DEF n
<1>7. \A pair \in Phases \X Phases : FirstStays(m.transitions[pair], n.transitions[pair])
  BY <1>5 DEF FirstStays
<1> QED
  BY <1>5, <1>6, <1>7 DEF Grown, n

\* OnTransition appends to the hook of the first rule, or adds a rule of its own.
LEMMA OnTransitionGrows ==
  ASSUME NEW some, NEW m \in MachinesOf(some), NEW from \in Phases, NEW to \in Phases,
         NEW fn \in some
  PROVE  Grown(m, OnTransition(m, from, to, fn), some, {})
<1> DEFINE pair == <<from, to>>
           old == m.transitions
<1>1. /\ old \in [Phases \X Phases -> Seq(Rules(some))] /\ pair \in Phases \X Phases
      /\ old[pair] \in Seq(Rules(some)) /\ m.phases \in SUBSET Phases
  BY MachineIs
<1>2. CASE old[pair] = <<>>
  <2> DEFINE rule == Rule(FALSE, <<fn>>)
  <2>1. <<fn>> \in Seq(some)
    OBVIOUS
  <2>2. rule \in Rules(some)
    BY <2>1 DEF Rule, Rules
  <2>3. OnTransition(m, from, to, fn) = Add(m, from, to, rule)
    BY <1>2 DEF OnTransition
  <2> HIDE DEF rule
  <2> QED
    BY <2>2, <2>3, AddGrows
<1>3. CASE old[pair] # <<>>
  <2> DEFINE first == old[pair][1]
             hook == Append(first.hook, fn)
             rule == [first EXCEPT !.hook = hook]
             rules == [old[pair] EXCEPT ![1] = rule]
             new == [old EXCEPT ![pair] = rules]
             n == With(m, new, m.phases)
  <2>1. first \in Rules(some)
    BY <1>1, <1>3
  <2>2. OnTransition(m, from, to, fn) = [m EXCEPT !.transitions = new]
    BY <1>3 DEF OnTransition
  <2>3. [m EXCEPT !.transitions = new] = n
    <3> HIDE DEF new
    <3> QED
      BY DEF MachinesOf, With
  <2> HIDE DEF first
  <2>4. first.hook \in Seq(some)
    BY <2>1 DEF Rules
  <2>5. hook \in Seq(some) /\ (Contains(first.hook, "record") => Contains(hook, "record"))
    BY <2>4 DEF Contains
  <2> HIDE DEF hook
  <2>6. rule \in Rules(some) /\ rule.guarded = first.guarded /\ rule.hook = hook
    BY <2>1, <2>5 DEF Rules
  <2> HIDE DEF rule
  <2>7. rules \in Seq(Rules(some)) /\ rules # <<>> /\ rules[1] = rule
    BY <1>1, <1>3, <2>6
  <2> HIDE DEF rules
  <2>8. FirstStays(old[pair], rules)
    BY <2>5, <2>6, <2>7 DEF FirstStays, first
  <2>9. new \in [Phases \X Phases -> Seq(Rules(some))]
    BY <1>1, <2>7
  <2>10. ASSUME NEW q \in Phases \X Phases PROVE FirstStays(old[q], new[q])
    BY <1>1, <2>8 DEF FirstStays
  <2> HIDE DEF new
  <2>11. Grown(m, n, some, {})
    BY <1>1, <2>9, <2>10, WithGrows
  <2> QED
    BY <2>2, <2>3, <2>11
<1> QED
  BY <1>2, <1>3

\* A late call grows the machine; its callback is among some where they matter.
LEMMA ApplyGrows ==
  ASSUME NEW some, NEW m \in MachinesOf(some), NEW c \in LateCalls,
         c.op \in {"OnExit", "OnTransition"} => c.fn \in some
  PROVE  Grown(m, Apply(m, c), some, IF c.op = "OnEnter" THEN {c.fn} ELSE {})
<1>1. /\ c.op \in Operations /\ c.from \in Phases /\ c.to \in Phases /\ c.fn \in Callbacks
  BY LateCallsAssumption
<1>2. CASE c.op = "Allow"
  BY <1>1, <1>2, AddGrows, PlainRules DEF Apply, Allow
<1>3. CASE c.op = "AllowWithGuard"
  BY <1>1, <1>3, AddGrows, PlainRules DEF Apply, AllowWithGuard
<1>4. CASE c.op = "AllowAny"
  BY <1>1, <1>4, AllowAnyGrows DEF Apply
<1>5. CASE c.op = "OnEnter"
  BY <1>1, <1>5, OnEnterGrows DEF Apply
<1>6. CASE c.op = "OnExit"
  BY <1>1, <1>6, OnExitGrows DEF Apply
<1>7. CASE c.op = "OnTransition"
  BY <1>1, <1>7, OnTransitionGrows DEF Apply
<1> QED
  BY <1>1, <1>2, <1>3, <1>4, <1>5, <1>6, <1>7 DEF Operations

-----------------------------------------------------------------------------
(***************************************************************************)
(* What one worker's step does to its object o and its stack s, under the  *)
(* machine m.                                                              *)
(***************************************************************************)
AcceptedIn(m, o, to) ==
  LET rules == m.transitions[<<PhaseIn(m, o), to>>] IN
  /\ rules # <<>>
  /\ rules[1].guarded => SummaryCondition(o.conds, Required) = "True"

FrameOf(m, o, to) ==
  [from |-> PhaseIn(m, o), to |-> to, stage |-> "matched", left |-> <<>>,
   hook |-> m.transitions[<<PhaseIn(m, o), to>>][1].hook]

\* The innermost frame, alone, goes on to a stage and to what is left of it.
Reframes(s, t, stage, left) ==
  /\ s # <<>> /\ t \in Seq(Frames) /\ Len(t) = Len(s)
  /\ \A i \in 1..Len(s) : i # Len(s) => t[i] = s[i]
  /\ Inner(t).from = Inner(s).from /\ Inner(t).to = Inner(s).to
  /\ Inner(t).hook = Inner(s).hook
  /\ Inner(t).stage = stage /\ Inner(t).left = left

Pops(s, t) ==
  /\ s # <<>> /\ Inner(s).left # <<>>
  /\ Reframes(s, t, Inner(s).stage, Tail(Inner(s).left))

\* A call begins, of the worker or of the callback that was next.
Calls(m, o, s, n, t) ==
  /\ n = o
  /\ \E to \in Phases : \E base \in Seq(Frames) :
       /\ AcceptedIn(m, o, to)
       /\ \/ s = <<>> /\ base = <<>>
          \/ Pops(s, base) /\ Inner(s).left[1] \in Phases
       /\ t = Append(base, FrameOf(m, o, to))

Runs(s, o, n, t) ==
  Pops(s, t) /\ n = Effect(o, Inner(s).left[1], Inner(s))

Exits(m, o, s, n, t) ==
  n = o /\ s # <<>> /\ Inner(s).stage = "matched"
  /\ Reframes(s, t, "exit", m.onExit[Inner(s).from])

Hooks(m, o, s, n, t) ==
  n = o /\ s # <<>> /\ Inner(s).stage = "exit"
  /\ \E hook \in {Inner(s).hook, RulesOf(m, Inner(s))[1].hook} : Reframes(s, t, "hook", hook)

Enters(m, o, s, n, t) ==
  /\ s # <<>> /\ Inner(s).stage = "hook" /\ Inner(s).left = <<>>
  /\ n = [o EXCEPT !.phase = Inner(s).to]
  /\ Reframes(s, t, "enter", m.onEnter[Inner(s).to])

Returns(o, s, n, t) ==
  /\ n = o /\ s # <<>> /\ Inner(s).stage = "enter" /\ Inner(s).left = <<>>
  /\ t \in Seq(Frames) /\ Len(t) = Len(s) - 1 /\ \A i \in 1..Len(t) : t[i] = s[i]

\* Between calls the object changes otherwise.
Rests(m, o, s, n, t) ==
  /\ s = <<>> /\ t = <<>>
  /\ \/ o.phase = "" /\ n = [o EXCEPT !.phase = m.initial]
     \/ \E type \in Required, status \in Statuses :
          n = [o EXCEPT !.conds = Set(o.conds, type, status, 0)]
     \/ n = [o EXCEPT !.hist = <<>>]
     \/ n \in NewObjects

LocalStep(m, o, s, n, t) ==
  \/ Calls(m, o, s, n, t)
  \/ Runs(s, o, n, t)
  \/ Exits(m, o, s, n, t)
  \/ Hooks(m, o, s, n, t)
  \/ Enters(m, o, s, n, t)
  \/ Returns(o, s, n, t)
  \/ Rests(m, o, s, n, t)

\* The innermost frame and what is under it.
LEMMA InnerIs ==
  ASSUME NEW s \in Seq(Frames), s # <<>>
  PROVE  /\ Len(s) \in Nat \ {0} /\ Inner(s) \in Frames /\ Last(s) = Inner(s)
         /\ Front(s) \in Seq(Frames) /\ Len(Front(s)) = Len(s) - 1
         /\ \A i \in 1..(Len(s) - 1) : Front(s)[i] = s[i]
<1>1. Len(s) \in Nat \ {0} /\ Inner(s) \in Frames /\ Last(s) = Inner(s)
  BY DEF Inner, Last
<1> HIDE DEF Frames
<1>2. /\ Front(s) \in Seq(Frames) /\ Len(Front(s)) = Len(s) - 1
      /\ \A i \in 1..(Len(s) - 1) : Front(s)[i] = s[i]
  <2> DEFINE k == Len(s) - 1
  <2>1. k \in 0..Len(s) /\ Front(s) = SubSeq(s, 1, k)
    BY <1>1 DEF Front
  <2> HIDE DEF k
  <2>2. /\ SubSeq(s, 1, k) \in Seq(Frames) /\ Len(SubSeq(s, 1, k)) = k
        /\ \A i \in 1..k : SubSeq(s, 1, k)[i] = s[i]
    <3>1. \A i \in 1..k : i \in 1..Len(s) /\ s[i] \in Frames
      BY <2>1
    <3>2. /\ SubSeq(s, 1, k) \in Seq(Frames)
          /\ Len(SubSeq(s, 1, k)) = IF 1 <= k THEN k - 1 + 1 ELSE 0
          /\ \A i \in 1..(k - 1 + 1) : SubSeq(s, 1, k)[i] = s[1 + i - 1]
      BY <2>1, <3>1, SubSeqProperties
    <3> QED
      BY <2>1, <3>2
  <2> QED
    BY <2>1, <2>2 DEF k
<1> QED
  BY <1>1, <1>2

\* A frame put in place of the innermost.
LEMMA ReplacedIs ==
  ASSUME NEW s \in Seq(Frames), s # <<>>, NEW g \in Frames,
         g.from = Inner(s).from, g.to = Inner(s).to, g.hook = Inner(s).hook
  PROVE  Reframes(s, Append(Front(s), g), g.stage, g.left)
<1> DEFINE front == Front(s)
           t == Append(front, g)
<1>1. /\ Len(s) \in Nat \ {0} /\ front \in Seq(Frames) /\ Len(front) = Len(s) - 1
      /\ \A i \in 1..(Len(s) - 1) : front[i] = s[i]
  BY InnerIs
<1> HIDE DEF front
<1>2. /\ t \in Seq(Frames) /\ Len(t) = Len(s) /\ t[Len(s)] = g
      /\ \A i \in 1..Len(s) : i # Len(s) => t[i] = s[i]
  BY <1>1
<1> HIDE DEF t
<1>3. Reframes(s, t, g.stage, g.left)
  BY <1>2 DEF Reframes, Inner
<1> QED
  BY <1>3 DEF t, front

LEMMA ReframedIs ==
  ASSUME NEW s \in Seq(Frames), s # <<>>, NEW stage \in Stages, NEW left \in Seq(Callbacks)
  PROVE  Reframes(s, Append(Front(s), [Inner(s) EXCEPT !.stage = stage, !.left = left]), stage, left)
<1> DEFINE f == Inner(s)
           g == [f EXCEPT !.stage = stage, !.left = left]
<1>1. f \in Frames
  BY InnerIs
<1> HIDE DEF f
<1>2. g = [from |-> f.from, to |-> f.to, stage |-> stage, left |-> left, hook |-> f.hook]
  <2>1. g = [f EXCEPT !.stage = stage, !.left = left]
    OBVIOUS
  <2> HIDE DEF g
  <2> QED
    BY <2>1, <1>1 DEF Frames
<1>3. g \in Frames
  BY <1>1, <1>2 DEF Frames
<1>4. g.from = f.from /\ g.to = f.to /\ g.hook = f.hook /\ g.stage = stage /\ g.left = left
  BY <1>2
<1> HIDE DEF g
<1>5. Reframes(s, Append(Front(s), g), stage, left)
  BY <1>3, <1>4, ReplacedIs DEF f
<1> QED
  BY <1>5 DEF g, f

LEMMA PoppedIs ==
  ASSUME NEW s \in Seq(Frames), s # <<>>, Inner(s).left # <<>>
  PROVE  /\ Pops(s, Append(Front(s), [Inner(s) EXCEPT !.left = Tail(@)]))
         /\ Inner(s).left[1] = Head(Inner(s).left) /\ Inner(s).left[1] \in Callbacks
<1> DEFINE f == Inner(s)
           left == Tail(f.left)
           g == [f EXCEPT !.left = left]
<1>1. f \in Frames
  BY InnerIs
<1> HIDE DEF f
<1>2. f.left \in Seq(Callbacks) /\ f.left # <<>>
  BY <1>1 DEF Frames, f
<1>3. left \in Seq(Callbacks) /\ f.left[1] = Head(f.left) /\ f.left[1] \in Callbacks
  <2> HIDE DEF Callbacks
  <2> QED
    BY <1>2
<1> HIDE DEF left
<1>4. g = [from |-> f.from, to |-> f.to, stage |-> f.stage, left |-> left, hook |-> f.hook]
  <2>1. g = [f EXCEPT !.left = left]
    OBVIOUS
  <2> HIDE DEF g
  <2> QED
    BY <2>1, <1>1 DEF Frames
<1>5. g \in Frames
  BY <1>1, <1>3, <1>4 DEF Frames
<1>6. g.from = f.from /\ g.to = f.to /\ g.hook = f.hook /\ g.stage = f.stage /\ g.left = left
  BY <1>4
<1> HIDE DEF g
<1>7. Reframes(s, Append(Front(s), g), f.stage, left)
  BY <1>5, <1>6, ReplacedIs DEF f
<1>8. Pops(s, Append(Front(s), g))
  BY <1>2, <1>7 DEF Pops, f, left
<1> QED
  BY <1>3, <1>8 DEF g, left, f

-----------------------------------------------------------------------------
(***************************************************************************)
(* Every action of a worker is one of these steps.                         *)
(***************************************************************************)
\* What a callback does to the object.
LEMMA EffectIs ==
  ASSUME NEW o \in Objects, Len(o.hist) <= MaxHistory, NEW fn \in Callbacks, NEW f \in Frames
  PROVE  LET n == Effect(o, fn, f) IN
         /\ n \in Objects /\ Len(n.hist) <= MaxHistory /\ n.phase = o.phase
         /\ \A u : u # "Ready" => StatusOf(n.conds, u) = StatusOf(o.conds, u)
         /\ fn \notin Signals => n.conds = o.conds
         /\ fn = "ready" /\ HasCondition(n.conds, "Ready") => StatusOf(n.conds, "Ready") = "True"
         /\ fn = "notready" /\ HasCondition(n.conds, "Ready") => StatusOf(n.conds, "Ready") = "False"
         /\ IF fn = "record" THEN Noted(n, f) ELSE n.hist = o.hist
<1>0. fn \in Plain \/ (fn \in Phases /\ fn \notin Plain)
  BY DEF Callbacks
<1>1. CASE fn = "ready"
  <2>1. Effect(o, fn, f) = SetReadyStatus(o, "True")
    BY <1>1, PhasesAssumption DEF Effect, Plain
  <2> QED
    BY <1>1, <2>1, SetReadyStatusIs DEF Statuses, Signals
<1>2. CASE fn = "notready"
  <2>1. Effect(o, fn, f) = SetReadyStatus(o, "False")
    BY <1>2, PhasesAssumption DEF Effect, Plain
  <2> QED
    BY <1>2, <2>1, SetReadyStatusIs DEF Statuses, Signals
<1>3. CASE fn = "record"
  <2> DEFINE hist == Record(o.hist, f.from, f.to)
             n == [o EXCEPT !.hist = hist]
  <2>1. Effect(o, fn, f) = n
    BY <1>3, PhasesAssumption DEF Effect, Plain
  <2>2. o.hist \in Seq(Entries) /\ f.from \in Phases /\ f.to \in Phases
    BY DEF Objects, Frames
  <2>3. /\ hist \in Seq(Entries) /\ Len(hist) <= MaxHistory
        /\ hist # <<>> /\ Last(hist) = [from |-> f.from, to |-> f.to]
    BY <2>2, RecordIs
  <2> HIDE DEF hist
  <2>4. n = [phase |-> o.phase, conds |-> o.conds, hist |-> hist]
    <3>1. n = [o EXCEPT !.hist = hist]
      OBVIOUS
    <3> HIDE DEF n
    <3> QED
      BY <3>1 DEF Objects
  <2>5. n \in Objects
    BY <2>3, <2>4 DEF Objects
  <2> HIDE DEF n
  <2> QED
    BY <1>3, <2>1, <2>3, <2>4, <2>5 DEF Noted, Signals
<1>4. CASE fn \in Phases /\ fn \notin Plain
  <2>1. Effect(o, fn, f) = o
    BY <1>4 DEF Effect, Plain
  <2> QED
    BY <1>4, <2>1 DEF Plain, Signals
<1> QED
  BY <1>0, <1>1, <1>2, <1>3, <1>4 DEF Plain

\* The phase of an object is one of the phases.
LEMMA PhaseIs ==
  ASSUME NEW some, NEW m \in MachinesOf(some), NEW o \in Objects
  PROVE  PhaseIn(m, o) \in Phases
BY MachineIs DEF PhaseIn, Objects

\* The frame of a call is one.
LEMMA FrameIs ==
  ASSUME NEW some \in SUBSET Callbacks, NEW m \in MachinesOf(some), NEW o \in Objects,
         NEW to \in Phases, AcceptedIn(m, o, to)
  PROVE  /\ FrameOf(m, o, to) \in Frames /\ FrameOf(m, o, to).hook \in Seq(some)
         /\ RulesOf(m, FrameOf(m, o, to)) # <<>>
<1> DEFINE rules == m.transitions[<<PhaseIn(m, o), to>>]
<1>1. PhaseIn(m, o) \in Phases
  BY PhaseIs
<1>2. rules \in Seq(Rules(some)) /\ rules # <<>>
  BY <1>1, MachineIs DEF AcceptedIn
<1> HIDE DEF rules
<1>3. rules[1] \in Rules(some)
  BY <1>2
<1>4. rules[1].hook \in Seq(some)
  BY <1>3 DEF Rules
<1>5. rules[1].hook \in Seq(Callbacks)
  BY <1>4
<1>6. <<>> \in Seq(Callbacks)
  OBVIOUS
<1>7. FrameOf(m, o, to) \in Frames
  BY <1>1, <1>5, <1>6 DEF FrameOf, Frames, Stages, rules
<1> QED
  BY <1>2, <1>4, <1>7 DEF FrameOf, RulesOf, rules

\* The queries of the model, of this machine.
LEMMA QueriesAre ==
  ASSUME NEW o, NEW to
  PROVE  /\ CurrentPhase(o) = PhaseIn(sm, o)
         /\ Accepted(o, to) => AcceptedIn(sm, o, to)
         /\ Frame(CurrentPhase(o), to) = FrameOf(sm, o, to)
BY DEF CurrentPhase, PhaseIn, Accepted, CanTransition, GuardHolds, AcceptedIn, Frame, FrameOf

WorkerStep(w) ==
  \/ \E to \in Phases : Transition(w, to)
  \/ RunCallback(w)
  \/ Advance(w)
  \/ Initialize(w)
  \/ \E t \in Required, status \in Statuses : Write(w, t, status)
  \/ Clear(w)
  \/ NextObject(w)

\* A step of one worker leaves the machine and the others alone.
Alone(w) ==
  /\ sm' = sm /\ late' = late
  /\ obj' = [obj EXCEPT ![w] = obj'[w]]
  /\ stack' = [stack EXCEPT ![w] = stack'[w]]

Local(w) == Alone(w) /\ LocalStep(sm, obj[w], stack[w], obj'[w], stack'[w])

LEMMA TransitionIsLocal ==
  ASSUME Typed, NEW w \in Workers, NEW to \in Phases, Transition(w, to)
  PROVE  Local(w)
<1> DEFINE g == FrameOf(sm, obj[w], to)
<1>1. /\ obj[w] \in Objects /\ stack[w] = <<>> /\ AcceptedIn(sm, obj[w], to)
      /\ sm \in MachinesOf(Callbacks)
  BY QueriesAre DEF Transition, Idle, Typed
<1>2. stack' = [stack EXCEPT ![w] = <<g>>] /\ UNCHANGED <<sm, late, obj>>
  BY QueriesAre DEF Transition
<1>3. Alone(w) /\ stack'[w] = <<g>> /\ obj'[w] = obj[w]
  BY <1>2 DEF Alone, Typed
<1> HIDE DEF g
<1>4. <<g>> = Append(<<>>, g) /\ <<>> \in Seq(Frames)
  OBVIOUS
<1>5. Calls(sm, obj[w], stack[w], obj'[w], stack'[w])
  BY <1>1, <1>3, <1>4 DEF Calls, g
<1> QED
  BY <1>3, <1>5 DEF Local, LocalStep

LEMMA RunCallbackIsLocal ==
  ASSUME Typed, NEW w \in Workers, RunCallback(w)
  PROVE  Local(w)
<1> DEFINE s == stack[w]
           o == obj[w]
           f == Inner(s)
           fn == f.left[1]
           popped == Append(Front(s), [f EXCEPT !.left = Tail(@)])
           g == FrameOf(sm, o, fn)
<1>1. s \in Seq(Frames) /\ s # <<>> /\ Top(w) = f /\ f.left # <<>>
  <2>1. s \in Seq(Frames) /\ s # <<>> /\ Top(w).left # <<>> /\ Top(w) = Last(s)
    BY DEF Typed, RunCallback, Idle, Top
  <2> QED
    BY <2>1, InnerIs
<1>2. Pops(s, popped) /\ Head(f.left) = fn /\ fn \in Callbacks
  BY <1>1, PoppedIs
<1>3. /\ \/ /\ fn \in Phases /\ Accepted(o, fn)
            /\ stack' = [stack EXCEPT ![w] = Append(popped, Frame(CurrentPhase(o), fn))]
         \/ stack' = [stack EXCEPT ![w] = popped]
      /\ obj' = [obj EXCEPT ![w] = Effect(o, fn, f)]
      /\ UNCHANGED <<sm, late>>
  BY <1>1, <1>2 DEF RunCallback, WithTop
<1>4. popped \in Seq(Frames)
  BY <1>2 DEF Pops, Reframes
<1> HIDE DEF popped, f
<1>5. obj'[w] = Effect(o, fn, f)
  BY <1>3 DEF Typed
<1>6. CASE /\ fn \in Phases /\ Accepted(o, fn)
           /\ stack' = [stack EXCEPT ![w] = Append(popped, Frame(CurrentPhase(o), fn))]
  <2>1. stack'[w] = Append(popped, g) /\ AcceptedIn(sm, o, fn)
    BY <1>6, QueriesAre DEF Typed
  <2>2. Alone(w)
    BY <1>3, <1>5, <1>6 DEF Alone, Typed
  <2>3. Effect(o, fn, f) = o
    BY <1>6, PhasesAssumption DEF Effect, Plain
  <2>4. Calls(sm, o, s, obj'[w], stack'[w])
    BY <1>2, <1>4, <1>5, <1>6, <2>1, <2>3 DEF Calls, f
  <2> QED
    BY <2>2, <2>4 DEF Local, LocalStep
<1>7. CASE stack' = [stack EXCEPT ![w] = popped]
  <2>1. stack'[w] = popped
    BY <1>7 DEF Typed
  <2>2. Alone(w)
    BY <1>3, <1>5, <1>7, <2>1 DEF Alone
  <2>3. Runs(s, o, obj'[w], stack'[w])
    BY <1>2, <1>5, <2>1 DEF Runs, f
  <2> QED
    BY <2>2, <2>3 DEF Local, LocalStep
<1> QED
  BY <1>3, <1>6, <1>7

LEMMA AdvanceIsLocal ==
  ASSUME Typed, NEW w \in Workers, Advance(w)
  PROVE  Local(w)
<1> DEFINE s == stack[w]
           o == obj[w]
           f == Inner(s)
           rules == RulesOf(sm, f)
           Moved(stage, left) == Append(Front(s), [f EXCEPT !.stage = stage, !.left = left])
<1>1. s \in Seq(Frames) /\ s # <<>> /\ Top(w) = f /\ f.left = <<>> /\ f \in Frames
  <2>1. s \in Seq(Frames) /\ s # <<>> /\ Top(w).left = <<>> /\ Top(w) = Last(s)
    BY DEF Typed, Advance, Idle, Top
  <2> QED
    BY <2>1, InnerIs
<1>2. /\ f.from \in Phases /\ f.to \in Phases /\ f.hook \in Seq(Callbacks)
      /\ sm \in MachinesOf(Callbacks)
  BY <1>1 DEF Typed, Frames
<1>3. Len(s) \in Nat \ {0} /\ rules # <<>>
  BY <1>1, InnerIs DEF Typed, Bounded, Inner
<1>4. rules \in Seq(Rules(Callbacks))
  BY <1>2, MachineIs DEF RulesOf
<1>5. /\ sm.onExit[f.from] \in Seq(Callbacks) /\ sm.onEnter[f.to] \in Seq(Callbacks)
      /\ rules[1].hook \in Seq(Callbacks)
  <2>1. rules[1] \in Rules(Callbacks)
    BY <1>3, <1>4
  <2> QED
    BY <1>2, <2>1, MachineIs DEF Rules
<1>6. ASSUME NEW stage \in Stages, NEW left \in Seq(Callbacks)
      PROVE  Reframes(s, Moved(stage, left), stage, left)
  BY <1>1, ReframedIs
<1>7. UNCHANGED <<sm, late>> /\ obj[w] = o /\ stack[w] = s
  BY DEF Advance
<1>8. \/ /\ f.stage = "matched" /\ stack' = [stack EXCEPT ![w] = Moved("exit", sm.onExit[f.from])]
         /\ obj' = obj
      \/ /\ f.stage = "exit" /\ obj' = obj
         /\ \E hook \in {f.hook, rules[1].hook} : stack' = [stack EXCEPT ![w] = Moved("hook", hook)]
      \/ /\ f.stage = "hook" /\ stack' = [stack EXCEPT ![w] = Moved("enter", sm.onEnter[f.to])]
         /\ obj' = [obj EXCEPT ![w].phase = f.to]
      \/ /\ f.stage = "enter" /\ stack' = [stack EXCEPT ![w] = Front(s)] /\ obj' = obj
  BY <1>1 DEF Advance, Goto, WithTop, EnterCallbacks, RulesOf
<1> HIDE DEF Moved, rules, f
<1>9. CASE f.stage = "matched" /\ stack' = [stack EXCEPT ![w] = Moved("exit", sm.onExit[f.from])]
           /\ obj' = obj
  <2>1. stack'[w] = Moved("exit", sm.onExit[f.from]) /\ obj'[w] = o
    BY <1>9 DEF Typed
  <2>2. Alone(w)
    BY <1>7, <1>9, <2>1 DEF Alone, Typed
  <2>3. Reframes(s, stack'[w], "exit", sm.onExit[f.from])
    BY <1>5, <1>6, <2>1 DEF Stages
  <2> QED
    BY <1>1, <1>9, <2>1, <2>2, <2>3 DEF Local, LocalStep, Exits, f
<1>10. CASE /\ f.stage = "exit" /\ obj' = obj
            /\ \E hook \in {f.hook, rules[1].hook} : stack' = [stack EXCEPT ![w] = Moved("hook", hook)]
  <2>1. PICK hook \in {f.hook, rules[1].hook} : stack' = [stack EXCEPT ![w] = Moved("hook", hook)]
    BY <1>10
  <2>2. stack'[w] = Moved("hook", hook) /\ obj'[w] = o
    BY <1>10, <2>1 DEF Typed
  <2>3. Alone(w)
    BY <1>7, <1>10, <2>1, <2>2 DEF Alone, Typed
  <2>4. Reframes(s, stack'[w], "hook", hook)
    BY <1>2, <1>5, <1>6, <2>2 DEF Stages
  <2>5. Hooks(sm, o, s, obj'[w], stack'[w])
    BY <1>1, <1>10, <2>2, <2>4 DEF Hooks, f, rules
  <2> QED
    BY <2>3, <2>5 DEF Local, LocalStep
<1>11. CASE /\ f.stage = "hook" /\ stack' = [stack EXCEPT ![w] = Moved("enter", sm.onEnter[f.to])]
            /\ obj' = [obj EXCEPT ![w].phase = f.to]
  <2>1. stack'[w] = Moved("enter", sm.onEnter[f.to]) /\ obj'[w] = [o EXCEPT !.phase = f.to]
    BY <1>11 DEF Typed
  <2>2. Alone(w)
    BY <1>7, <1>11, <2>1 DEF Alone, Typed
  <2>3. Reframes(s, stack'[w], "enter", sm.onEnter[f.to])
    BY <1>5, <1>6, <2>1 DEF Stages
  <2>4. Enters(sm, o, s, obj'[w], stack'[w])
    BY <1>1, <1>11, <2>1, <2>3 DEF Enters, f
  <2> QED
    BY <2>2, <2>4 DEF Local, LocalStep
<1>12. CASE f.stage = "enter" /\ stack' = [stack EXCEPT ![w] = Front(s)] /\ obj' = obj
  <2>1. stack'[w] = Front(s) /\ obj'[w] = o
    BY <1>12 DEF Typed
  <2>2. Alone(w)
    BY <1>7, <1>12, <2>1 DEF Alone, Typed
  <2>3. /\ Front(s) \in Seq(Frames) /\ Len(Front(s)) = Len(s) - 1
        /\ \A i \in 1..(Len(s) - 1) : Front(s)[i] = s[i]
    BY <1>1, InnerIs
  <2>4. Returns(o, s, obj'[w], stack'[w])
    BY <1>1, <1>12, <2>1, <2>3 DEF Returns, f
  <2> QED
    BY <2>2, <2>4 DEF Local, LocalStep
<1> QED
  BY <1>8, <1>9, <1>10, <1>11, <1>12

LEMMA RestIsLocal ==
  ASSUME Typed, NEW w \in Workers,
         \/ Initialize(w)
         \/ \E t \in Required, status \in Statuses : Write(w, t, status)
         \/ Clear(w)
         \/ NextObject(w)
  PROVE  Local(w)
<1> DEFINE o == obj[w]
<1>1. Idle(w) /\ UNCHANGED <<sm, late, stack>>
  BY DEF Initialize, Write, Clear, NextObject
<1>2. stack[w] = <<>> /\ stack'[w] = <<>> /\ stack' = [stack EXCEPT ![w] = stack'[w]]
  BY <1>1 DEF Idle, Typed
<1>3. SUFFICES obj' = [obj EXCEPT ![w] = obj'[w]] /\ Rests(sm, o, <<>>, obj'[w], <<>>)
  BY <1>1, <1>2 DEF Local, Alone, LocalStep
<1>4. CASE Initialize(w)
  <2>1. /\ obj' = [obj EXCEPT ![w] = [o EXCEPT !.phase = sm.initial]]
        /\ obj'[w] = [o EXCEPT !.phase = sm.initial] /\ o.phase = ""
    BY <1>4 DEF Initialize, Typed
  <2> QED
    BY <2>1 DEF Rests
<1>5. CASE \E t \in Required, status \in Statuses : Write(w, t, status)
  <2>1. PICK t \in Required, status \in Statuses : Write(w, t, status)
    BY <1>5
  <2> DEFINE n == [o EXCEPT !.conds = Set(o.conds, t, status, 0)]
  <2>2. obj' = [obj EXCEPT ![w] = n]
    BY <2>1 DEF Write
  <2>3. obj'[w] = n
    BY <2>2 DEF Typed
  <2> QED
    BY <2>2, <2>3 DEF Rests
<1>6. CASE Clear(w)
  <2> DEFINE n == [o EXCEPT !.hist = <<>>]
  <2>1. obj' = [obj EXCEPT ![w] = n]
    BY <1>6 DEF Clear
  <2>2. obj'[w] = n
    BY <2>1 DEF Typed
  <2> QED
    BY <2>1, <2>2 DEF Rests
<1>7. CASE NextObject(w)
  <2>1. PICK new \in NewObjects : obj' = [obj EXCEPT ![w] = new]
    BY <1>7 DEF NextObject
  <2>2. obj'[w] = new
    BY <2>1 DEF Typed
  <2> QED
    BY <2>1, <2>2 DEF Rests
<1> QED
  BY <1>4, <1>5, <1>6, <1>7

LEMMA WorkerStepIsLocal ==
  ASSUME Typed, NEW w \in Workers, WorkerStep(w)
  PROVE  Local(w)
BY TransitionIsLocal, RunCallbackIsLocal, AdvanceIsLocal, RestIsLocal DEF WorkerStep

-----------------------------------------------------------------------------
(***************************************************************************)
(* Types.                                                                  *)
(***************************************************************************)
\* The elements of a sequence.
LEMMA ElementsAre ==
  ASSUME NEW S, NEW s \in Seq(S)
  PROVE  ToSet(s) \subseteq S /\ (s # <<>> => s[1] \in ToSet(s))
BY DEF ToSet

\* A new object has no phase yet.
LEMMA NewObjectIs ==
  ASSUME NEW o \in NewObjects
  PROVE  o \in Objects /\ o.phase = "" /\ o.hist = <<>>
<1>1. <<>> \in Seq(Condition) /\ <<>> \in Seq(Entries)
  OBVIOUS
<1>2. Set(<<>>, "Ready", "Unknown", 0) \in Seq(Condition)
  BY <1>1, SetIs, ConditionsAssumption DEF Statuses
<1>3. ASSUME NEW conds \in Seq(Condition)
      PROVE  /\ NewObject(conds) \in Objects
             /\ NewObject(conds).phase = "" /\ NewObject(conds).hist = <<>>
  BY <1>1 DEF NewObject, Objects
<1> QED
  BY <1>1, <1>2, <1>3 DEF NewObjects

\* What happens to an object between the calls of Transition.
LEMMA RestIs ==
  ASSUME NEW m \in MachinesOf(Callbacks), NEW o \in Objects, Len(o.hist) <= MaxHistory,
         NEW s, NEW n, NEW t, Rests(m, o, s, n, t)
  PROVE  n \in Objects /\ Len(n.hist) <= MaxHistory
<1>1. CASE n = [o EXCEPT !.phase = m.initial]
  BY <1>1, MachineIs DEF Objects
<1>2. CASE \E type \in Required, status \in Statuses :
             n = [o EXCEPT !.conds = Set(o.conds, type, status, 0)]
  <2>1. PICK type \in Required, status \in Statuses :
          n = [o EXCEPT !.conds = Set(o.conds, type, status, 0)]
    BY <1>2
  <2> DEFINE conds == Set(o.conds, type, status, 0)
  <2>2. conds \in Seq(Condition)
    BY SetIs, ConditionsAssumption DEF Objects
  <2> HIDE DEF conds
  <2>3. n = [o EXCEPT !.conds = conds]
    BY <2>1 DEF conds
  <2> QED
    BY <2>2, <2>3 DEF Objects
<1>3. CASE n = [o EXCEPT !.hist = <<>>]
  <2> DEFINE none == <<>>
  <2>1. none \in Seq(Entries) /\ Len(none) <= MaxHistory
    BY BoundsAssumption
  <2> HIDE DEF none
  <2>2. n = [o EXCEPT !.hist = none]
    BY <1>3 DEF none
  <2> QED
    BY <2>1, <2>2 DEF Objects
<1>4. CASE n \in NewObjects
  <2>1. n \in Objects /\ n.hist = <<>>
    BY <1>4, NewObjectIs
  <2> QED
    BY <2>1, BoundsAssumption
<1> QED
  BY <1>1, <1>2, <1>3, <1>4 DEF Rests

\* A frame that goes on keeps its rule.
LEMMA ReframedBounded ==
  ASSUME NEW m, NEW o, NEW n, NEW s \in Seq(Frames), NEW t, NEW stage, NEW left,
         Bounded(m, o, s), Reframes(s, t, stage, left), Len(n.hist) <= MaxHistory
  PROVE  t \in Seq(Frames) /\ Bounded(m, n, t)
<1>1. Len(s) \in Nat \ {0}
  BY InnerIs DEF Reframes
<1>2. ASSUME NEW i \in 1..Len(s) PROVE RulesOf(m, t[i]) # <<>>
  <2>1. CASE i # Len(s)
    BY <2>1 DEF Bounded, Reframes
  <2>2. CASE i = Len(s)
    <3>1. t[i].from = s[i].from /\ t[i].to = s[i].to
      BY <2>2 DEF Reframes, Inner
    <3> QED
      BY <3>1 DEF Bounded, RulesOf
  <2> QED
    BY <2>1, <2>2
<1> QED
  BY <1>2 DEF Bounded, Reframes

LEMMA LocalStepTyped ==
  ASSUME NEW m \in MachinesOf(Callbacks), NEW o \in Objects, NEW s \in Seq(Frames),
         NEW n, NEW t, Bounded(m, o, s), LocalStep(m, o, s, n, t)
  PROVE  n \in Objects /\ t \in Seq(Frames) /\ Bounded(m, n, t)
<1>1. Len(o.hist) <= MaxHistory
  BY DEF Bounded
<1>2. CASE Calls(m, o, s, n, t)
  <2>1. PICK to \in Phases, base \in Seq(Frames) :
          /\ AcceptedIn(m, o, to)
          /\ (s = <<>> /\ base = <<>>) \/ Pops(s, base)
          /\ t = Append(base, FrameOf(m, o, to))
    BY <1>2 DEF Calls
  <2> DEFINE g == FrameOf(m, o, to)
  <2>2. g \in Frames /\ RulesOf(m, g) # <<>>
    BY <2>1, FrameIs
  <2>3. Bounded(m, o, base)
    <3>1. CASE s = <<>> /\ base = <<>>
      BY <3>1
    <3>2. CASE Pops(s, base)
      BY <1>1, <3>2, ReframedBounded DEF Pops
    <3> QED
      BY <2>1, <3>1, <3>2
  <2>4. n = o
    BY <1>2 DEF Calls
  <2> HIDE DEF g
  <2>5. t = Append(base, g)
    BY <2>1 DEF g
  <2>6. /\ t \in Seq(Frames) /\ Len(t) = Len(base) + 1 /\ t[Len(t)] = g
        /\ \A i \in 1..Len(base) : t[i] = base[i]
    BY <2>2, <2>5
  <2> QED
    BY <2>2, <2>3, <2>4, <2>6 DEF Bounded
<1>3. CASE Runs(s, o, n, t)
  <2>1. s # <<>> /\ Inner(s).left # <<>>
    BY <1>3 DEF Runs, Pops
  <2>2. Inner(s) \in Frames /\ Inner(s).left[1] \in Callbacks
    BY <2>1, InnerIs, PoppedIs
  <2>3. n \in Objects /\ Len(n.hist) <= MaxHistory
    BY <1>1, <1>3, <2>2, EffectIs DEF Runs
  <2> QED
    BY <1>3, <2>3, ReframedBounded DEF Runs, Pops
<1>4. CASE Exits(m, o, s, n, t)
  BY <1>1, <1>4, ReframedBounded DEF Exits
<1>5. CASE Hooks(m, o, s, n, t)
  BY <1>1, <1>5, ReframedBounded DEF Hooks
<1>6. CASE Enters(m, o, s, n, t)
  <2>1. Inner(s) \in Frames
    BY <1>6, InnerIs DEF Enters
  <2>2. Inner(s).to \in Phases
    BY <2>1 DEF Frames
  <2>3. n \in Objects /\ n.hist = o.hist
    BY <1>6, <2>2 DEF Enters, Objects
  <2> QED
    <3>1. Reframes(s, t, "enter", m.onEnter[Inner(s).to])
      BY <1>6 DEF Enters
    <3> QED
      BY <1>1, <2>3, <3>1, ReframedBounded
<1>7. CASE Returns(o, s, n, t)
  <2>1. Len(s) \in Nat \ {0}
    BY <1>7, InnerIs DEF Returns
  <2> QED
    BY <1>1, <1>7, <2>1 DEF Returns, Bounded
<1>8. CASE Rests(m, o, s, n, t)
  <2>1. n \in Objects /\ Len(n.hist) <= MaxHistory
    BY <1>1, <1>8, RestIs
  <2>2. t = <<>>
    BY <1>8 DEF Rests
  <2> QED
    BY <2>1, <2>2 DEF Bounded
<1> QED
  BY <1>2, <1>3, <1>4, <1>5, <1>6, <1>7, <1>8 DEF LocalStep

\* A machine that grows keeps every rule that was found.
LEMMA GrownBounded ==
  ASSUME NEW some, NEW new, NEW m, NEW n, Grown(m, n, some, new),
         NEW o, NEW s \in Seq(Frames), Bounded(m, o, s)
  PROVE  Bounded(n, o, s)
<1>1. ASSUME NEW i \in 1..Len(s) PROVE RulesOf(n, s[i]) # <<>>
  <2>1. s[i] \in Frames
    OBVIOUS
  <2>2. <<s[i].from, s[i].to>> \in Phases \X Phases
    BY <2>1 DEF Frames
  <2> QED
    BY <2>2 DEF Grown, FirstStays, Bounded, RulesOf
<1> QED
  BY <1>1 DEF Bounded

LEMMA TypedInit == Init => Typed
<1> SUFFICES ASSUME Init PROVE Typed
  OBVIOUS
<1>1. sm \in MachinesOf(Callbacks) /\ late \subseteq LateCalls
  BY PhasesAssumption DEF Init
<1>2. obj \in [Workers -> Objects] /\ \A w \in Workers : obj[w].hist = <<>>
  BY NewObjectIs DEF Init
<1>3. stack \in [Workers -> Seq(Frames)] /\ \A w \in Workers : stack[w] = <<>>
  BY DEF Init
<1>4. \A w \in Workers : Bounded(sm, obj[w], stack[w])
  BY <1>2, <1>3, BoundsAssumption DEF Bounded
<1> QED
  BY <1>1, <1>2, <1>3, <1>4 DEF Typed

\* The disjuncts of Next.
LEMMA NextIs ==
  Next => (\E c \in LateCalls : BuilderCall(c)) \/ (\E w \in Workers : WorkerStep(w))
BY DEF Next, WorkerStep

\* A builder call grows the machine.
LEMMA BuilderCallGrows ==
  ASSUME Typed, NEW some, sm \in MachinesOf(some), NEW c \in LateCalls, BuilderCall(c),
         c.op \in {"OnExit", "OnTransition"} => c.fn \in some
  PROVE  /\ Grown(sm, sm', some, IF c.op = "OnEnter" THEN {c.fn} ELSE {})
         /\ obj' = obj /\ stack' = stack
BY ApplyGrows DEF BuilderCall

LEMMA TypedNext == Typed /\ [Next]_vars => Typed'
<1> SUFFICES ASSUME Typed, [Next]_vars PROVE Typed'
  OBVIOUS
<1>1. CASE \E c \in LateCalls : BuilderCall(c)
  <2>1. PICK c \in LateCalls : BuilderCall(c)
    BY <1>1
  <2> DEFINE new == IF c.op = "OnEnter" THEN {c.fn} ELSE {}
  <2>2. c.fn \in Callbacks
    BY LateCallsAssumption
  <2>3. Grown(sm, sm', Callbacks, new) /\ obj' = obj /\ stack' = stack
    BY <2>1, <2>2, BuilderCallGrows DEF Typed
  <2> HIDE DEF new
  <2>4. \A w \in Workers : Bounded(sm', obj[w], stack[w])
    BY <2>3, GrownBounded DEF Typed
  <2>5. sm' \in MachinesOf(Callbacks) /\ late' \subseteq LateCalls
    BY <2>1, <2>3 DEF Grown, BuilderCall, Typed
  <2> QED
    BY <2>3, <2>4, <2>5 DEF Typed
<1>2. CASE \E w \in Workers : WorkerStep(w)
  <2>1. PICK w \in Workers : WorkerStep(w)
    BY <1>2
  <2>2. Local(w)
    BY <2>1, WorkerStepIsLocal
  <2>3. obj'[w] \in Objects /\ stack'[w] \in Seq(Frames) /\ Bounded(sm, obj'[w], stack'[w])
    BY <2>2, LocalStepTyped DEF Typed, Local
  <2>4. obj' \in [Workers -> Objects] /\ stack' \in [Workers -> Seq(Frames)]
    BY <2>2, <2>3 DEF Typed, Local, Alone
  <2>5. ASSUME NEW v \in Workers PROVE Bounded(sm, obj'[v], stack'[v])
    <3>1. CASE v = w
      BY <2>3, <3>1
    <3>2. CASE v # w
      BY <2>2, <3>2 DEF Typed, Local, Alone
    <3> QED
      BY <3>1, <3>2
  <2>6. sm' = sm /\ late' = late
    BY <2>2 DEF Local, Alone
  <2> QED
    BY <2>4, <2>5, <2>6 DEF Typed
<1>3. CASE UNCHANGED vars
  BY <1>3 DEF Typed, vars
<1> QED
  BY <1>1, <1>2, <1>3, NextIs

(***************************************************************************)
(* Transition and its callbacks keep objects, histories and calls in       *)
(* progress well formed, and no call in progress loses its rule.           *)
(***************************************************************************)
THEOREM TypeInvariance == Spec => []Typed
BY TypedInit, TypedNext, PTL DEF Spec

(***************************************************************************)
(* The machine, the objects and the calls in progress keep their types,    *)
(* and a history never exceeds its bound.                                  *)
(***************************************************************************)
THEOREM TypeCorrect == Spec => []TypeOK
<1>1. ASSUME Typed PROVE TypeOK
  <2>1. late \subseteq LateCalls /\ sm.phases \subseteq Phases
    BY <1>1, MachineIs DEF Typed
  <2>2. ASSUME NEW w \in Workers
        PROVE  /\ obj[w].phase \in Phases \cup {""}
               /\ ToSet(obj[w].conds) \subseteq Condition
               /\ Len(obj[w].hist) <= MaxHistory
    <3>1. obj[w] \in Objects /\ Len(obj[w].hist) <= MaxHistory
      BY <1>1 DEF Typed, Bounded
    <3>2. obj[w].phase \in Phases \cup {""} /\ obj[w].conds \in Seq(Condition)
      BY <3>1 DEF Objects
    <3>3. ToSet(obj[w].conds) \subseteq Condition
      BY <3>2, ElementsAre
    <3> QED
      BY <3>1, <3>2, <3>3
  <2>3. ASSUME NEW w \in Workers, NEW f \in ToSet(stack[w])
        PROVE  f.stage \in Stages /\ ToSet(f.left) \subseteq Callbacks
    <3>1. f \in Frames
      BY <1>1, <2>3 DEF Typed, ToSet
    <3>2. f.stage \in Stages /\ f.left \in Seq(Callbacks)
      BY <3>1 DEF Frames
    <3> QED
      BY <3>2 DEF ToSet
  <2> QED
    BY <2>1, <2>2, <2>3 DEF TypeOK
<1> QED
  BY <1>1, TypeInvariance, PTL

(***************************************************************************)
(* CanTransition, AllowedTransitions and IsTerminal agree in every state.  *)
(***************************************************************************)
THEOREM AnswersAgreeCorrect == Spec => []AnswersAgree
<1>1. ASSUME Typed PROVE AnswersAgree
  <2> SUFFICES ASSUME NEW w \in Workers
      PROVE  LET p == CurrentPhase(obj[w])
                 allowed == AllowedTransitions(p, obj[w])
                 can == {q \in Phases : CanTransition(p, q, obj[w])}
             IN /\ can \subseteq allowed
                /\ \A q \in allowed \ can : sm.transitions[p, q][1].guarded
                /\ IsTerminal(p) => allowed = {}
    BY DEF AnswersAgree
  <2> DEFINE o == obj[w]
             p == CurrentPhase(o)
             allowed == AllowedTransitions(p, o)
             rules(q) == sm.transitions[<<p, q>>]
  <2>1. p \in Phases /\ sm \in MachinesOf(Callbacks)
    BY <1>1, PhaseIs, QueriesAre DEF Typed
  <2> HIDE DEF p
  <2>2. ASSUME NEW q \in Phases PROVE rules(q) \in Seq(Rules(Callbacks))
    BY <2>1, MachineIs
  <2>3. ASSUME NEW q \in Phases, CanTransition(p, q, o) PROVE q \in allowed
    <3>1. rules(q) # <<>> /\ GuardHolds(rules(q)[1], o)
      BY <2>3 DEF CanTransition
    <3>2. rules(q)[1] \in ToSet(rules(q))
      BY <2>2, <2>3, <3>1, ElementsAre
    <3> QED
      BY <3>1, <3>2 DEF AllowedTransitions
  <2>4. ASSUME NEW q \in allowed, ~CanTransition(p, q, o) PROVE rules(q)[1].guarded
    <3>1. q \in Phases /\ \E r \in ToSet(rules(q)) : GuardHolds(r, o)
      BY <2>4 DEF AllowedTransitions
    <3>2. rules(q) # <<>>
      BY <2>2, <3>1 DEF ToSet
    <3>3. ~GuardHolds(rules(q)[1], o)
      BY <2>4, <3>2 DEF CanTransition
    <3> QED
      BY <3>3 DEF GuardHolds
  <2>5. ASSUME IsTerminal(p) PROVE allowed = {}
    <3>1. \A q \in Phases : rules(q) = <<>>
      BY <2>5 DEF IsTerminal
    <3>2. \A q \in Phases : ToSet(rules(q)) = {}
      BY <3>1 DEF ToSet
    <3> QED
      BY <3>2 DEF AllowedTransitions
  <2> HIDE DEF allowed
  <2>6. \A q \in allowed : q \in Phases
    BY DEF allowed, AllowedTransitions
  <2> QED
    BY <2>3, <2>4, <2>5, <2>6 DEF p, allowed
<1> QED
  BY <1>1, TypeInvariance, PTL

-----------------------------------------------------------------------------
(***************************************************************************)
(* The rules.                                                              *)
(***************************************************************************)
\* A frame that goes on, with what RulesKept asks of it.
LEMMA ReframedKeepsRules ==
  ASSUME NEW m, NEW o, NEW n, NEW s \in Seq(Frames), NEW t, NEW stage, NEW left,
         RulesKept(m, o, s), Reframes(s, t, stage, left),
         stage # "enter" =>
           /\ left \in Seq(Plain) /\ Inner(t).hook \in Seq(Plain)
           /\ StillAllowed(m, n, Inner(t)) /\ StillNoted(m, n, Inner(t))
  PROVE  RulesKept(m, n, t)
<1>1. Len(s) \in Nat \ {0}
  BY InnerIs DEF Reframes
<1>2. ASSUME NEW i \in 1..Len(t), t[i].stage # "enter"
      PROVE  /\ i = Len(t) /\ t[i].left \in Seq(Plain) /\ t[i].hook \in Seq(Plain)
             /\ StillAllowed(m, n, t[i]) /\ StillNoted(m, n, t[i])
  <2>1. i = Len(s) /\ Len(t) = Len(s)
    BY <1>2 DEF Reframes, RulesKept
  <2>2. t[i] = Inner(t) /\ Inner(t).stage = stage /\ Inner(t).left = left
    BY <2>1 DEF Reframes, Inner
  <2> QED
    BY <1>2, <2>1, <2>2
<1> QED
  BY <1>2 DEF RulesKept

\* What RulesKept tells of the innermost frame, and of the frames under it.
LEMMA RulesTell ==
  ASSUME NEW m, NEW o, NEW s \in Seq(Frames), s # <<>>, RulesKept(m, o, s)
  PROVE  /\ \A i \in 1..Len(s) : i # Len(s) => s[i].stage = "enter"
         /\ Inner(s).stage # "enter" =>
              /\ Inner(s).left \in Seq(Plain) /\ Inner(s).hook \in Seq(Plain)
              /\ StillAllowed(m, o, Inner(s)) /\ StillNoted(m, o, Inner(s))
<1>1. Len(s) \in 1..Len(s)
  BY InnerIs
<1> QED
  BY <1>1 DEF RulesKept, Inner

\* A callback that is no call leaves a call as allowed as it was.
LEMMA RunsKeepsRules ==
  ASSUME NEW m \in MachinesOf(Plain), NEW o \in Objects, NEW s \in Seq(Frames), NEW n, NEW t,
         Bounded(m, o, s), RulesKept(m, o, s), Runs(s, o, n, t)
  PROVE  RulesKept(m, n, t)
<1> DEFINE f == Inner(s)
           g == Inner(t)
           fn == f.left[1]
<1>1. s # <<>> /\ f.left # <<>> /\ Reframes(s, t, f.stage, Tail(f.left)) /\ n = Effect(o, fn, f)
  BY DEF Runs, Pops
<1>2. f \in Frames /\ fn \in Callbacks
  BY <1>1, InnerIs, PoppedIs
<1>3. /\ n.phase = o.phase
      /\ \A u : u # "Ready" => StatusOf(n.conds, u) = StatusOf(o.conds, u)
      /\ fn = "record" => Noted(n, f)
      /\ fn # "record" => n.hist = o.hist
  <2>1. Len(o.hist) <= MaxHistory
    BY DEF Bounded
  <2> HIDE DEF fn, f
  <2>2. /\ Effect(o, fn, f).phase = o.phase
        /\ \A u : u # "Ready" => StatusOf(Effect(o, fn, f).conds, u) = StatusOf(o.conds, u)
        /\ IF fn = "record" THEN Noted(Effect(o, fn, f), f) ELSE Effect(o, fn, f).hist = o.hist
    BY <1>2, <2>1, EffectIs
  <2> QED
    BY <1>1, <2>2
<1>4. /\ g.from = f.from /\ g.to = f.to /\ g.hook = f.hook
      /\ g.stage = f.stage /\ g.left = Tail(f.left)
  BY <1>1 DEF Reframes
<1> HIDE DEF f, g
<1>5. SUFFICES ASSUME f.stage # "enter"
               PROVE  /\ Tail(f.left) \in Seq(Plain) /\ g.hook \in Seq(Plain)
                      /\ StillAllowed(m, n, g) /\ StillNoted(m, n, g)
  <2> DEFINE stage == f.stage
             left == Tail(f.left)
  <2>1. Reframes(s, t, stage, left)
    BY <1>1
  <2> HIDE DEF stage, left
  <2>2. ASSUME stage # "enter" =>
                 /\ left \in Seq(Plain) /\ Inner(t).hook \in Seq(Plain)
                 /\ StillAllowed(m, n, Inner(t)) /\ StillNoted(m, n, Inner(t))
        PROVE  RulesKept(m, n, t)
    BY <2>1, <2>2, ReframedKeepsRules
  <2> QED
    BY <2>2 DEF stage, left, g
<1>6. /\ f.left \in Seq(Plain) /\ f.hook \in Seq(Plain)
      /\ StillAllowed(m, o, f) /\ StillNoted(m, o, f)
  BY <1>1, <1>5, RulesTell DEF f
<1>7. Tail(f.left) \in Seq(Plain) /\ g.hook \in Seq(Plain)
  <2> HIDE DEF Plain
  <2> QED
    BY <1>1, <1>4, <1>6
<1>8. StillAllowed(m, n, g)
  <2>1. ReadyIsReported =>
          SummaryCondition(n.conds, Required) = SummaryCondition(o.conds, Required)
    BY <1>3, SummaryIs DEF ReadyIsReported
  <2>2. RulesOf(m, g) = RulesOf(m, f) /\ PhaseIn(m, n) = PhaseIn(m, o)
    BY <1>3, <1>4 DEF RulesOf, PhaseIn
  <2> QED
    BY <1>4, <1>6, <2>1, <2>2 DEF StillAllowed
<1>9. StillNoted(m, n, g)
  <2> SUFFICES ASSUME Contains(g.hook, "record")
               PROVE  /\ Contains(RulesOf(m, g)[1].hook, "record")
                      /\ g.stage = "hook" => Contains(g.left, "record") \/ Noted(n, g)
    BY DEF StillNoted
  <2>1. /\ Contains(RulesOf(m, f)[1].hook, "record")
        /\ f.stage = "hook" => Contains(f.left, "record") \/ Noted(o, f)
    BY <1>4, <1>6 DEF StillNoted
  <2>2. RulesOf(m, g) = RulesOf(m, f)
    BY <1>4 DEF RulesOf
  <2>3. Noted(n, f) => Noted(n, g)
    BY <1>4 DEF Noted
  <2>4. Noted(o, f) /\ fn # "record" => Noted(n, f)
    BY <1>3 DEF Noted
  <2>5. Contains(f.left, "record") /\ fn # "record" => Contains(Tail(f.left), "record")
    <3> SUFFICES ASSUME Contains(f.left, "record"), fn # "record"
                 PROVE  Contains(Tail(f.left), "record")
      OBVIOUS
    <3>1. PICK i \in 1..Len(f.left) : f.left[i] = "record"
      BY DEF Contains
    <3>2. i # 1
      BY <3>1
    <3> DEFINE left == f.left
    <3>3. left \in Seq(Plain) /\ left # <<>> /\ i \in 1..Len(left) /\ left[i] = "record"
      BY <1>1, <1>6, <3>1 DEF f
    <3> HIDE DEF left, Plain
    <3>4. i - 1 \in 1..Len(Tail(left)) /\ Tail(left)[i - 1] = left[i]
      BY <3>2, <3>3
    <3>5. Contains(Tail(left), "record")
      BY <3>3, <3>4 DEF Contains
    <3> QED
      BY <3>5 DEF left
  <2>6. fn = "record" => Noted(n, f)
    BY <1>3
  <2> QED
    BY <1>4, <2>1, <2>2, <2>3, <2>4, <2>5, <2>6
<1> QED
  BY <1>7, <1>8, <1>9

\* A call that begins is allowed, and no call under it has its phase to set.
LEMMA CallsKeepsRules ==
  ASSUME NEW m \in MachinesOf(Plain), NEW o \in Objects, NEW s \in Seq(Frames), NEW n, NEW t,
         RulesKept(m, o, s), Calls(m, o, s, n, t)
  PROVE  RulesKept(m, n, t)
<1>1. PICK to \in Phases, base \in Seq(Frames) :
        /\ AcceptedIn(m, o, to)
        /\ (s = <<>> /\ base = <<>>) \/ (Pops(s, base) /\ Inner(s).left[1] \in Phases)
        /\ t = Append(base, FrameOf(m, o, to))
  BY DEF Calls
<1> DEFINE g == FrameOf(m, o, to)
<1>2. \A i \in 1..Len(base) : base[i].stage = "enter"
  <2>1. CASE s = <<>> /\ base = <<>>
    BY <2>1
  <2>2. CASE Pops(s, base) /\ Inner(s).left[1] \in Phases
    <3>1. s # <<>> /\ Inner(s).left # <<>> /\ Reframes(s, base, Inner(s).stage, Tail(Inner(s).left))
      BY <2>2 DEF Pops
    <3>2. Len(s) \in Nat \ {0}
      BY <3>1, InnerIs
    <3>3. Inner(s).stage = "enter"
      <4> SUFFICES ASSUME Inner(s).stage # "enter" PROVE FALSE
        OBVIOUS
      <4>1. Inner(s).left \in Seq(Plain)
        BY <3>1, RulesTell
      <4>2. Inner(s).left[1] \in Plain
        <5> DEFINE left == Inner(s).left
        <5>1. left \in Seq(Plain) /\ left # <<>>
          BY <3>1, <4>1
        <5> HIDE DEF left, Plain
        <5>2. left[1] \in Plain
          BY <5>1
        <5> QED
          BY <5>2 DEF left
      <4> QED
        BY <2>2, <4>2, PhasesAssumption
    <3>4. \A i \in 1..Len(s) : i # Len(s) => s[i].stage = "enter"
      BY <3>1, RulesTell
    <3> QED
      BY <3>1, <3>2, <3>3, <3>4 DEF Reframes, Inner
  <2> QED
    BY <1>1, <2>1, <2>2
<1>3. Plain \in SUBSET Callbacks
  BY DEF Callbacks
<1>4. g \in Frames /\ g.hook \in Seq(Plain)
  BY <1>1, <1>3, FrameIs
<1>5. g.left \in Seq(Plain)
  <2>1. <<>> \in Seq(Plain)
    OBVIOUS
  <2> QED
    BY <2>1 DEF FrameOf
<1>6. StillAllowed(m, o, g)
  BY <1>1 DEF StillAllowed, FrameOf, AcceptedIn, RulesOf
<1>7. StillNoted(m, o, g)
  BY DEF StillNoted, FrameOf, RulesOf
<1> HIDE DEF g
<1>8. t = Append(base, g)
  BY <1>1 DEF g
<1>9. Len(t) = Len(base) + 1 /\ t[Len(t)] = g /\ \A i \in 1..Len(base) : t[i] = base[i]
  BY <1>4, <1>8
<1>10. n = o
  BY DEF Calls
<1>11. ASSUME NEW i \in 1..Len(t), t[i].stage # "enter"
       PROVE  i = Len(t) /\ t[i] = g
  BY <1>2, <1>9, <1>11
<1> QED
  BY <1>4, <1>5, <1>6, <1>7, <1>10, <1>11 DEF RulesKept

LEMMA LocalStepKeepsRules ==
  ASSUME NEW m \in MachinesOf(Plain), NEW o \in Objects, NEW s \in Seq(Frames), NEW n, NEW t,
         Bounded(m, o, s), RulesKept(m, o, s), LocalStep(m, o, s, n, t)
  PROVE  RulesKept(m, n, t)
<1> DEFINE f == Inner(s)
           g == Inner(t)
<1>1. CASE Calls(m, o, s, n, t)
  BY <1>1, CallsKeepsRules
<1>2. CASE Runs(s, o, n, t)
  BY <1>2, RunsKeepsRules
<1>3. CASE Exits(m, o, s, n, t)
  <2>1. /\ n = o /\ s # <<>> /\ f.stage = "matched"
        /\ Reframes(s, t, "exit", m.onExit[f.from])
    BY <1>3 DEF Exits
  <2>2. f \in Frames /\ StillAllowed(m, o, f) /\ StillNoted(m, o, f) /\ f.hook \in Seq(Plain)
    BY <2>1, InnerIs, RulesTell
  <2>3. g.from = f.from /\ g.to = f.to /\ g.hook = f.hook /\ g.stage = "exit"
    BY <2>1 DEF Reframes
  <2>4. m.onExit[f.from] \in Seq(Plain)
    BY <2>2, MachineIs DEF Frames
  <2> HIDE DEF f, g
  <2>5. StillAllowed(m, n, g) /\ StillNoted(m, n, g)
    BY <2>1, <2>2, <2>3 DEF StillAllowed, StillNoted, RulesOf
  <2> DEFINE left == m.onExit[f.from]
  <2>6. left \in Seq(Plain) /\ Reframes(s, t, "exit", left)
    BY <2>1, <2>4
  <2> HIDE DEF left
  <2> QED
    BY <2>2, <2>3, <2>5, <2>6, ReframedKeepsRules DEF g
<1>4. CASE Hooks(m, o, s, n, t)
  <2>1. /\ n = o /\ s # <<>> /\ f.stage = "exit"
        /\ \E hook \in {f.hook, RulesOf(m, f)[1].hook} : Reframes(s, t, "hook", hook)
    BY <1>4 DEF Hooks
  <2>2. PICK hook \in {f.hook, RulesOf(m, f)[1].hook} : Reframes(s, t, "hook", hook)
    BY <2>1
  <2>3. f \in Frames /\ StillAllowed(m, o, f) /\ StillNoted(m, o, f) /\ f.hook \in Seq(Plain)
    BY <2>1, InnerIs, RulesTell
  <2>4. /\ g.from = f.from /\ g.to = f.to /\ g.hook = f.hook /\ g.stage = "hook"
        /\ g.left = hook
    BY <2>2 DEF Reframes
  <2>5. RulesOf(m, f) \in Seq(Rules(Plain)) /\ RulesOf(m, f) # <<>>
    <3>1. RulesOf(m, f) \in Seq(Rules(Plain))
      BY <2>3, MachineIs DEF RulesOf, Frames
    <3>2. RulesOf(m, f) # <<>>
      BY <2>1, InnerIs DEF Bounded, Inner
    <3> QED
      BY <3>1, <3>2
  <2>6. hook \in Seq(Plain)
    <3>1. RulesOf(m, f)[1] \in Rules(Plain)
      BY <2>5
    <3>2. RulesOf(m, f)[1].hook \in Seq(Plain)
      BY <3>1 DEF Rules
    <3> QED
      BY <2>2, <2>3, <3>2
  <2> HIDE DEF f, g
  <2>7. StillAllowed(m, n, g)
    BY <2>1, <2>3, <2>4 DEF StillAllowed, RulesOf
  <2>8. StillNoted(m, n, g)
    BY <2>1, <2>2, <2>3, <2>4 DEF StillNoted, RulesOf
  <2> QED
    BY <2>2, <2>3, <2>4, <2>6, <2>7, <2>8, ReframedKeepsRules DEF g
<1>5. CASE Enters(m, o, s, n, t)
  <2> DEFINE left == m.onEnter[f.to]
  <2>1. Reframes(s, t, "enter", left)
    BY <1>5 DEF Enters
  <2> HIDE DEF left
  <2> QED
    BY <2>1, ReframedKeepsRules
<1>6. CASE Returns(o, s, n, t)
  <2>1. /\ s # <<>> /\ Len(t) = Len(s) - 1 /\ \A i \in 1..Len(t) : t[i] = s[i]
    BY <1>6 DEF Returns
  <2>2. Len(s) \in Nat \ {0} /\ \A i \in 1..Len(s) : i # Len(s) => s[i].stage = "enter"
    BY <2>1, InnerIs, RulesTell
  <2>3. \A i \in 1..Len(t) : t[i].stage = "enter"
    BY <2>1, <2>2
  <2> QED
    BY <2>3 DEF RulesKept
<1>7. CASE Rests(m, o, s, n, t)
  <2>1. t = <<>>
    BY <1>7 DEF Rests
  <2> QED
    BY <2>1 DEF RulesKept
<1> QED
  BY <1>1, <1>2, <1>3, <1>4, <1>5, <1>6, <1>7 DEF LocalStep

\* The first rule of a call in progress outlives every builder call.
LEMMA GrownKeepsRules ==
  ASSUME NEW some, NEW new, NEW m, NEW n, Grown(m, n, some, new),
         NEW o, NEW s \in Seq(Frames), Bounded(m, o, s), RulesKept(m, o, s)
  PROVE  RulesKept(n, o, s)
<1> SUFFICES ASSUME NEW i \in 1..Len(s), s[i].stage # "enter"
             PROVE  StillAllowed(n, o, s[i]) /\ StillNoted(n, o, s[i])
  BY DEF RulesKept
<1> DEFINE f == s[i]
<1>1. f \in Frames /\ RulesOf(m, f) # <<>>
  BY DEF Bounded
<1>2. StillAllowed(m, o, f) /\ StillNoted(m, o, f)
  BY DEF RulesKept
<1> HIDE DEF f
<1>3. FirstStays(RulesOf(m, f), RulesOf(n, f)) /\ n.initial = m.initial
  BY <1>1 DEF Grown, RulesOf, Frames
<1>4. /\ RulesOf(n, f)[1].guarded = RulesOf(m, f)[1].guarded
      /\ Contains(RulesOf(m, f)[1].hook, "record") => Contains(RulesOf(n, f)[1].hook, "record")
  BY <1>1, <1>3 DEF FirstStays
<1>5. PhaseIn(n, o) = PhaseIn(m, o)
  BY <1>3 DEF PhaseIn
<1>6. StillAllowed(n, o, f) /\ StillNoted(n, o, f)
  BY <1>2, <1>4, <1>5 DEF StillAllowed, StillNoted
<1> QED
  BY <1>6 DEF f

LEMMA RulesInit == NestedOnEnterOnly /\ Init => RulesHold
BY DEF NestedOnEnterOnly, Init, RulesHold, RulesKept

LEMMA RulesNext == NestedOnEnterOnly /\ Typed /\ RulesHold /\ [Next]_vars => RulesHold'
<1> SUFFICES ASSUME NestedOnEnterOnly, Typed, RulesHold, [Next]_vars PROVE RulesHold'
  OBVIOUS
<1>1. CASE \E c \in LateCalls : BuilderCall(c)
  <2>1. PICK c \in LateCalls : BuilderCall(c)
    BY <1>1
  <2> DEFINE new == IF c.op = "OnEnter" THEN {c.fn} ELSE {}
  <2>2. c.op \in {"OnExit", "OnTransition"} => c.fn \in Plain
    BY DEF NestedOnEnterOnly
  <2>3. Grown(sm, sm', Plain, new) /\ obj' = obj /\ stack' = stack
    BY <2>1, <2>2, BuilderCallGrows DEF RulesHold
  <2> HIDE DEF new
  <2>4. \A w \in Workers : RulesKept(sm', obj[w], stack[w])
    BY <2>3, GrownKeepsRules DEF Typed, RulesHold
  <2> QED
    BY <2>3, <2>4 DEF RulesHold, Grown
<1>2. CASE \E w \in Workers : WorkerStep(w)
  <2>1. PICK w \in Workers : WorkerStep(w)
    BY <1>2
  <2>2. Local(w)
    BY <2>1, WorkerStepIsLocal
  <2>3. RulesKept(sm, obj'[w], stack'[w])
    BY <2>2, LocalStepKeepsRules DEF Typed, RulesHold, Local
  <2>4. ASSUME NEW v \in Workers PROVE RulesKept(sm, obj'[v], stack'[v])
    <3>1. CASE v = w
      BY <2>3, <3>1
    <3>2. CASE v # w
      BY <2>2, <3>2 DEF Typed, RulesHold, Local, Alone
    <3> QED
      BY <3>1, <3>2
  <2>5. sm' = sm
    BY <2>2 DEF Local, Alone
  <2> QED
    BY <2>4, <2>5 DEF RulesHold
<1>3. CASE UNCHANGED vars
  BY <1>3 DEF RulesHold, vars
<1> QED
  BY <1>1, <1>2, <1>3, NextIs

(***************************************************************************)
(* When calls are nested in enter callbacks alone, only the innermost call *)
(* of a worker has its phase still to set; the object is then where the    *)
(* call found it, the first rule is the one it found, and what is left of  *)
(* the callback of the transition records unless it has recorded.          *)
(***************************************************************************)
THEOREM RulesInvariance == ASSUME NestedOnEnterOnly PROVE Spec => [](Typed /\ RulesHold)
<1>1. Init => RulesHold
  BY RulesInit
<1>2. Typed /\ RulesHold /\ [Next]_vars => RulesHold'
  BY RulesNext
<1> QED
  BY <1>1, <1>2, TypedInit, TypedNext, PTL DEF Spec

\* The step that sets a phase is the one that enters it.
LEMMA PhaseSetByEnter ==
  ASSUME Typed, [Next]_vars, NEW w \in Workers, ~Idle(w), obj'[w].phase # obj[w].phase
  PROVE  /\ Enters(sm, obj[w], stack[w], obj'[w], stack'[w])
         /\ obj'[w].phase = Inner(stack[w]).to
<1> DEFINE o == obj[w]
           s == stack[w]
           n == obj'[w]
           t == stack'[w]
<1>1. o \in Objects /\ s \in Seq(Frames) /\ s # <<>> /\ Len(o.hist) <= MaxHistory
  BY DEF Typed, Idle, Bounded
<1>2. n # o
  OBVIOUS
<1>3. LocalStep(sm, o, s, n, t)
  <2>1. ~UNCHANGED vars /\ ~\E c \in LateCalls : BuilderCall(c)
    BY <1>2 DEF vars, BuilderCall
  <2>2. PICK v \in Workers : WorkerStep(v)
    BY <2>1, NextIs
  <2>3. Local(v)
    BY <2>2, WorkerStepIsLocal
  <2>4. v = w
    BY <1>2, <2>3 DEF Local, Alone, Typed
  <2> QED
    BY <2>3, <2>4 DEF Local
<1>4. ~Calls(sm, o, s, n, t) /\ ~Exits(sm, o, s, n, t) /\ ~Hooks(sm, o, s, n, t)
  BY <1>2 DEF Calls, Exits, Hooks
<1>5. ~Returns(o, s, n, t) /\ ~Rests(sm, o, s, n, t)
  BY <1>1, <1>2 DEF Returns, Rests
<1>6. ~Runs(s, o, n, t)
  <2> SUFFICES ASSUME Runs(s, o, n, t) PROVE FALSE
    OBVIOUS
  <2> DEFINE f == Inner(s)
             fn == f.left[1]
  <2>1. f.left # <<>> /\ n = Effect(o, fn, f)
    BY DEF Runs, Pops
  <2>2. f \in Frames /\ fn \in Callbacks
    BY <1>1, <2>1, InnerIs, PoppedIs
  <2> HIDE DEF fn, f
  <2>3. Effect(o, fn, f).phase = o.phase
    BY <1>1, <2>2, EffectIs
  <2> QED
    BY <2>1, <2>3
<1>7. Enters(sm, o, s, n, t)
  BY <1>3, <1>4, <1>5, <1>6 DEF LocalStep
<1>8. n.phase = Inner(s).to
  BY <1>1, <1>7 DEF Enters, Objects
<1> QED
  BY <1>7, <1>8

(***************************************************************************)
(* Transition sets a phase only along the first rule between the two, with *)
(* its guard satisfied at that moment, when calls are nested in enter      *)
(* callbacks alone and the guards do not ask for the condition that        *)
(* callbacks write.                                                        *)
(***************************************************************************)
THEOREM AlongRulesCorrect == ASSUME NestedOnEnterOnly, ReadyIsReported PROVE Spec => AlongRules
<1>1. ASSUME Typed, RulesHold, [Next]_vars, NEW w \in Workers,
             ~Idle(w), obj'[w].phase # obj[w].phase
      PROVE  LET rules == sm.transitions[CurrentPhase(obj[w]), obj'[w].phase] IN
             /\ rules # <<>>
             /\ rules[1].guarded => SummaryCondition(obj[w].conds, Required) = "True"
  <2> DEFINE s == stack[w]
             f == Inner(s)
  <2>1. /\ s # <<>> /\ f.stage = "hook" /\ obj'[w].phase = f.to
    BY <1>1, PhaseSetByEnter DEF Enters
  <2>2. StillAllowed(sm, obj[w], f) /\ RulesOf(sm, f) # <<>>
    <3>1. s \in Seq(Frames) /\ RulesKept(sm, obj[w], s) /\ Bounded(sm, obj[w], s)
      BY <1>1 DEF Typed, RulesHold
    <3>2. Len(s) \in 1..Len(s)
      BY <2>1, <3>1, InnerIs
    <3> QED
      BY <2>1, <3>1, <3>2, RulesTell DEF Bounded, Inner
  <2>3. CurrentPhase(obj[w]) = f.from
    BY <2>2, QueriesAre DEF StillAllowed
  <2> QED
    BY <2>1, <2>2, <2>3 DEF StillAllowed, RulesOf
<1>2. Typed /\ RulesHold /\ [Next]_vars =>
        [\A w \in Workers :
           LET rules == sm.transitions[CurrentPhase(obj[w]), obj'[w].phase] IN
           ~Idle(w) /\ obj'[w].phase # obj[w].phase =>
             /\ rules # <<>>
             /\ rules[1].guarded => SummaryCondition(obj[w].conds, Required) = "True"]_vars
  BY <1>1
<1> QED
  BY <1>2, RulesInvariance, PTL DEF AlongRules, Spec

(***************************************************************************)
(* As Transition sets a phase along a rule that recorded at the lookup,    *)
(* the newest entry of the StateHistory is that change, when calls are     *)
(* nested in enter callbacks alone.                                        *)
(***************************************************************************)
THEOREM HistoryTellsCorrect == ASSUME NestedOnEnterOnly PROVE Spec => HistoryTells
<1>1. ASSUME Typed, RulesHold, [Next]_vars, NEW w \in Workers,
             ~Idle(w), obj'[w].phase # obj[w].phase, Contains(Top(w).hook, "record")
      PROVE  /\ obj[w].hist # <<>>
             /\ Last(obj[w].hist) = [from |-> Top(w).from, to |-> Top(w).to]
  <2> DEFINE s == stack[w]
             f == Inner(s)
  <2>1. s # <<>> /\ f.stage = "hook" /\ f.left = <<>>
    BY <1>1, PhaseSetByEnter DEF Enters
  <2>2. s \in Seq(Frames) /\ RulesKept(sm, obj[w], s)
    BY <1>1 DEF Typed, RulesHold
  <2>3. StillNoted(sm, obj[w], f) /\ Top(w) = f
    BY <2>1, <2>2, RulesTell, InnerIs DEF Top
  <2>4. ~Contains(f.left, "record")
    BY <2>1 DEF Contains
  <2> QED
    BY <1>1, <2>1, <2>3, <2>4 DEF StillNoted, Noted
<1>2. Typed /\ RulesHold /\ [Next]_vars =>
        [\A w \in Workers :
           /\ ~Idle(w) /\ obj'[w].phase # obj[w].phase
           /\ Contains(Top(w).hook, "record")
           => /\ obj[w].hist # <<>>
              /\ Last(obj[w].hist) = [from |-> Top(w).from, to |-> Top(w).to]]_vars
  BY <1>1
<1> QED
  BY <1>2, RulesInvariance, PTL DEF HistoryTells, Spec

-----------------------------------------------------------------------------
(***************************************************************************)
(* Ready.                                                                  *)
(***************************************************************************)
\* What ReadyKept asks of one frame; the innermost of s is on top.
FrameReady(o, f, top) ==
  f.stage = "enter" =>
    /\ \A j \in 1..Len(f.left) : f.left[j] \in Signals => top /\ j = 1 /\ ToReport(o, f)
    /\ top => Right(o) \/ ToReport(o, f)

LEMMA ReadyKeptIs ==
  ASSUME NEW o, NEW s
  PROVE  ReadyKept(o, s) <=>
           /\ s = <<>> => Right(o)
           /\ \A i \in 1..Len(s) : FrameReady(o, s[i], i = Len(s))
BY DEF ReadyKept, FrameReady

\* A frame under another keeps what is asked of it, whatever becomes of the object.
LEMMA CoveredReady ==
  ASSUME NEW o, NEW n, NEW f, FrameReady(o, f, FALSE)
  PROVE  FrameReady(n, f, FALSE)
BY DEF FrameReady

\* A frame that goes on, with what is asked of it then.
LEMMA ReframedReady ==
  ASSUME NEW o, NEW n, NEW s \in Seq(Frames), NEW t, NEW stage, NEW left,
         ReadyKept(o, s), Reframes(s, t, stage, left), FrameReady(n, Inner(t), TRUE)
  PROVE  ReadyKept(n, t)
<1>1. Len(s) \in Nat \ {0} /\ Len(t) = Len(s)
  BY InnerIs DEF Reframes
<1>2. t # <<>>
  BY <1>1
<1>3. ASSUME NEW i \in 1..Len(t) PROVE FrameReady(n, t[i], i = Len(t))
  <2>1. CASE i = Len(t)
    <3>1. t[i] = Inner(t) /\ (i = Len(t)) = TRUE
      BY <2>1 DEF Inner
    <3> QED
      BY <3>1
  <2>2. CASE i # Len(t)
    <3>1. t[i] = s[i] /\ (i = Len(t)) = FALSE /\ (i = Len(s)) = FALSE
      BY <1>1, <2>2 DEF Reframes
    <3>2. FrameReady(o, s[i], FALSE)
      BY <1>1, <3>1, ReadyKeptIs
    <3> QED
      BY <3>1, <3>2, CoveredReady
  <2> QED
    BY <2>1, <2>2
<1> QED
  BY <1>2, <1>3, ReadyKeptIs

\* What is left when the first callback is gone.
LEMMA TailIs ==
  ASSUME NEW S, NEW s \in Seq(S), s # <<>>
  PROVE  /\ Len(Tail(s)) = Len(s) - 1 /\ Len(s) \in Nat \ {0}
         /\ \A j \in 1..Len(Tail(s)) : Tail(s)[j] = s[j + 1]
OBVIOUS

\* A callback that reports makes the object right; another leaves it as it is.
LEMMA RunsReady ==
  ASSUME NEW o \in Objects, NEW s \in Seq(Frames), NEW n, NEW t,
         Len(o.hist) <= MaxHistory, ReadyKept(o, s), Runs(s, o, n, t)
  PROVE  ReadyKept(n, t)
<1> DEFINE f == Inner(s)
           g == Inner(t)
           fn == f.left[1]
           left == Tail(f.left)
<1>1. s # <<>> /\ f.left # <<>> /\ Reframes(s, t, f.stage, left) /\ n = Effect(o, fn, f)
  BY DEF Runs, Pops
<1>2. f \in Frames /\ fn \in Callbacks
  BY <1>1, InnerIs, PoppedIs
<1>3. /\ g.to = f.to /\ g.stage = f.stage /\ g.left = left
  BY <1>1 DEF Reframes
<1>4. f.left \in Seq(Callbacks)
  BY <1>2 DEF Frames
<1>5. /\ Len(left) = Len(f.left) - 1 /\ Len(f.left) \in Nat \ {0}
      /\ \A j \in 1..Len(left) : left[j] = f.left[j + 1]
  BY <1>1, <1>4, TailIs
<1>6. FrameReady(o, f, TRUE)
  <2>1. Len(s) \in 1..Len(s)
    BY <1>1, InnerIs
  <2>2. FrameReady(o, s[Len(s)], Len(s) = Len(s))
    BY <2>1, ReadyKeptIs
  <2>3. (Len(s) = Len(s)) = TRUE
    OBVIOUS
  <2> QED
    BY <2>2, <2>3 DEF Inner
<1> HIDE DEF f, g, left, fn
<1>7. /\ Effect(o, fn, f).phase = o.phase
      /\ fn \notin Signals => Effect(o, fn, f).conds = o.conds
      /\ fn = "ready" /\ HasCondition(Effect(o, fn, f).conds, "Ready") =>
           StatusOf(Effect(o, fn, f).conds, "Ready") = "True"
      /\ fn = "notready" /\ HasCondition(Effect(o, fn, f).conds, "Ready") =>
           StatusOf(Effect(o, fn, f).conds, "Ready") = "False"
  BY <1>2, EffectIs
<1>8. FrameReady(n, g, TRUE)
  <2> SUFFICES ASSUME f.stage = "enter"
               PROVE  (\A j \in 1..Len(left) : left[j] \notin Signals) /\ Right(n)
    BY <1>3 DEF FrameReady
  <2>1. \A j \in 1..Len(f.left) : f.left[j] \in Signals => j = 1 /\ ToReport(o, f)
    BY <1>6 DEF FrameReady
  <2>2. ASSUME NEW j \in 1..Len(left) PROVE left[j] \notin Signals
    <3>1. j + 1 \in 1..Len(f.left) /\ j + 1 # 1
      BY <1>5
    <3> QED
      BY <1>5, <2>1, <3>1
  <2>3. CASE fn \in Signals
    <3>1. ToReport(o, f)
      BY <1>5, <2>1, <2>3 DEF fn
    <3>2. f.to \in {"Running", "Failed"} /\ fn = SignalOf(f.to) /\ o.phase = f.to
      BY <3>1 DEF ToReport, fn
    <3>3. Right(n)
      BY <1>1, <1>7, <3>2 DEF Right, SignalOf
    <3> QED
      BY <2>2, <3>3
  <2>4. CASE fn \notin Signals
    <3>1. Right(o)
      <4>1. ToReport(o, f) => fn \in Signals
        BY DEF ToReport, SignalOf, Signals, fn
      <4> QED
        BY <1>6, <2>4, <4>1 DEF FrameReady
    <3>2. Right(n)
      BY <1>1, <1>7, <2>4, <3>1 DEF Right
    <3> QED
      BY <2>2, <3>2
  <2> QED
    BY <2>3, <2>4
<1> QED
  BY <1>1, <1>8, ReframedReady DEF g

\* A call nested in an enter callback leaves nothing to report behind.
LEMMA CallsReady ==
  ASSUME NEW m \in MachinesOf(Callbacks), NEW o \in Objects, NEW s \in Seq(Frames), NEW n, NEW t,
         ReadyKept(o, s), Calls(m, o, s, n, t)
  PROVE  ReadyKept(n, t)
<1>1. PICK to \in Phases, base \in Seq(Frames) :
        /\ AcceptedIn(m, o, to)
        /\ (s = <<>> /\ base = <<>>) \/ (Pops(s, base) /\ Inner(s).left[1] \in Phases)
        /\ t = Append(base, FrameOf(m, o, to))
  BY DEF Calls
<1> DEFINE g == FrameOf(m, o, to)
<1>2. g \in Frames /\ g.stage = "matched"
  BY <1>1, FrameIs DEF FrameOf
<1>3. ASSUME NEW i \in 1..Len(base) PROVE FrameReady(o, base[i], FALSE)
  <2>1. Pops(s, base) /\ Inner(s).left[1] \in Phases
    BY <1>1, <1>3
  <2> DEFINE f == Inner(s)
             left == Tail(f.left)
  <2>2. s # <<>> /\ f.left # <<>> /\ Reframes(s, base, f.stage, left)
    BY <2>1 DEF Pops
  <2>3. Len(s) \in Nat \ {0} /\ Len(base) = Len(s)
    BY <2>2, InnerIs DEF Reframes
  <2>4. CASE i # Len(s)
    <3>1. base[i] = s[i] /\ (i = Len(s)) = FALSE
      BY <1>3, <2>2, <2>3, <2>4 DEF Reframes
    <3>2. FrameReady(o, s[i], i = Len(s))
      BY <1>3, <2>3, ReadyKeptIs
    <3> QED
      BY <3>1, <3>2
  <2>5. CASE i = Len(s)
    <3>1. f.left \in Seq(Callbacks)
      <4>1. f \in Frames
        BY <2>2, InnerIs
      <4> QED
        BY <4>1 DEF Frames
    <3>2. /\ Len(left) = Len(f.left) - 1 /\ Len(f.left) \in Nat \ {0}
          /\ \A j \in 1..Len(left) : left[j] = f.left[j + 1]
      BY <2>2, <3>1, TailIs
    <3>3. f.stage = "enter" =>
            \A j \in 1..Len(f.left) : f.left[j] \in Signals => j = 1 /\ ToReport(o, f)
      <4>1. Len(s) \in 1..Len(s)
        BY <2>3
      <4> QED
        BY <4>1 DEF ReadyKept, Inner
    <3>4. base[i].stage = f.stage /\ base[i].left = left
      BY <2>2, <2>3, <2>5 DEF Reframes, Inner
    <3> HIDE DEF left, f
    <3>5. ASSUME f.stage = "enter", NEW j \in 1..Len(left) PROVE left[j] \notin Signals
      <4>1. j + 1 \in 1..Len(f.left) /\ j + 1 # 1
        BY <3>2
      <4> QED
        BY <3>2, <3>3, <3>5, <4>1
    <3> QED
      BY <3>4, <3>5 DEF FrameReady
  <2> QED
    BY <2>4, <2>5
<1>4. n = o
  BY DEF Calls
<1> HIDE DEF g
<1>5. t = Append(base, g)
  BY <1>1 DEF g
<1>6. /\ Len(t) = Len(base) + 1 /\ t[Len(t)] = g /\ t # <<>> /\ Len(base) \in Nat
      /\ \A i \in 1..Len(base) : t[i] = base[i]
  BY <1>2, <1>5
<1>7. ASSUME NEW i \in 1..Len(t) PROVE FrameReady(o, t[i], i = Len(t))
  <2>1. CASE i = Len(t)
    BY <1>2, <1>6, <2>1 DEF FrameReady
  <2>2. CASE i # Len(t)
    <3>1. i \in 1..Len(base) /\ (i = Len(t)) = FALSE
      BY <1>6, <2>2
    <3> QED
      BY <1>3, <1>6, <3>1
  <2> QED
    BY <2>1, <2>2
<1> QED
  BY <1>4, <1>6, <1>7, ReadyKeptIs

\* A phase is entered with its report first among the callbacks, if it has one.
LEMMA EntersReady ==
  ASSUME NEW m \in MachinesOf(Callbacks), Reports(m), NEW o \in Objects,
         NEW s \in Seq(Frames), NEW n, NEW t, ReadyKept(o, s), Enters(m, o, s, n, t)
  PROVE  ReadyKept(n, t)
<1> DEFINE f == Inner(s)
           g == Inner(t)
           left == m.onEnter[f.to]
<1>1. /\ s # <<>> /\ n = [o EXCEPT !.phase = f.to]
      /\ Reframes(s, t, "enter", left)
  BY DEF Enters
<1>2. f \in Frames
  BY <1>1, InnerIs
<1>3. f.to \in Phases /\ n.phase = f.to
  BY <1>1, <1>2 DEF Frames, Objects
<1>4. g.to = f.to /\ g.stage = "enter" /\ g.left = left
  BY <1>1 DEF Reframes
<1>5. /\ \A j \in 1..Len(left) : left[j] \in Signals =>
           j = 1 /\ f.to \in {"Running", "Failed"} /\ left[j] = SignalOf(f.to)
      /\ f.to \in {"Running", "Failed"} => left # <<>> /\ left[1] = SignalOf(f.to)
  BY <1>3 DEF Reports, SignalsFirst
<1>6. left \in Seq(Callbacks)
  BY <1>3, MachineIs
<1> HIDE DEF f, left, g
<1>7. f.to \in {"Running", "Failed"} => ToReport(n, g)
  BY <1>3, <1>4, <1>5 DEF ToReport
<1>8. f.to \notin {"Running", "Failed"} => Right(n)
  BY <1>3 DEF Right
<1>9. FrameReady(n, g, TRUE)
  BY <1>4, <1>5, <1>7, <1>8 DEF FrameReady
<1> QED
  BY <1>1, <1>9, ReframedReady DEF g

\* The innermost call of a worker returns when the object is right.
LEMMA ReturnsReady ==
  ASSUME NEW o, NEW s \in Seq(Frames), NEW n, NEW t, ReadyKept(o, s), Returns(o, s, n, t)
  PROVE  ReadyKept(n, t)
<1>1. /\ n = o /\ s # <<>> /\ Inner(s).stage = "enter" /\ Inner(s).left = <<>>
      /\ Len(t) = Len(s) - 1 /\ \A i \in 1..Len(t) : t[i] = s[i]
  BY DEF Returns
<1>2. Len(s) \in Nat \ {0}
  BY <1>1, InnerIs
<1>3. Right(o)
  <2>1. Right(o) \/ ToReport(o, Inner(s))
    <3>1. Len(s) \in 1..Len(s)
      BY <1>2
    <3> QED
      BY <1>1, <3>1 DEF ReadyKept, Inner
  <2> QED
    BY <1>1, <2>1 DEF ToReport
<1>4. ASSUME NEW i \in 1..Len(t) PROVE FrameReady(o, t[i], i = Len(t))
  <2>1. i \in 1..Len(s) /\ (i = Len(s)) = FALSE /\ t[i] = s[i]
    BY <1>1, <1>2
  <2>2. FrameReady(o, s[i], FALSE)
    BY <2>1, ReadyKeptIs
  <2> QED
    BY <1>3, <2>1, <2>2 DEF FrameReady
<1> QED
  BY <1>1, <1>3, <1>4, ReadyKeptIs

\* Between calls nothing but a new object comes in the way of Ready.
LEMMA RestsReady ==
  ASSUME ReadyIsReported, NEW m \in MachinesOf(Callbacks), Reports(m), NEW o \in Objects,
         NEW s, NEW n, NEW t, ReadyKept(o, s), Rests(m, o, s, n, t)
  PROVE  ReadyKept(n, t)
<1>1. s = <<>> /\ t = <<>>
  BY DEF Rests
<1>2. Right(o)
  BY <1>1 DEF ReadyKept
<1>3. SUFFICES Right(n)
  BY <1>1 DEF ReadyKept
<1>4. CASE n = [o EXCEPT !.phase = m.initial]
  <2>1. n.phase = m.initial
    BY <1>4 DEF Objects
  <2> QED
    BY <2>1 DEF Right, Reports
<1>5. CASE \E type \in Required, status \in Statuses :
             n = [o EXCEPT !.conds = Set(o.conds, type, status, 0)]
  <2>1. PICK type \in Required, status \in Statuses :
          n = [o EXCEPT !.conds = Set(o.conds, type, status, 0)]
    BY <1>5
  <2> DEFINE conds == Set(o.conds, type, status, 0)
  <2>2. type # "Ready" /\ type \in ConditionTypes /\ o.conds \in Seq(Condition)
    BY ConditionsAssumption DEF ReadyIsReported, Objects
  <2>3. /\ HasCondition(conds, "Ready") <=> HasCondition(o.conds, "Ready")
        /\ StatusOf(conds, "Ready") = StatusOf(o.conds, "Ready")
    BY <2>2, SetIs
  <2>4. n.conds = conds /\ n.phase = o.phase
    <3>1. n = [o EXCEPT !.conds = conds]
      BY <2>1
    <3> HIDE DEF conds
    <3> QED
      BY <3>1 DEF Objects
  <2> HIDE DEF conds
  <2> QED
    BY <1>2, <2>3, <2>4 DEF Right
<1>6. CASE n = [o EXCEPT !.hist = <<>>]
  <2>1. n.conds = o.conds /\ n.phase = o.phase
    BY <1>6 DEF Objects
  <2> QED
    BY <1>2, <2>1 DEF Right
<1>7. CASE n \in NewObjects
  BY <1>7, NewObjectIs DEF Right
<1> QED
  BY <1>4, <1>5, <1>6, <1>7 DEF Rests

LEMMA LocalStepReady ==
  ASSUME ReadyIsReported, NEW m \in MachinesOf(Callbacks), Reports(m), NEW o \in Objects,
         NEW s \in Seq(Frames), NEW n, NEW t, Len(o.hist) <= MaxHistory,
         ReadyKept(o, s), LocalStep(m, o, s, n, t)
  PROVE  ReadyKept(n, t)
<1>1. CASE Exits(m, o, s, n, t)
  <2>1. Reframes(s, t, "exit", m.onExit[Inner(s).from])
    BY <1>1 DEF Exits
  <2>2. FrameReady(n, Inner(t), TRUE)
    BY <2>1 DEF FrameReady, Reframes
  <2> QED
    BY <2>1, <2>2, ReframedReady
<1>2. CASE Hooks(m, o, s, n, t)
  <2>1. PICK hook \in {Inner(s).hook, RulesOf(m, Inner(s))[1].hook} : Reframes(s, t, "hook", hook)
    BY <1>2 DEF Hooks
  <2>2. FrameReady(n, Inner(t), TRUE)
    BY <2>1 DEF FrameReady, Reframes
  <2> QED
    BY <2>1, <2>2, ReframedReady
<1> QED
  BY <1>1, <1>2, CallsReady, RunsReady, EntersReady, ReturnsReady, RestsReady DEF LocalStep

\* A builder call that hangs no report on entering makes no machine report more.
LEMMA GrownReports ==
  ASSUME NEW m \in MachinesOf(Callbacks), NEW n, NEW new, Grown(m, n, Callbacks, new),
         new \cap Signals = {}
  PROVE  (Claims(n) => Claims(m)) /\ (Reports(m) => Reports(n))
<1>1. /\ "Failed" \in Phases /\ "Running" \in Phases
      /\ "ready" \in Signals /\ "notready" \in Signals
  BY PhasesAssumption DEF Signals
<1>2. ASSUME NEW p \in Phases
      PROVE  /\ Len(n.onEnter[p]) \in Nat
             /\ \A i \in 1..Len(n.onEnter[p]) : n.onEnter[p][i] \in Signals =>
                  i \in 1..Len(m.onEnter[p]) /\ n.onEnter[p][i] = m.onEnter[p][i]
             /\ m.onEnter[p] # <<>> => n.onEnter[p] # <<>> /\ n.onEnter[p][1] = m.onEnter[p][1]
  <2> DEFINE old == m.onEnter[p]
  <2>1. old \in Seq(Callbacks)
    BY MachineIs
  <2>2. n.onEnter[p] = old \/ \E fn \in new : n.onEnter[p] = Append(old, fn)
    BY DEF Grown
  <2> HIDE DEF old
  <2>3. CASE n.onEnter[p] = old
    BY <2>1, <2>3 DEF old
  <2>4. CASE \E fn \in new : n.onEnter[p] = Append(old, fn)
    <3>1. PICK fn \in new : n.onEnter[p] = Append(old, fn)
      BY <2>4
    <3>2. fn \notin Signals
      OBVIOUS
    <3>3. /\ Len(Append(old, fn)) = Len(old) + 1 /\ Len(old) \in Nat
          /\ Append(old, fn)[Len(old) + 1] = fn /\ Append(old, fn) # <<>>
          /\ \A i \in 1..Len(old) : Append(old, fn)[i] = old[i]
          /\ old # <<>> => 1 \in 1..Len(old)
      BY <2>1
    <3> QED
      BY <3>1, <3>2, <3>3 DEF old
  <2> QED
    BY <2>2, <2>3, <2>4
<1>3. Claims(n) => Claims(m)
  <2> SUFFICES ASSUME Claims(n) PROVE Claims(m)
    OBVIOUS
  <2>1. PICK i \in 1..Len(n.onEnter["Failed"]) : n.onEnter["Failed"][i] = "notready"
    BY DEF Claims, Contains
  <2>2. i \in 1..Len(m.onEnter["Failed"]) /\ m.onEnter["Failed"][i] = "notready"
    BY <1>1, <1>2, <2>1
  <2> QED
    BY <2>2 DEF Claims, Contains
<1>4. SignalsFirst(m) => SignalsFirst(n)
  BY <1>2 DEF SignalsFirst
<1>5. n.initial = m.initial
  BY DEF Grown
<1>6. ASSUME Reports(m), NEW p \in {"Running", "Failed"}
      PROVE  n.onEnter[p] # <<>> /\ n.onEnter[p][1] = SignalOf(p)
  <2>1. p \in Phases /\ m.onEnter[p] # <<>> /\ m.onEnter[p][1] = SignalOf(p)
    BY <1>1, <1>6 DEF Reports
  <2> QED
    BY <1>2, <2>1
<1>7. Reports(m) => Reports(n)
  BY <1>4, <1>5, <1>6 DEF Reports
<1> QED
  BY <1>3, <1>7

LEMMA ReadyInit == ReportsFirst /\ Init => ReadyHolds
<1> SUFFICES ASSUME ReportsFirst, Init, Claims(sm)
             PROVE  Reports(sm) /\ \A w \in Workers : ReadyKept(obj[w], stack[w])
  BY DEF ReadyHolds
<1>1. Reports(sm)
  BY DEF ReportsFirst, Init
<1>2. ASSUME NEW w \in Workers PROVE ReadyKept(obj[w], stack[w])
  <2>1. obj[w].phase = "" /\ stack[w] = <<>>
    BY NewObjectIs DEF Init
  <2>2. Right(obj[w])
    BY <2>1 DEF Right
  <2>3. ReadyKept(obj[w], <<>>)
    BY <2>2 DEF ReadyKept
  <2> QED
    BY <2>1, <2>3
<1> QED
  BY <1>1, <1>2

LEMMA ReadyNext ==
  ReportsFirst /\ ReadyIsReported /\ Typed /\ ReadyHolds /\ [Next]_vars => ReadyHolds'
<1> SUFFICES ASSUME ReportsFirst, ReadyIsReported, Typed, ReadyHolds, [Next]_vars
             PROVE  ReadyHolds'
  OBVIOUS
<1>1. CASE \E c \in LateCalls : BuilderCall(c)
  <2>1. PICK c \in LateCalls : BuilderCall(c)
    BY <1>1
  <2> DEFINE new == IF c.op = "OnEnter" THEN {c.fn} ELSE {}
  <2>2. c.fn \in Callbacks /\ new \cap Signals = {}
    BY LateCallsAssumption DEF ReportsFirst
  <2>3. Grown(sm, sm', Callbacks, new) /\ obj' = obj /\ stack' = stack
    BY <2>1, <2>2, BuilderCallGrows DEF Typed
  <2> HIDE DEF new
  <2>4. (Claims(sm') => Claims(sm)) /\ (Reports(sm) => Reports(sm'))
    BY <2>2, <2>3, GrownReports DEF Typed
  <2> QED
    BY <2>3, <2>4 DEF ReadyHolds
<1>2. CASE \E w \in Workers : WorkerStep(w)
  <2>1. PICK w \in Workers : WorkerStep(w)
    BY <1>2
  <2>2. Local(w)
    BY <2>1, WorkerStepIsLocal
  <2>3. sm' = sm
    BY <2>2 DEF Local, Alone
  <2> SUFFICES ASSUME Claims(sm)
               PROVE  Reports(sm) /\ \A v \in Workers : ReadyKept(obj'[v], stack'[v])
    BY <2>3 DEF ReadyHolds
  <2>4. Reports(sm) /\ \A v \in Workers : ReadyKept(obj[v], stack[v])
    BY DEF ReadyHolds
  <2>5. ReadyKept(obj'[w], stack'[w])
    BY <2>2, <2>4, LocalStepReady DEF Typed, Local, Bounded
  <2>6. ASSUME NEW v \in Workers PROVE ReadyKept(obj'[v], stack'[v])
    <3>1. CASE v = w
      BY <2>5, <3>1
    <3>2. CASE v # w
      BY <2>2, <2>4, <3>2 DEF Typed, Local, Alone
    <3> QED
      BY <3>1, <3>2
  <2> QED
    BY <2>4, <2>6
<1>3. CASE UNCHANGED vars
  BY <1>3 DEF ReadyHolds, vars
<1> QED
  BY <1>1, <1>2, <1>3, NextIs

(***************************************************************************)
(* An object of a machine that reports as CommonStateMachine does is, when *)
(* no call is in progress and whenever a phase has been entered and        *)
(* reported, Ready if Running and not Ready if Failed; a call nested in    *)
(* an enter callback, a retry for one, comes after the report.             *)
(***************************************************************************)
THEOREM ReadyInvariance ==
  ASSUME ReportsFirst, ReadyIsReported PROVE Spec => [](Typed /\ ReadyHolds)
<1>1. Init => ReadyHolds
  BY ReadyInit
<1>2. Typed /\ ReadyHolds /\ [Next]_vars => ReadyHolds'
  BY ReadyNext
<1> QED
  BY <1>1, <1>2, TypedInit, TypedNext, PTL DEF Spec

(***************************************************************************)
(* Between the calls of Transition, Ready follows the phase, when the      *)
(* machines and the builder calls report as CommonStateMachine does and    *)
(* nobody else writes Ready.                                               *)
(***************************************************************************)
THEOREM ReadyFollowsPhaseCorrect ==
  ASSUME ReportsFirst, ReadyIsReported PROVE Spec => []ReadyFollowsPhase
<1>1. ASSUME ReadyHolds PROVE ReadyFollowsPhase
  BY <1>1 DEF ReadyHolds, ReadyKept, ReadyFollowsPhase, Idle, Claims, Right
<1> QED
  BY <1>1, ReadyInvariance, PTL
=============================================================================
