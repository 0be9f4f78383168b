----------------------------- MODULE Conditions -----------------------------
(***************************************************************************)
(* The condition list of an object, the helper that edits it, and the      *)
(* tracker of transitions: src/pkg/streamline/conditions.go.  A list is a  *)
(* sequence of records; reason, message and observedGeneration decide      *)
(* nothing here and are left out.  A time is what the caller calls now.    *)
(***************************************************************************)
EXTENDS Integers, SequencesExt

CONSTANT ConditionTypes

Statuses == {"True", "False", "Unknown"}

Condition == [type : ConditionTypes, status : Statuses, time : Nat]

\* No type has two conditions.
Unique(conds) == \A i, j \in DOMAIN conds : conds[i].type = conds[j].type => i = j

\* The zero time.
NoTime == -1

\* The index of the first condition of type t, 0 if there is none.
Get(conds, t) == SelectInSeq(conds, LAMBDA c : c.type = t)

HasCondition(conds, t) == Get(conds, t) # 0

\* The status of an absent condition is Unknown: IsTrue, IsFalse, IsUnknown.
StatusOf(conds, t) ==
  IF HasCondition(conds, t) THEN conds[Get(conds, t)].status ELSE "Unknown"

LastTransitionTime(conds, t) ==
  IF HasCondition(conds, t) THEN conds[Get(conds, t)].time ELSE NoTime

\* Mutant: a changed condition is added, not replaced.
SetAppending(conds, t, status, now) ==
  IF StatusOf(conds, t) = status /\ HasCondition(conds, t) THEN conds
  ELSE <<[type |-> t, status |-> status, time |-> now]>> \o conds

\* Set, and the setters that call it.
Set(conds, t, status, now) ==
  LET new == [type |-> t, status |-> status, time |-> now] IN
  IF HasCondition(conds, t)
  THEN [conds EXCEPT ![Get(conds, t)] = IF @.status = status THEN @ ELSE new]
  ELSE Append(conds, new)

\* Remove keeps what has another type; of one type a list never has two, see Unique.
RemoveCondition(conds, t) == RemoveFirstMatch(conds, LAMBDA c : c.type = t)

SummaryCondition(conds, required) ==
  IF \E t \in required : StatusOf(conds, t) = "False" THEN "False"
  ELSE IF \A t \in required : StatusOf(conds, t) = "True" THEN "True"
  ELSE "Unknown"

\* Mutant: a condition that is taken away is no transition.
TrackSets(last, old, new, now) ==
  IF new = "Unknown" \/ old = new THEN last ELSE [old |-> old, new |-> new, time |-> now]

\* The newest transition of a type, of those the tracker keeps.
Track(last, old, new, now) ==
  IF old = new THEN last ELSE [old |-> old, new |-> new, time |-> now]
=============================================================================
