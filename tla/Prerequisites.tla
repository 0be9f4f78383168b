--------------------------- MODULE Prerequisites ----------------------------
(***************************************************************************)
(* The prerequisites of src/pkg/streamline/prerequisites.go.  A result is  *)
(* whether the prerequisite is satisfied and RetryAfter, 0 for none; names *)
(* and messages are left out.  An object is                                *)
(*   [exists, keys, conditional, conds]: keys in Data or BinaryData,       *)
(*   conditional if it implements ObjectWithConditions; the time of a      *)
(*   condition is its age.                                                 *)
(***************************************************************************)
EXTENDS Conditions

Results == [satisfied : BOOLEAN, retryAfter : Nat]

Satisfied == [satisfied |-> TRUE, retryAfter |-> 0]
Unsatisfied(after) == [satisfied |-> FALSE, retryAfter |-> after]
SatisfiedIf(holds) == IF holds THEN Satisfied ELSE Unsatisfied(0)

ResourceExists(o) == SatisfiedIf(o.exists)
SecretExists(o) == SatisfiedIf(o.exists)
ConfigMapExists(o) == SatisfiedIf(o.exists)

\* Without a Ready condition, existing is enough.
ResourceReady(o) ==
  SatisfiedIf(/\ o.exists
              /\ o.conditional /\ HasCondition(o.conds, "Ready") =>
                   StatusOf(o.conds, "Ready") = "True")

ConditionTrue(o, t) ==
  SatisfiedIf(o.exists /\ o.conditional /\ StatusOf(o.conds, t) = "True")

SecretHasKey(o) == SatisfiedIf(o.exists /\ "data" \in o.keys)
ConfigMapHasKey(o) == SatisfiedIf(o.exists /\ o.keys # {})

\* since: how long ago the timestamp is, NoTime if there is none.
TimeSince(since, minElapsed) ==
  IF since = NoTime THEN Unsatisfied(0)
  ELSE IF since >= minElapsed THEN Satisfied
  ELSE Unsatisfied(minElapsed - since)

Kinds == {"exists", "secret", "configMap", "ready", "condition", "secretKey",
          "configMapKey", "since"}

\* A prerequisite p = [kind, on, type, minElapsed] of the object o.
Check(p, o) ==
  CASE p.kind = "exists" -> ResourceExists(o)
    [] p.kind = "secret" -> SecretExists(o)
    [] p.kind = "configMap" -> ConfigMapExists(o)
    [] p.kind = "ready" -> ResourceReady(o)
    [] p.kind = "condition" -> ConditionTrue(o, p.type)
    [] p.kind = "secretKey" -> SecretHasKey(o)
    [] p.kind = "configMapKey" -> ConfigMapHasKey(o)
    [] p.kind = "since" -> TimeSince(LastTransitionTime(o.conds, "Ready"), p.minElapsed)

Failing(results) == {r \in ToSet(results) : ~r.satisfied}
Delays(results) == {r.retryAfter : r \in Failing(results)}

AllOf(results) ==
  IF Failing(results) = {} THEN Satisfied ELSE Unsatisfied(Max(Delays(results)))

\* Mutant: an alternative that fails counts although another holds.
AnyOfEach(results) == AllOf(results)

\* The shortest delay, of those that have one.
AnyOf(results) ==
  IF \E r \in ToSet(results) : r.satisfied THEN Satisfied
  ELSE Unsatisfied(IF Delays(results) \subseteq {0} THEN 0 ELSE Min(Delays(results) \ {0}))

\* Mutant: the first to pass is worth a try.
GetRetryAfterShortest(results, defaultRetry) ==
  Min({IF d = 0 THEN defaultRetry ELSE d : d \in Delays(results)} \cup
      (IF Failing(results) = {} THEN {defaultRetry} ELSE {}))

\* CheckAll's answer, and GetRetryAfter for it.
AllSatisfied(results) == Failing(results) = {}

GetRetryAfter(results, defaultRetry) ==
  Max({IF d = 0 THEN defaultRetry ELSE d : d \in Delays(results)} \cup
      (IF Failing(results) = {} THEN {defaultRetry} ELSE {}))
=============================================================================
