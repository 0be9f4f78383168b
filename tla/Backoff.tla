------------------------------ MODULE Backoff -------------------------------
(***************************************************************************)
(* Backoff strategies and the tracker: src/pkg/streamline/backoff.go.  A   *)
(* strategy is a record; jitter is in percent, cap is that of a wrapping   *)
(* WithMaxAttempts, or 0.  A delay is a number of ticks, with jitter one   *)
(* of several.  The tracker's entries are a function of the keys that      *)
(* have one; age is the time since lastAccess.                             *)
(***************************************************************************)
EXTENDS Integers, FiniteSetsExt, Functions

ConstantBackoff(interval) ==
  [kind |-> "constant", initial |-> interval, step |-> 0, max |-> interval,
   jitter |-> 0, cap |-> 0, limited |-> FALSE]

NoBackoff == ConstantBackoff(0)

LinearBackoff(initial, increment, max) ==
  [ConstantBackoff(initial) EXCEPT !.kind = "linear", !.step = increment, !.max = max]

\* limited: MaxElapsedTime is set.
ExponentialBackoff(initial, multiplier, max, limited) ==
  [LinearBackoff(initial, multiplier, max) EXCEPT !.kind = "exponential", !.limited = limited]

WithMaxAttempts(s, cap) == [s EXCEPT !.cap = cap]
WithJitter(s, percent) == [s EXCEPT !.jitter = percent]

\* What these build: a constant interval is its own maximum.
Strategies ==
  {s \in [kind : {"constant", "linear", "exponential"}, initial : Nat, step : Nat, max : Nat,
          jitter : 0..100, cap : Nat, limited : BOOLEAN] :
     s.kind = "constant" => s.initial = s.max}

\* Rounded outwards: a tick is many of the code's nanoseconds.
Jittered(interval, percent) ==
  (interval * (100 - percent)) \div 100 .. (interval * (100 + percent) + 99) \div 100

Power(base, n) ==
  LET power[m \in 0..n] == IF m = 0 THEN 1 ELSE base * power[m - 1] IN power[n]

Interval(s, attempt) ==
  CASE s.kind = "constant" -> s.initial
    [] s.kind = "linear" -> Min({s.initial + (attempt - 1) * s.step, s.max})
    [] s.kind = "exponential" -> Min({s.initial * Power(s.step, attempt - 1), s.max})

\* The delays there may be; elapsed: MaxElapsedTime is over.  0 is meant as "stop".
NextBackoff(s, attempt, elapsed) ==
  IF s.cap > 0 /\ attempt > s.cap THEN {0}
  ELSE IF s.limited /\ elapsed THEN {0}
  ELSE Jittered(Interval(s, attempt), s.jitter)

MaxDelay(s) == Max(Jittered(s.max, s.jitter))

-----------------------------------------------------------------------------
GetAttempts(entries, key) == IF key \in DOMAIN entries THEN entries[key].attempts ELSE 0

\* Mutant: an entry that exists is not touched.
RecordFailureUntouched(entries, key) ==
  LET age == IF key \in DOMAIN entries THEN entries[key].age ELSE 0
  IN [k \in DOMAIN entries \cup {key} |->
        IF k = key THEN [attempts |-> GetAttempts(entries, key) + 1, age |-> age]
                   ELSE entries[k]]

\* With getOrCreate, which touches the entry.
RecordFailure(entries, key) ==
  [k \in DOMAIN entries \cup {key} |->
     IF k = key THEN [attempts |-> GetAttempts(entries, key) + 1, age |-> 0] ELSE entries[k]]

RecordSuccess(entries, key) ==
  [k \in DOMAIN entries |-> IF k = key THEN [entries[k] EXCEPT !.attempts = 0] ELSE entries[k]]

GetBackoff(entries, key, s, elapsed) ==
  IF GetAttempts(entries, key) = 0 THEN {0}
  ELSE NextBackoff(s, GetAttempts(entries, key), elapsed)

\* Reset of one key, or ResetAll.
ResetKeys(entries, keys) == Restrict(entries, DOMAIN entries \ keys)

Cleanup(entries, maxAge) == Restrict(entries, {k \in DOMAIN entries : entries[k].age <= maxAge})
=============================================================================
