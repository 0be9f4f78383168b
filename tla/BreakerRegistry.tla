--------------------------- MODULE BreakerRegistry ---------------------------
(***************************************************************************)
(* circuitBreakerRegistry of src/pkg/streamline/circuitbreaker.go and the  *)
(* middleware that calls through it: goroutines look breakers up by name,  *)
(* operators remove them and reset them all, and a caller goes on using    *)
(* the breaker it was given.                                               *)
(*                                                                         *)
(* A breaker is its identity here, numbered in order of creation; what it  *)
(* does with a call is module CircuitBreaker.  List and States only read.  *)
(***************************************************************************)
EXTENDS Naturals

CONSTANTS
  Names,        \* the names breakers are asked for by
  Callers,      \* the goroutines that call Get, GetWithConfig or Wrap
  Sweepers,     \* the goroutines that call Reset
  MaxBreakers   \* bound: breakers created in a behaviour

ASSUME BoundAssumption == MaxBreakers \in Nat

VARIABLES
  breakers,   \* the map: name to breaker, 0 where there is none
  created,    \* breakers created so far
  pc,         \* per caller: "out", "missed" (between Get's two locks), "using"
  name,       \* per caller: the name it asked for
  handle,     \* per caller: the breaker it was given, 0 until then
  pending,    \* per sweeper: the breakers its loop has still to reset
  sweeping,   \* the sweepers inside Reset, which hold the lock shared
  swept,      \* history: what each sweeper has reset in this Reset
  dropped     \* history: the breakers that were removed

vars == <<breakers, created, pc, name, handle, pending, sweeping, swept, dropped>>

Init ==
  /\ breakers = [n \in Names |-> 0] /\ created = 0
  /\ pc = [c \in Callers |-> "out"]
  /\ name \in [Callers -> Names]
  /\ handle = [c \in Callers |-> 0]
  /\ pending = [s \in Sweepers |-> {}] /\ swept = [s \in Sweepers |-> {}]
  /\ sweeping = {} /\ dropped = {}

\* Mutant: Reset does not hold the lock.
ExclusiveUnchecked == TRUE

\* r.mu.Lock(): nobody is inside Reset, the only section that is not one step.
Exclusive == sweeping = {}

Give(c, n, b) ==
  /\ pc' = [pc EXCEPT ![c] = "using"]
  /\ name' = [name EXCEPT ![c] = n]
  /\ handle' = [handle EXCEPT ![c] = b]

\* Mutant: a missing breaker is created without looking again.
CreateBlindly(c, n) ==
  /\ created < MaxBreakers
  /\ created' = created + 1
  /\ breakers' = [breakers EXCEPT ![n] = created']
  /\ Give(c, n, created')

\* Mutant: the breaker that was just created is stored, and nil returned.
CreateAndForget(c, n) ==
  \/ /\ breakers[n] # 0
     /\ Give(c, n, breakers[n])
     /\ UNCHANGED <<breakers, created>>
  \/ /\ breakers[n] = 0 /\ created < MaxBreakers
     /\ created' = created + 1
     /\ breakers' = [breakers EXCEPT ![n] = created']
     /\ Give(c, n, 0)

\* Under the exclusive lock: look (again), and create what is still missing.
GetOrCreate(c, n) ==
  \/ /\ breakers[n] # 0
     /\ Give(c, n, breakers[n])
     /\ UNCHANGED <<breakers, created>>
  \/ /\ breakers[n] = 0 /\ created < MaxBreakers
     /\ created' = created + 1
     /\ breakers' = [breakers EXCEPT ![n] = created']
     /\ Give(c, n, created')

\* Get, under the shared lock.
Look(c, n) ==
  /\ pc[c] = "out"
  /\ \/ breakers[n] # 0 /\ Give(c, n, breakers[n])
     \/ /\ breakers[n] = 0
        /\ pc' = [pc EXCEPT ![c] = "missed"]
        /\ name' = [name EXCEPT ![c] = n]
        /\ UNCHANGED handle
  /\ UNCHANGED <<breakers, created, pending, sweeping, swept, dropped>>

\* Get, after it has taken the lock again exclusively.
LookAgain(c) ==
  /\ pc[c] = "missed" /\ Exclusive
  /\ GetOrCreate(c, name[c])
  /\ UNCHANGED <<pending, sweeping, swept, dropped>>

\* The configuration only matters to a breaker that is created here.
GetWithConfig(c, n) ==
  /\ pc[c] = "out" /\ Exclusive
  /\ GetOrCreate(c, n)
  /\ UNCHANGED <<pending, sweeping, swept, dropped>>

\* The caller is through with the breaker.
Done(c) ==
  /\ pc[c] = "using"
  /\ pc' = [pc EXCEPT ![c] = "out"]
  /\ handle' = [handle EXCEPT ![c] = 0]
  /\ UNCHANGED <<breakers, created, name, pending, sweeping, swept, dropped>>

Remove(n) ==
  /\ Exclusive
  /\ breakers[n] # 0
  /\ breakers' = [breakers EXCEPT ![n] = 0]
  /\ dropped' = dropped \cup {breakers[n]}
  /\ UNCHANGED <<created, pc, name, handle, pending, sweeping, swept>>

Registered == {breakers[n] : n \in Names} \ {0}

\* Reset takes the lock shared and walks the map.
ResetBegin(s) ==
  /\ s \notin sweeping
  /\ sweeping' = sweeping \cup {s}
  /\ pending' = [pending EXCEPT ![s] = Registered]
  /\ swept' = [swept EXCEPT ![s] = {}]
  /\ UNCHANGED <<breakers, created, pc, name, handle, dropped>>

ResetOne(s) ==
  /\ s \in sweeping
  /\ \E b \in pending[s] :
       /\ pending' = [pending EXCEPT ![s] = @ \ {b}]
       /\ swept' = [swept EXCEPT ![s] = @ \cup {b}]
  /\ UNCHANGED <<breakers, created, pc, name, handle, sweeping, dropped>>

ResetEnd(s) ==
  /\ s \in sweeping /\ pending[s] = {}
  /\ sweeping' = sweeping \ {s}
  /\ UNCHANGED <<breakers, created, pc, name, handle, pending, swept, dropped>>

Next ==
  \/ \E c \in Callers : \/ LookAgain(c) \/ Done(c)
                        \/ \E n \in Names : Look(c, n) \/ GetWithConfig(c, n)
  \/ \E n \in Names : Remove(n)
  \/ \E s \in Sweepers : ResetBegin(s) \/ ResetOne(s) \/ ResetEnd(s)

Spec == Init /\ [][Next]_vars

-----------------------------------------------------------------------------
TypeOK ==
  /\ breakers \in [Names -> Nat] /\ created \in Nat
  /\ pc \in [Callers -> {"out", "missed", "using"}]
  /\ name \in [Callers -> Names] /\ handle \in [Callers -> Nat]
  /\ pending \in [Sweepers -> SUBSET Nat] /\ swept \in [Sweepers -> SUBSET Nat]
  /\ sweeping \subseteq Sweepers /\ dropped \subseteq Nat
  /\ \A c \in Callers : pc[c] = "using" => handle[c] # 0   \* never nil

\* A caller's breaker is the one its name stands for, for everybody, until somebody
\* removes it: two goroutines that miss at once do not end up with one each, which
\* would count the failures of one dependency apart.
NeverForked ==
  \A c \in Callers :
    pc[c] = "using" => handle[c] \in {breakers[name[c]]} \cup dropped

\* "Reset resets all circuit breakers": when its loop is through, every breaker that
\* is in the map has been reset by it - none was added behind its back.
ResetReachesAll ==
  \A s \in sweeping : pending[s] = {} => Registered \subseteq swept[s]
=============================================================================
