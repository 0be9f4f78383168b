------------------------ MODULE BreakerRegistryProofs ------------------------
(***************************************************************************)
(* Proofs about BreakerRegistry, for any names, callers and sweepers.      *)
(***************************************************************************)
EXTENDS BreakerRegistry, TLAPS

(***************************************************************************)
(* ResetReachesAll is not inductive: between ResetBegin and the end of the *)
(* loop what is registered is what is still pending or has been reset.     *)
(***************************************************************************)
SweepCovers == \A s \in sweeping : Registered \subseteq pending[s] \cup swept[s]

IInv == TypeOK /\ NeverForked /\ SweepCovers

LEMMA InitIInv == Init => IInv
  BY DEF Init, IInv, TypeOK, NeverForked, SweepCovers

\* What a caller is given is what its name stands for, and the map loses nothing.
LEMMA GetOrCreateGives ==
  ASSUME TypeOK, NEW c \in Callers, NEW n \in Names, GetOrCreate(c, n)
  PROVE  /\ breakers' \in [Names -> Nat] /\ created' \in Nat
         /\ Give(c, n, breakers'[n]) /\ breakers'[n] # 0
         /\ \A m \in Names : breakers[m] # 0 => breakers'[m] = breakers[m]
<1>1. CASE breakers[n] # 0
  BY <1>1 DEF GetOrCreate, TypeOK
<1>2. CASE breakers[n] = 0
  <2>1. /\ created' = created + 1 /\ Give(c, n, created')
        /\ breakers' = [breakers EXCEPT ![n] = created']
    BY <1>2 DEF GetOrCreate
  <2>2. created' \in Nat /\ created' # 0
    BY <2>1 DEF TypeOK
  <2>3. QED BY <1>2, <2>1, <2>2 DEF TypeOK
<1>3. QED BY <1>1, <1>2

\* A caller that is given what its name stands for forks nothing.
LEMMA GiveKeeps ==
  ASSUME TypeOK, NeverForked, NEW c \in Callers, NEW n \in Names,
         breakers' \in [Names -> Nat], breakers'[n] # 0,
         Give(c, n, breakers'[n]), UNCHANGED dropped,
         \A m \in Names : breakers[m] # 0 => breakers'[m] = breakers[m]
  PROVE  /\ pc' \in [Callers -> {"out", "missed", "using"}]
         /\ name' \in [Callers -> Names] /\ handle' \in [Callers -> Nat]
         /\ \A d \in Callers : pc'[d] = "using" => handle'[d] # 0
         /\ NeverForked'
<1>1. /\ pc' = [pc EXCEPT ![c] = "using"]
      /\ name' = [name EXCEPT ![c] = n]
      /\ handle' = [handle EXCEPT ![c] = breakers'[n]]
  BY DEF Give
<1>2. /\ pc' \in [Callers -> {"out", "missed", "using"}]
      /\ name' \in [Callers -> Names] /\ handle' \in [Callers -> Nat]
  BY <1>1 DEF TypeOK
<1>3. ASSUME NEW d \in Callers, pc'[d] = "using"
      PROVE  handle'[d] # 0 /\ handle'[d] \in {breakers'[name'[d]]} \cup dropped'
  <2>1. CASE d = c
    BY <1>1, <2>1 DEF TypeOK
  <2>2. CASE d # c
    <3>1. /\ pc[d] = "using" /\ handle'[d] = handle[d] /\ name'[d] = name[d]
      BY <1>1, <1>3, <2>2 DEF TypeOK
    <3>2. handle[d] # 0 /\ name[d] \in Names
      BY <3>1 DEF TypeOK
    <3>3. handle[d] \in {breakers[name[d]]} \cup dropped
      BY <3>1 DEF NeverForked
    <3>4. QED BY <3>1, <3>2, <3>3
  <2>3. QED BY <2>1, <2>2
<1>4. QED BY <1>2, <1>3 DEF NeverForked

\* The exclusive sections of Get and GetWithConfig.
LEMMA CreateKeepsIInv ==
  ASSUME IInv, NEW c \in Callers, NEW n \in Names, GetOrCreate(c, n), Exclusive,
         UNCHANGED <<pending, sweeping, swept, dropped>>
  PROVE  IInv'
<1>1. /\ breakers' \in [Names -> Nat] /\ created' \in Nat
      /\ Give(c, n, breakers'[n]) /\ breakers'[n] # 0
      /\ \A m \in Names : breakers[m] # 0 => breakers'[m] = breakers[m]
  BY GetOrCreateGives DEF IInv
<1>2. /\ pc' \in [Callers -> {"out", "missed", "using"}]
      /\ name' \in [Callers -> Names] /\ handle' \in [Callers -> Nat]
      /\ \A d \in Callers : pc'[d] = "using" => handle'[d] # 0
      /\ NeverForked'
  BY <1>1, GiveKeeps DEF IInv
<1>3. TypeOK'
  BY <1>1, <1>2 DEF IInv, TypeOK
<1>4. SweepCovers'
  BY DEF SweepCovers, Exclusive
<1>5. QED BY <1>2, <1>3, <1>4 DEF IInv

LEMMA LookKeepsIInv ==
  ASSUME IInv, NEW c \in Callers, NEW n \in Names, Look(c, n)
  PROVE  IInv'
<1>1. UNCHANGED <<breakers, created, pending, sweeping, swept, dropped>>
  BY DEF Look
<1>2. SweepCovers'
  BY <1>1 DEF IInv, SweepCovers, Registered
<1>3. CASE breakers[n] # 0
  <2>1. Give(c, n, breakers'[n]) /\ breakers' \in [Names -> Nat]
    BY <1>1, <1>3 DEF Look, IInv, TypeOK
  <2>2. /\ pc' \in [Callers -> {"out", "missed", "using"}]
        /\ name' \in [Callers -> Names] /\ handle' \in [Callers -> Nat]
        /\ \A d \in Callers : pc'[d] = "using" => handle'[d] # 0
        /\ NeverForked'
    BY <1>1, <1>3, <2>1, GiveKeeps DEF IInv
  <2>3. QED BY <1>1, <1>2, <2>2 DEF IInv, TypeOK
<1>4. CASE breakers[n] = 0
  <2>1. /\ pc' = [pc EXCEPT ![c] = "missed"] /\ name' = [name EXCEPT ![c] = n]
        /\ handle' = handle
    BY <1>4 DEF Look
  <2>2. \A d \in Callers : pc'[d] = "using" =>
          pc[d] = "using" /\ name'[d] = name[d] /\ handle'[d] = handle[d]
    BY <2>1 DEF IInv, TypeOK
  <2>3. TypeOK'
    BY <1>1, <2>1, <2>2 DEF IInv, TypeOK
  <2>4. NeverForked'
    BY <1>1, <2>2 DEF IInv, NeverForked
  <2>5. QED BY <1>2, <2>3, <2>4 DEF IInv
<1>5. QED BY <1>3, <1>4

LEMMA DoneKeepsIInv ==
  ASSUME IInv, NEW c \in Callers, Done(c)
  PROVE  IInv'
<1>1. /\ UNCHANGED <<breakers, created, name, pending, sweeping, swept, dropped>>
      /\ pc' = [pc EXCEPT ![c] = "out"] /\ handle' = [handle EXCEPT ![c] = 0]
  BY DEF Done
<1>2. \A d \in Callers : pc'[d] = "using" =>
        pc[d] = "using" /\ handle'[d] = handle[d]
  BY <1>1 DEF IInv, TypeOK
<1>3. TypeOK'
  BY <1>1, <1>2 DEF IInv, TypeOK
<1>4. NeverForked'
  BY <1>1, <1>2 DEF IInv, NeverForked
<1>5. SweepCovers'
  BY <1>1 DEF IInv, SweepCovers, Registered
<1>6. QED BY <1>3, <1>4, <1>5 DEF IInv

LEMMA RemoveKeepsIInv ==
  ASSUME IInv, NEW n \in Names, Remove(n)
  PROVE  IInv'
<1>1. /\ UNCHANGED <<created, pc, name, handle, pending, sweeping, swept>>
      /\ breakers' = [breakers EXCEPT ![n] = 0]
      /\ dropped' = dropped \cup {breakers[n]}
      /\ Exclusive
  BY DEF Remove
<1>2. TypeOK'
  BY <1>1 DEF IInv, TypeOK
<1>3. NeverForked'
  <2>1. SUFFICES ASSUME NEW c \in Callers, pc'[c] = "using"
                 PROVE  handle'[c] \in {breakers'[name'[c]]} \cup dropped'
    BY DEF NeverForked
  <2>2. handle[c] \in {breakers[name[c]]} \cup dropped /\ name[c] \in Names
    BY <1>1, <2>1 DEF IInv, NeverForked, TypeOK
  <2>3. CASE name[c] = n
    BY <1>1, <2>2, <2>3
  <2>4. CASE name[c] # n
    BY <1>1, <2>2, <2>4 DEF IInv, TypeOK
  <2>5. QED BY <2>3, <2>4
<1>4. SweepCovers'
  BY <1>1 DEF SweepCovers, Exclusive
<1>5. QED BY <1>2, <1>3, <1>4 DEF IInv

LEMMA ResetKeepsIInv ==
  ASSUME IInv, NEW s \in Sweepers, ResetBegin(s) \/ ResetOne(s) \/ ResetEnd(s)
  PROVE  IInv'
<1>1. UNCHANGED <<breakers, created, pc, name, handle, dropped>>
  BY DEF ResetBegin, ResetOne, ResetEnd
<1>2. NeverForked' /\ Registered' = Registered
  BY <1>1 DEF IInv, NeverForked, Registered
<1>3. Registered \subseteq Nat
  BY DEF IInv, TypeOK, Registered
<1>4. CASE ResetBegin(s)
  <2>1. TypeOK'
    BY <1>1, <1>3, <1>4 DEF ResetBegin, IInv, TypeOK
  <2>2. SweepCovers'
    <3>1. SUFFICES ASSUME NEW t \in sweeping'
                   PROVE  Registered \subseteq pending'[t] \cup swept'[t]
      BY <1>2 DEF SweepCovers
    <3>2. CASE t = s
      BY <1>4, <3>2 DEF ResetBegin, IInv, TypeOK
    <3>3. CASE t # s
      <4>1. t \in sweeping /\ pending'[t] = pending[t] /\ swept'[t] = swept[t]
        BY <1>4, <3>1, <3>3 DEF ResetBegin, IInv, TypeOK
      <4>2. QED BY <4>1 DEF IInv, SweepCovers
    <3>4. QED BY <3>2, <3>3
  <2>3. QED BY <1>2, <2>1, <2>2 DEF IInv
<1>5. CASE ResetOne(s)
  <2>1. PICK b \in pending[s] :
          /\ pending' = [pending EXCEPT ![s] = @ \ {b}]
          /\ swept' = [swept EXCEPT ![s] = @ \cup {b}]
    BY <1>5 DEF ResetOne
  <2>2. sweeping' = sweeping /\ s \in sweeping
    BY <1>5 DEF ResetOne
  <2>3. TypeOK'
    BY <1>1, <2>1, <2>2 DEF IInv, TypeOK
  <2>4. SweepCovers'
    <3>1. SUFFICES ASSUME NEW t \in sweeping
                   PROVE  Registered \subseteq pending'[t] \cup swept'[t]
      BY <1>2, <2>2 DEF SweepCovers
    <3>2. Registered \subseteq pending[t] \cup swept[t]
      BY DEF IInv, SweepCovers
    <3>3. pending[t] \cup swept[t] \subseteq pending'[t] \cup swept'[t]
      BY <2>1 DEF IInv, TypeOK
    <3>4. QED BY <3>2, <3>3
  <2>5. QED BY <1>2, <2>3, <2>4 DEF IInv
<1>6. CASE ResetEnd(s)
  BY <1>1, <1>2, <1>6 DEF ResetEnd, IInv, TypeOK, SweepCovers
<1>7. QED BY <1>4, <1>5, <1>6

\* The invariant holds of every behaviour of the registry.
THEOREM Invariance == Spec => []IInv
<1>1. IInv /\ [Next]_vars => IInv'
  <2>1. SUFFICES ASSUME IInv, [Next]_vars PROVE IInv'
    OBVIOUS
  <2>2. CASE UNCHANGED vars
    BY <2>1, <2>2 DEF vars, IInv, TypeOK, NeverForked, SweepCovers, Registered
  <2>3. ASSUME NEW c \in Callers, LookAgain(c) PROVE IInv'
    <3>1. name[c] \in Names
      BY <2>1 DEF IInv, TypeOK
    <3>2. QED BY <2>1, <2>3, <3>1, CreateKeepsIInv DEF LookAgain
  <2>4. ASSUME NEW c \in Callers, Done(c) PROVE IInv'
    BY <2>1, <2>4, DoneKeepsIInv
  <2>5. ASSUME NEW c \in Callers, NEW n \in Names, Look(c, n) PROVE IInv'
    BY <2>1, <2>5, LookKeepsIInv
  <2>6. ASSUME NEW c \in Callers, NEW n \in Names, GetWithConfig(c, n) PROVE IInv'
    BY <2>1, <2>6, CreateKeepsIInv DEF GetWithConfig
  <2>7. ASSUME NEW n \in Names, Remove(n) PROVE IInv'
    BY <2>1, <2>7, RemoveKeepsIInv
  <2>8. ASSUME NEW s \in Sweepers, ResetBegin(s) \/ ResetOne(s) \/ ResetEnd(s)
        PROVE  IInv'
    BY <2>1, <2>8, ResetKeepsIInv
  <2>9. QED
    BY <2>1, <2>2, <2>3, <2>4, <2>5, <2>6, <2>7, <2>8 DEF Next
<1>2. QED BY <1>1, InitIInv, PTL DEF Spec

\* TypeOK, for any number of names, callers and sweepers; Get never returns nil.
THEOREM TypeCorrect == Spec => []TypeOK
<1>1. IInv => TypeOK
  BY DEF IInv
<1>2. QED BY <1>1, Invariance, PTL

\* Two goroutines that miss at once get the same breaker (Get's double check).
THEOREM NeverForkedCorrect == Spec => []NeverForked
<1>1. IInv => NeverForked
  BY DEF IInv
<1>2. QED BY <1>1, Invariance, PTL

\* Reset reaches every breaker that is in the map when it returns.
THEOREM ResetReachesAllCorrect == Spec => []ResetReachesAll
<1>1. IInv => ResetReachesAll
  BY DEF IInv, SweepCovers, ResetReachesAll
<1>2. QED BY <1>1, Invariance, PTL
=============================================================================
