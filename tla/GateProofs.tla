----------------------------- MODULE GateProofs -----------------------------
(***************************************************************************)
(* What is proved of the guarded Sync, for any dependencies, prerequisites *)
(* strategies and errors.                                                  *)
(***************************************************************************)
EXTENDS Gate, WellFoundedInduction, TLAPS

-----------------------------------------------------------------------------
(***************************************************************************)
(* Induction, stated with sets.                                            *)
(***************************************************************************)
\* A set of natural numbers has a least one.
LEMMA Least ==
  ASSUME NEW S \in SUBSET Nat, S # {}
  PROVE  Min(S) \in S /\ \A n \in S : Min(S) <= n
<1>1. IsWellFoundedOn(OpToRel(<, Nat), Nat)
  BY NatLessThanWellFounded
<1>2. PICK x \in S : \A y \in S : ~(<<y, x>> \in OpToRel(<, Nat))
  BY <1>1, WFMin
<1>3. \A y, z \in Nat : <<y, z>> \in OpToRel(<, Nat) <=> y < z
  BY DEF OpToRel
<1>4. ASSUME NEW y \in S PROVE x <= y
  <2>1. ~(y < x)
    BY <1>2, <1>3
  <2> QED
    BY <2>1
<1> QED
  BY <1>4 DEF Min

\* What holds at the first and passes on to the next holds everywhere.
LEMMA StepByStep ==
  ASSUME NEW a \in Nat, NEW b \in Nat, NEW P,
         a <= b => a \in P,
         \A n \in a..b : n \in P /\ n + 1 <= b => n + 1 \in P
  PROVE  \A n \in a..b : n \in P
<1> DEFINE bad == (a..b) \ P
<1> SUFFICES ASSUME bad # {} PROVE FALSE
  OBVIOUS
<1> DEFINE m == Min(bad)
<1>1. bad \in SUBSET Nat
  OBVIOUS
<1> HIDE DEF bad
<1>2. m \in bad /\ \A n \in bad : m <= n
  BY <1>1, Least
<1> HIDE DEF m
<1>3. m \in a..b /\ m \notin P
  BY <1>2 DEF bad
<1>4. m # a
  BY <1>3
<1>5. m - 1 \in a..b /\ m - 1 \notin bad
  BY <1>2, <1>3, <1>4
<1>6. m - 1 \in P
  BY <1>5 DEF bad
<1> QED
  BY <1>3, <1>5, <1>6

\* A sequence of natural numbers, not empty, has a greatest.
LEMMA Greatest ==
  ASSUME NEW n \in Nat \ {0}, NEW f \in [1..n -> Nat]
  PROVE  \E m \in 1..n : \A i \in 1..n : f[i] <= f[m]
<1> DEFINE P == {k \in 1..n : \E m \in 1..k : \A i \in 1..k : f[i] <= f[m]}
<1>1. 1 \in P
  OBVIOUS
<1>2. ASSUME NEW k \in 1..n, k \in P, k + 1 <= n PROVE k + 1 \in P
  <2>1. PICK m \in 1..k : \A i \in 1..k : f[i] <= f[m]
    BY <1>2
  <2>2. CASE f[k + 1] <= f[m]
    BY <2>1, <2>2, <1>2
  <2>3. CASE ~(f[k + 1] <= f[m])
    <3>1. \A i \in 1..(k + 1) : f[i] <= f[k + 1]
      BY <2>1, <2>3, <1>2
    <3> QED
      BY <3>1, <1>2
  <2> QED
    BY <2>2, <2>3
<1> HIDE DEF P
<1>3. \A k \in 1..n : k \in P
  BY <1>1, <1>2, StepByStep
<1>4. n \in P
  BY <1>3
<1> QED
  BY <1>4 DEF P

\* A set that such a sequence enumerates has a maximum.
LEMMA MaxOfRange ==
  ASSUME NEW n \in Nat \ {0}, NEW f \in [1..n -> Nat]
  PROVE  LET S == {f[i] : i \in 1..n} IN Max(S) \in S /\ \A x \in S : x <= Max(S)
<1>1. PICK m \in 1..n : \A i \in 1..n : f[i] <= f[m]
  BY Greatest
<1> DEFINE S == {f[i] : i \in 1..n}
<1>2. f[m] \in S /\ \A x \in S : f[m] >= x
  BY <1>1
<1>3. S \subseteq Nat
  OBVIOUS
<1> HIDE DEF S
<1>4. Max(S) \in S /\ \A x \in S : Max(S) >= x
  BY <1>2 DEF Max
<1> QED
  BY <1>3, <1>4 DEF S

-----------------------------------------------------------------------------
(***************************************************************************)
(* Errors in a list: the first of a kind in the errors put together is the *)
(* first of its kind in one of them.                                       *)
(***************************************************************************)
\* FlattenSeq appends the sequences one after the other.
LEMMA FlattenIs ==
  ASSUME NEW S, NEW seqs \in Seq(Seq(S)), Len(seqs) # 0
  PROVE  \E f \in [1..Len(seqs) -> Seq(S)] :
           /\ f[1] = seqs[1]
           /\ \A i \in 2..Len(seqs) : f[i] = f[i - 1] \o seqs[i]
           /\ E!FlattenSeq(seqs) = f[Len(seqs)]
<1> DEFINE N == Len(seqs)
           At(i, f) == IF i = 1 THEN seqs[i] ELSE f[i - 1] \o seqs[i]
           Good(m, f) == f \in [1..m -> Seq(S)] /\ \A i \in 1..m : f[i] = At(i, f)
           P == {m \in 1..N : \E f : Good(m, f)}
           Flat(f) == f = [i \in 1..N |-> At(i, f)]
<1>0. N \in Nat /\ 1 <= N
  OBVIOUS
<1>1. 1 \in P
  <2> DEFINE g == [i \in 1..1 |-> seqs[1]]
  <2>1. Good(1, g) /\ 1 \in 1..N
    BY <1>0
  <2> HIDE DEF Good
  <2> QED
    BY <2>1
<1>2. ASSUME NEW m \in 1..N, m \in P, m + 1 <= N PROVE m + 1 \in P
  <2>1. PICK f : Good(m, f)
    BY <1>2
  <2> DEFINE next == f[m] \o seqs[m + 1]
             g == [i \in 1..(m + 1) |-> IF i = m + 1 THEN next ELSE f[i]]
  <2>2. m + 1 \in 1..N
    BY <1>0, <1>2
  <2>3. f[m] \in Seq(S) /\ seqs[m + 1] \in Seq(S)
    BY <2>1, <2>2
  <2>4. next \in Seq(S)
    BY <2>3
  <2> HIDE DEF next
  <2>5. g \in [1..(m + 1) -> Seq(S)]
    BY <2>1, <2>4
  <2>6. \A i \in 1..m : g[i] = f[i]
    OBVIOUS
  <2>7. g[m + 1] = next
    OBVIOUS
  <2> HIDE DEF g
  <2>8. ASSUME NEW i \in 1..(m + 1) PROVE g[i] = At(i, g)
    <3>1. CASE i = m + 1
      <4>1. m \in 1..m /\ i # 1 /\ i - 1 = m
        BY <3>1
      <4>2. g[m] = f[m]
        BY <4>1, <2>6
      <4> QED
        BY <3>1, <4>1, <4>2, <2>7 DEF next
    <3>2. CASE i = 1
      <4>1. i \in 1..m
        BY <3>2
      <4> QED
        BY <3>2, <4>1, <2>1, <2>6
    <3>3. CASE i # m + 1 /\ i # 1
      <4>1. i \in 1..m /\ i - 1 \in 1..m
        BY <3>3
      <4>2. f[i] = f[i - 1] \o seqs[i]
        BY <4>1, <3>3, <2>1
      <4> QED
        BY <3>3, <4>1, <4>2, <2>6
    <3> QED
      BY <3>1, <3>2, <3>3
  <2>9. Good(m + 1, g)
    BY <2>5, <2>8
  <2> QED
    BY <2>2, <2>9
<1> HIDE DEF P
<1>3. \A m \in 1..N : m \in P
  BY <1>0, <1>1, <1>2, StepByStep
<1>4. \E f : Flat(f)
  <2>1. N \in P
    BY <1>0, <1>3
  <2>2. PICK f : Good(N, f)
    BY <2>1 DEF P
  <2>3. Flat(f)
    BY <2>2
  <2> QED
    BY <2>3
<1> DEFINE flat == CHOOSE f : Flat(f)
<1>5. E!FlattenSeq(seqs) = flat[N]
  BY DEF E!FlattenSeq
<1>6. Flat(flat)
  BY <1>4
<1> HIDE DEF flat
<1>7. flat[1] = seqs[1] /\ \A i \in 2..N : flat[i] = flat[i - 1] \o seqs[i]
  <2>1. \A i \in 1..N : flat[i] = At(i, flat)
    BY <1>6
  <2>2. 1 \in 1..N /\ \A i \in 2..N : i \in 1..N /\ i # 1
    BY <1>0
  <2> QED
    BY <2>1, <2>2
<1> DEFINE Q == {m \in 1..N : flat[m] \in Seq(S)}
<1>8. 1 \in Q
  BY <1>0, <1>7
<1>9. ASSUME NEW m \in 1..N, m \in Q, m + 1 <= N PROVE m + 1 \in Q
  <2>1. m + 1 \in 2..N
    BY <1>0, <1>9
  <2>2. flat[m + 1] = flat[m] \o seqs[m + 1]
    <3>1. (m + 1) - 1 = m
      BY <1>0
    <3> QED
      BY <2>1, <3>1, <1>7
  <2>3. seqs[m + 1] \in Seq(S) /\ flat[m] \in Seq(S)
    BY <2>1, <1>9
  <2>4. flat[m] \o seqs[m + 1] \in Seq(S)
    BY <2>3
  <2>5. m + 1 \in 1..N
    BY <2>1, <1>0
  <2> QED
    BY <2>2, <2>4, <2>5
<1> HIDE DEF Q
<1>10. \A m \in 1..N : m \in Q
  BY <1>0, <1>8, <1>9, StepByStep
<1>11. flat = [i \in 1..N |-> flat[i]]
  BY <1>6
<1>12. flat \in [1..N -> Seq(S)]
  BY <1>10, <1>11 DEF Q
<1> QED
  BY <1>5, <1>7, <1>12

\* x is the first element of s that is in T.
IsFirst(s, T, x) ==
  \E i \in 1..Len(s) : s[i] = x /\ x \in T /\ \A j \in 1..(i - 1) : s[j] \notin T

None(s, T) == \A i \in 1..Len(s) : s[i] \notin T

LEMMA FirstOfConcat ==
  ASSUME NEW S, NEW s \in Seq(S), NEW t \in Seq(S), NEW T
  PROVE  /\ None(s \o t, T) => None(s, T) /\ None(t, T)
         /\ \A x : IsFirst(s \o t, T, x) =>
                     IsFirst(s, T, x) \/ IsFirst(t, T, x)
<1> DEFINE c == s \o t
<1>1. /\ Len(c) = Len(s) + Len(t)
      /\ \A i \in 1..Len(s) : c[i] = s[i]
      /\ \A i \in 1..Len(t) : c[Len(s) + i] = t[i]
      /\ Len(s) \in Nat /\ Len(t) \in Nat
  OBVIOUS
<1> HIDE DEF c
<1>2. ASSUME None(c, T) PROVE None(s, T) /\ None(t, T)
  <2>1. ASSUME NEW i \in 1..Len(s) PROVE s[i] \notin T
    <3>1. i \in 1..Len(c)
      BY <1>1
    <3> QED
      BY <3>1, <1>1, <1>2 DEF None
  <2>2. ASSUME NEW i \in 1..Len(t) PROVE t[i] \notin T
    <3>1. Len(s) + i \in 1..Len(c)
      BY <1>1
    <3> QED
      BY <3>1, <1>1, <1>2 DEF None
  <2> QED
    BY <2>1, <2>2 DEF None
<1>3. ASSUME NEW x, IsFirst(c, T, x) PROVE IsFirst(s, T, x) \/ IsFirst(t, T, x)
  <2>1. PICK i \in 1..Len(c) : c[i] = x /\ x \in T /\ \A j \in 1..(i - 1) : c[j] \notin T
    BY <1>3 DEF IsFirst
  <2>2. CASE i <= Len(s)
    <3>1. i \in 1..Len(s) /\ s[i] = x
      BY <2>1, <2>2, <1>1
    <3>2. \A j \in 1..(i - 1) : s[j] \notin T
      BY <2>1, <2>2, <1>1
    <3> QED
      BY <3>1, <3>2, <2>1 DEF IsFirst
  <2>3. CASE ~(i <= Len(s))
    <3> DEFINE k == i - Len(s)
    <3>1. k \in 1..Len(t) /\ t[k] = x
      BY <2>1, <2>3, <1>1
    <3>2. ASSUME NEW j \in 1..(k - 1) PROVE t[j] \notin T
      <4>1. Len(s) + j \in 1..(i - 1) /\ j \in 1..Len(t)
        BY <2>3, <3>1, <1>1
      <4> QED
        BY <4>1, <2>1, <1>1
    <3> HIDE DEF k
    <3> QED
      BY <3>1, <3>2, <2>1 DEF IsFirst
  <2> QED
    BY <2>2, <2>3
<1> QED
  BY <1>2, <1>3 DEF c

LEMMA FirstOfFlatten ==
  ASSUME NEW S, NEW seqs \in Seq(Seq(S)), Len(seqs) # 0, NEW T
  PROVE  /\ E!FlattenSeq(seqs) \in Seq(S)
         /\ None(E!FlattenSeq(seqs), T) => \A q \in 1..Len(seqs) : None(seqs[q], T)
         /\ \A x : IsFirst(E!FlattenSeq(seqs), T, x) =>
                     \E q \in 1..Len(seqs) : IsFirst(seqs[q], T, x)
<1> DEFINE N == Len(seqs)
<1>0. N \in Nat /\ 1 <= N
  OBVIOUS
<1>1. PICK f \in [1..N -> Seq(S)] :
        /\ f[1] = seqs[1]
        /\ \A i \in 2..N : f[i] = f[i - 1] \o seqs[i]
        /\ E!FlattenSeq(seqs) = f[N]
  BY FlattenIs
<1> DEFINE P == {m \in 1..N :
                   /\ None(f[m], T) => \A q \in 1..m : None(seqs[q], T)
                   /\ \A x : IsFirst(f[m], T, x) => \E q \in 1..m : IsFirst(seqs[q], T, x)}
<1>2. 1 \in P
  <2>1. \A q \in 1..1 : q = 1
    OBVIOUS
  <2>2. 1 \in 1..1 /\ 1 \in 1..N
    BY <1>0
  <2> QED
    BY <2>1, <2>2, <1>1
<1>3. ASSUME NEW m \in 1..N, m \in P, m + 1 <= N PROVE m + 1 \in P
  <2>1. m + 1 \in 2..N /\ m + 1 \in 1..N /\ m + 1 \in 1..(m + 1)
    BY <1>0, <1>3
  <2>2. f[m + 1] = f[m] \o seqs[m + 1] /\ f[m] \in Seq(S) /\ seqs[m + 1] \in Seq(S)
    <3>1. (m + 1) - 1 = m
      BY <1>0
    <3>2. f[m + 1] = f[m] \o seqs[m + 1]
      BY <2>1, <3>1, <1>1
    <3>3. f[m] \in Seq(S)
      BY <1>3
    <3>4. seqs[m + 1] \in Seq(S)
      BY <2>1
    <3> QED
      BY <3>2, <3>3, <3>4
  <2>3. /\ None(f[m + 1], T) => None(f[m], T) /\ None(seqs[m + 1], T)
        /\ \A x : IsFirst(f[m + 1], T, x) =>
                    IsFirst(f[m], T, x) \/ IsFirst(seqs[m + 1], T, x)
    BY <2>2, FirstOfConcat
  <2>4. \A q \in 1..(m + 1) : q = m + 1 \/ q \in 1..m
    OBVIOUS
  <2>5. \A q \in 1..m : q \in 1..(m + 1)
    OBVIOUS
  <2>6. /\ None(f[m], T) => \A q \in 1..m : None(seqs[q], T)
        /\ \A x : IsFirst(f[m], T, x) => \E q \in 1..m : IsFirst(seqs[q], T, x)
    BY <1>3
  <2>7. None(f[m + 1], T) => \A q \in 1..(m + 1) : None(seqs[q], T)
    BY <2>3, <2>4, <2>6
  <2>8. ASSUME NEW x, IsFirst(f[m + 1], T, x)
        PROVE  \E q \in 1..(m + 1) : IsFirst(seqs[q], T, x)
    BY <2>1, <2>3, <2>5, <2>6, <2>8
  <2> QED
    BY <2>1, <2>7, <2>8
<1> HIDE DEF P
<1>4. \A m \in 1..N : m \in P
  BY <1>0, <1>2, <1>3, StepByStep
<1>5. N \in P /\ f[N] \in Seq(S)
  BY <1>0, <1>4
<1> QED
  BY <1>1, <1>5 DEF P

\* The parts of an error that errors.As stops at: classified, or an API status.
ClassedParts == {p \in E!Parts : p.class # "none"}
StatusParts == {p \in E!Parts : p.reason # "none"}

LEMMA SelectIsFirst ==
  ASSUME NEW s \in Seq(E!Parts), NEW T \in SUBSET E!Parts, NEW n,
         LET I == {i \in 1..Len(s) : s[i] \in T}
         IN  n = IF I # {} THEN E!Min(I) ELSE 0
  PROVE  /\ n # 0 => n \in 1..Len(s) /\ IsFirst(s, T, s[n])
         /\ n = 0 => None(s, T)
         /\ \A x : IsFirst(s, T, x) => n # 0 /\ x = s[n]
<1> DEFINE I == {i \in 1..Len(s) : s[i] \in T}
<1>1. CASE I = {}
  <2>1. n = 0 /\ None(s, T) /\ \A x : ~IsFirst(s, T, x)
    BY <1>1 DEF None, IsFirst
  <2> QED
    BY <2>1
<1>2. CASE I # {}
  <2>1. I \in SUBSET Nat /\ I # {} /\ n = Min(I)
    BY <1>2 DEF Min, E!Min
  <2> HIDE DEF I
  <2>2. n \in I /\ \A i \in I : n <= i
    <3>1. Min(I) \in I /\ \A i \in I : Min(I) <= i
      BY <2>1, Least
    <3> QED
      BY <2>1, <3>1
  <2>3. n \in 1..Len(s) /\ s[n] \in T /\ n # 0
    BY <2>2 DEF I
  <2>4. \A j \in 1..(n - 1) : s[j] \notin T
    BY <2>2, <2>3 DEF I
  <2>5. ASSUME NEW x, IsFirst(s, T, x) PROVE x = s[n]
    <3>1. PICK i \in 1..Len(s) : s[i] = x /\ x \in T /\ \A j \in 1..(i - 1) : s[j] \notin T
      BY <2>5 DEF IsFirst
    <3>2. n <= i
      BY <3>1, <2>2 DEF I
    <3>3. ~(n < i)
      BY <3>1, <2>3
    <3>4. n = i
      BY <3>2, <3>3, <2>3
    <3> QED
      BY <3>1, <3>4
  <2> QED
    BY <2>3, <2>4, <2>5 DEF IsFirst
<1> QED
  BY <1>1, <1>2

LEMMA ClassifiedIsFirst ==
  ASSUME NEW err, err.parts \in Seq(E!Parts)
  PROVE  LET n == E!Classified(err) IN
         /\ n # 0 => n \in 1..Len(err.parts) /\ IsFirst(err.parts, ClassedParts, err.parts[n])
         /\ n = 0 => None(err.parts, ClassedParts)
         /\ \A x : IsFirst(err.parts, ClassedParts, x) => n # 0 /\ x = err.parts[n]
<1>1. \A i \in 1..Len(err.parts) : err.parts[i] \in ClassedParts <=> err.parts[i].class # "none"
  BY DEF ClassedParts
<1>2. {i \in 1..Len(err.parts) : err.parts[i] \in ClassedParts}
        = {i \in 1..Len(err.parts) : err.parts[i].class # "none"}
  BY <1>1
<1>3. E!Classified(err) = LET I == {i \in 1..Len(err.parts) : err.parts[i] \in ClassedParts}
                          IN  IF I # {} THEN E!Min(I) ELSE 0
  BY <1>2 DEF E!Classified, E!SelectInSeq
<1>4. ClassedParts \in SUBSET E!Parts
  BY DEF ClassedParts
<1> QED
  BY <1>3, <1>4, SelectIsFirst

LEMMA StatusIsFirst ==
  ASSUME NEW err, err.parts \in Seq(E!Parts)
  PROVE  LET n == E!Status(err) IN
         /\ n # 0 => n \in 1..Len(err.parts) /\ IsFirst(err.parts, StatusParts, err.parts[n])
         /\ n = 0 => None(err.parts, StatusParts)
         /\ \A x : IsFirst(err.parts, StatusParts, x) => n # 0 /\ x = err.parts[n]
<1>1. \A i \in 1..Len(err.parts) : err.parts[i] \in StatusParts <=> err.parts[i].reason # "none"
  BY DEF StatusParts
<1>2. {i \in 1..Len(err.parts) : err.parts[i] \in StatusParts}
        = {i \in 1..Len(err.parts) : err.parts[i].reason # "none"}
  BY <1>1
<1>3. E!Status(err) = LET I == {i \in 1..Len(err.parts) : err.parts[i] \in StatusParts}
                      IN  IF I # {} THEN E!Min(I) ELSE 0
  BY <1>2 DEF E!Status, E!SelectInSeq
<1>4. StatusParts \in SUBSET E!Parts
  BY DEF StatusParts
<1> QED
  BY <1>3, <1>4, SelectIsFirst

Classes == {"Terminal", "Permanent", "Retryable", "Transient"}

LEMMA ClassesAre == E!ToSet(E!Severity) = Classes
<1>1. E!Severity = <<"Terminal", "Permanent", "Retryable", "Transient">>
  BY DEF E!Severity
<1>2. DOMAIN E!Severity = {1, 2, 3, 4}
  BY <1>1
<1> QED
  BY <1>1, <1>2 DEF E!ToSet, Classes

\* ClassifyError by what errors.As finds first.
LEMMA ClassifyIs ==
  ASSUME NEW err, err.parts \in Seq(E!Parts)
  PROVE  /\ \A x : IsFirst(err.parts, ClassedParts, x) => E!ClassifyError(err) = x.class
         /\ None(err.parts, ClassedParts) =>
              \A x : IsFirst(err.parts, StatusParts, x) =>
                       E!ClassifyError(err) = E!classifyKubernetesError(x.reason)
         /\ E!ClassifyError(err) \in Classes
         /\ E!IsPermanent(err) =>
              \/ \E x : IsFirst(err.parts, ClassedParts, x)
              \/ /\ None(err.parts, ClassedParts)
                 /\ \E x : IsFirst(err.parts, StatusParts, x)
<1> DEFINE c == E!Classified(err)
           t == E!Status(err)
<1>1. /\ c # 0 => c \in 1..Len(err.parts) /\ IsFirst(err.parts, ClassedParts, err.parts[c])
      /\ c = 0 => None(err.parts, ClassedParts)
      /\ \A x : IsFirst(err.parts, ClassedParts, x) => c # 0 /\ x = err.parts[c]
  BY ClassifiedIsFirst
<1>2. /\ t # 0 => t \in 1..Len(err.parts) /\ IsFirst(err.parts, StatusParts, err.parts[t])
      /\ t = 0 => None(err.parts, StatusParts)
      /\ \A x : IsFirst(err.parts, StatusParts, x) => t # 0 /\ x = err.parts[t]
  BY StatusIsFirst
<1>3. E!ClassifyError(err) = IF c # 0 THEN err.parts[c].class
                             ELSE IF t # 0 THEN E!classifyKubernetesError(err.parts[t].reason)
                             ELSE "Retryable"
  BY DEF E!ClassifyError
<1> HIDE DEF c, t
<1>4. \A r : E!classifyKubernetesError(r) \in Classes
  BY DEF E!classifyKubernetesError, Classes
<1>5. c # 0 => err.parts[c].class \in Classes
  <2> HAVE c # 0
  <2>1. err.parts[c] \in ClassedParts
    BY <1>1 DEF IsFirst
  <2> QED
    BY <2>1, ClassesAre DEF ClassedParts, E!Parts
<1>6. None(err.parts, ClassedParts) => c = 0
  BY <1>1 DEF None, IsFirst
<1>7. E!ClassifyError(err) \in Classes
  BY <1>3, <1>4, <1>5 DEF Classes
<1>8. E!IsPermanent(err) => c # 0 \/ t # 0
  BY <1>3 DEF E!IsPermanent
<1> QED
  BY <1>1, <1>2, <1>3, <1>6, <1>7, <1>8

LEMMA PermanentInList ==
  ASSUME NEW errs \in Seq(E!Errors), errs # <<>>, E!IsPermanent(E!ListError(errs))
  PROVE  \E q \in 1..Len(errs) : E!ClassifyError(errs[q]) \in {"Permanent", "Terminal"}
<1>0. Len(errs) \in Nat /\ Len(errs) # 0 /\ 1 \in 1..Len(errs)
  OBVIOUS
<1>1. CASE Len(errs) = 1
  BY <1>0, <1>1 DEF E!ListError, E!IsPermanent
<1>2. CASE Len(errs) # 1
  <2> DEFINE seqs == [i \in DOMAIN errs |-> errs[i].parts]
             all == E!FlattenSeq(seqs)
             err == [parts |-> all, bare |-> FALSE]
  <2>1. /\ seqs \in Seq(Seq(E!Parts)) /\ Len(seqs) = Len(errs)
        /\ \A q \in 1..Len(errs) : seqs[q] = errs[q].parts /\ errs[q].parts \in Seq(E!Parts)
    <3>1. \A q \in 1..Len(errs) : errs[q].parts \in Seq(E!Parts)
      BY DEF E!Errors
    <3>2. DOMAIN errs = 1..Len(errs)
      OBVIOUS
    <3> QED
      BY <3>1, <3>2
  <2>2. E!ListError(errs) = err
    BY <1>2 DEF E!ListError
  <2> HIDE DEF seqs
  <2>3. \A T : /\ all \in Seq(E!Parts)
               /\ None(all, T) => \A q \in 1..Len(errs) : None(seqs[q], T)
               /\ \A x : IsFirst(all, T, x) => \E q \in 1..Len(errs) : IsFirst(seqs[q], T, x)
    BY <2>1, <1>0, FirstOfFlatten
  <2>4. err.parts = all
    OBVIOUS
  <2> HIDE DEF all, err
  <2>5. /\ \A x : IsFirst(all, ClassedParts, x) => E!ClassifyError(err) = x.class
        /\ None(all, ClassedParts) =>
             \A x : IsFirst(all, StatusParts, x) =>
                      E!ClassifyError(err) = E!classifyKubernetesError(x.reason)
        /\ \/ \E x : IsFirst(all, ClassedParts, x)
           \/ /\ None(all, ClassedParts)
              /\ \E x : IsFirst(all, StatusParts, x)
    <3>1. err.parts \in Seq(E!Parts) /\ E!IsPermanent(err)
      BY <2>2, <2>3, <2>4
    <3> QED
      BY <3>1, <2>4, ClassifyIs
  <2>6. \A q \in 1..Len(errs) :
          /\ \A x : IsFirst(seqs[q], ClassedParts, x) => E!ClassifyError(errs[q]) = x.class
          /\ None(seqs[q], ClassedParts) =>
               \A x : IsFirst(seqs[q], StatusParts, x) =>
                        E!ClassifyError(errs[q]) = E!classifyKubernetesError(x.reason)
    BY <2>1, ClassifyIs
  <2>7. \E q \in 1..Len(errs) : E!ClassifyError(errs[q]) = E!ClassifyError(err)
    <3>1. CASE \E x : IsFirst(all, ClassedParts, x)
      BY <3>1, <2>3, <2>5, <2>6
    <3>2. CASE None(all, ClassedParts) /\ \E x : IsFirst(all, StatusParts, x)
      BY <3>2, <2>3, <2>5, <2>6
    <3> QED
      BY <3>1, <3>2, <2>5
  <2> QED
    BY <2>2, <2>7 DEF E!IsPermanent
<1> QED
  BY <1>1, <1>2

\* The index of a class in Severity.
LEMMA SeverityOf ==
  ASSUME NEW n
  PROVE  /\ n = E!SelectInSeq(E!Severity, LAMBDA c : c = "Terminal") => n = 1
         /\ n = E!SelectInSeq(E!Severity, LAMBDA c : c = "Permanent") => n = 2
         /\ n = E!SelectInSeq(E!Severity, LAMBDA c : c = "Retryable") => n = 3
         /\ n = E!SelectInSeq(E!Severity, LAMBDA c : c = "Transient") => n = 4
<1>1. /\ Len(E!Severity) = 4
      /\ E!Severity[1] = "Terminal" /\ E!Severity[2] = "Permanent"
      /\ E!Severity[3] = "Retryable" /\ E!Severity[4] = "Transient"
  BY DEF E!Severity
<1>2. \A i \in Nat : E!Min({i}) = i
  BY DEF E!Min
<1>3. /\ {i \in 1..Len(E!Severity) : E!Severity[i] = "Terminal"} = {1}
      /\ {i \in 1..Len(E!Severity) : E!Severity[i] = "Permanent"} = {2}
      /\ {i \in 1..Len(E!Severity) : E!Severity[i] = "Retryable"} = {3}
      /\ {i \in 1..Len(E!Severity) : E!Severity[i] = "Transient"} = {4}
  BY <1>1
<1> QED
  BY <1>2, <1>3 DEF E!SelectInSeq

\* One that is permanent makes the list so.
LEMMA ClassificationIs ==
  ASSUME NEW errs \in Seq(E!Errors),
         \E q \in 1..Len(errs) : E!ClassifyError(errs[q]) \in {"Permanent", "Terminal"}
  PROVE  E!Classification(errs) \in {"Permanent", "Terminal"}
<1> DEFINE found == {E!ClassifyError(e) : e \in E!ToSet(errs)}
           index(class) == E!SelectInSeq(E!Severity, LAMBDA c : c = class)
<1>1. E!Classification(errs) =
        CHOOSE class \in found : \A other \in found : index(class) <= index(other)
  BY DEF E!Classification
<1>2. found \subseteq Classes
  <2>1. \A q \in 1..Len(errs) : errs[q].parts \in Seq(E!Parts)
    BY DEF E!Errors
  <2>2. \A q \in DOMAIN errs : E!ClassifyError(errs[q]) \in Classes
    BY <2>1, ClassifyIs
  <2> QED
    BY <2>2 DEF E!ToSet
<1>3. found \cap {"Permanent", "Terminal"} # {}
  <2>1. PICK q \in 1..Len(errs) : E!ClassifyError(errs[q]) \in {"Permanent", "Terminal"}
    OBVIOUS
  <2>2. errs[q] \in E!ToSet(errs)
    BY DEF E!ToSet
  <2> QED
    BY <2>1, <2>2
<1>4. /\ index("Terminal") = 1 /\ index("Permanent") = 2
      /\ index("Retryable") = 3 /\ index("Transient") = 4
  BY SeverityOf
<1> HIDE DEF found, index
<1>5. \E class \in found : \A other \in found : index(class) <= index(other)
  <2>1. CASE "Terminal" \in found
    BY <2>1, <1>2, <1>4 DEF Classes
  <2>2. CASE "Terminal" \notin found
    BY <2>2, <1>2, <1>3, <1>4 DEF Classes
  <2> QED
    BY <2>1, <2>2
<1>6. PICK class \in found : /\ E!Classification(errs) = class
                             /\ \A other \in found : index(class) <= index(other)
  BY <1>1, <1>5
<1>7. PICK other \in found : other \in {"Permanent", "Terminal"}
  BY <1>3
<1>8. index(class) <= index(other) /\ index(other) <= 2
  BY <1>4, <1>6, <1>7
<1>9. class # "Retryable" /\ class # "Transient"
  BY <1>4, <1>8, <1>7
<1> QED
  BY <1>2, <1>6, <1>9 DEF Classes

-----------------------------------------------------------------------------
(***************************************************************************)
(* Delays: no strategy answers more than its MaxDelay.                     *)
(***************************************************************************)
LEMMA PowerType ==
  ASSUME NEW base \in Nat, NEW n \in Nat
  PROVE  B!Power(base, n) \in Nat
<1> DEFINE At(i, f) == IF i = 0 THEN 1 ELSE base * f[i - 1]
           Good(m, f) == f \in [0..m -> Nat] /\ \A i \in 0..m : f[i] = At(i, f)
           P == {m \in 0..n : \E f : Good(m, f)}
           Powers(f) == f = [i \in 0..n |-> At(i, f)]
<1>1. 0 \in P
  <2> DEFINE g == [i \in 0..0 |-> 1]
  <2>1. Good(0, g) /\ 0 \in 0..n
    OBVIOUS
  <2> HIDE DEF Good
  <2> QED
    BY <2>1
<1>2. ASSUME NEW m \in 0..n, m \in P, m + 1 <= n PROVE m + 1 \in P
  <2>1. PICK f : Good(m, f)
    BY <1>2
  <2> DEFINE next == base * f[m]
             g == [i \in 0..(m + 1) |-> IF i = m + 1 THEN next ELSE f[i]]
  <2>2. next \in Nat
    BY <2>1
  <2> HIDE DEF next
  <2>3. g \in [0..(m + 1) -> Nat]
    BY <2>1, <2>2
  <2>4. (\A i \in 0..m : g[i] = f[i]) /\ g[m + 1] = next
    OBVIOUS
  <2> HIDE DEF g
  <2>5. ASSUME NEW i \in 0..(m + 1) PROVE g[i] = At(i, g)
    <3>1. CASE i = m + 1
      <4>1. m \in 0..m /\ i # 0 /\ i - 1 = m
        BY <3>1
      <4>2. g[m] = f[m]
        BY <4>1, <2>4
      <4> QED
        BY <3>1, <4>1, <4>2, <2>4 DEF next
    <3>2. CASE i = 0
      <4>1. i \in 0..m
        BY <3>2
      <4> QED
        BY <3>2, <4>1, <2>1, <2>4
    <3>3. CASE i # m + 1 /\ i # 0
      <4>1. i \in 0..m /\ i - 1 \in 0..m
        BY <3>3
      <4>2. f[i] = base * f[i - 1]
        BY <4>1, <3>3, <2>1
      <4> QED
        BY <3>3, <4>1, <4>2, <2>4
    <3> QED
      BY <3>1, <3>2, <3>3
  <2>6. Good(m + 1, g) /\ m + 1 \in 0..n
    BY <1>2, <2>3, <2>5
  <2> HIDE DEF Good
  <2> QED
    BY <2>6
<1> HIDE DEF P
<1>3. \A m \in 0..n : m \in P
  BY <1>1, <1>2, StepByStep
<1>4. \E f : Powers(f)
  <2>1. n \in P
    BY <1>3
  <2>2. PICK f : Good(n, f)
    BY <2>1 DEF P
  <2>3. Powers(f)
    BY <2>2
  <2> QED
    BY <2>3
<1> DEFINE power == CHOOSE f : Powers(f)
<1>5. B!Power(base, n) = power[n]
  BY DEF B!Power
<1>6. Powers(power)
  BY <1>4
<1> HIDE DEF power
<1>7. \A i \in 0..n : power[i] = At(i, power)
  BY <1>6
<1> DEFINE Q == {m \in 0..n : power[m] \in Nat}
<1>8. 0 \in Q
  BY <1>7
<1>9. ASSUME NEW m \in 0..n, m \in Q, m + 1 <= n PROVE m + 1 \in Q
  <2>1. m + 1 \in 0..n /\ m + 1 # 0 /\ (m + 1) - 1 = m
    BY <1>9
  <2>2. power[m + 1] = base * power[m] /\ power[m] \in Nat
    BY <2>1, <1>7, <1>9
  <2>3. base * power[m] \in Nat
    BY <2>2
  <2> QED
    BY <2>1, <2>2, <2>3
<1> HIDE DEF Q
<1>10. \A m \in 0..n : m \in Q
  BY <1>8, <1>9, StepByStep
<1> QED
  BY <1>5, <1>10 DEF Q

LEMMA IntervalBound ==
  ASSUME NEW s \in B!Strategies, NEW attempt \in Nat \ {0}
  PROVE  B!Interval(s, attempt) \in Nat /\ B!Interval(s, attempt) <= s.max
<1>1. /\ s.initial \in Nat /\ s.step \in Nat /\ s.max \in Nat
      /\ s.kind = "constant" => s.initial = s.max
      /\ s.kind \in {"constant", "linear", "exponential"}
  BY DEF B!Strategies
<1>2. \A a, b \in Nat : B!Min({a, b}) \in Nat /\ B!Min({a, b}) <= b
  BY DEF B!Min
<1>3. CASE s.kind = "constant"
  BY <1>1, <1>3 DEF B!Interval
<1>4. CASE s.kind = "linear"
  <2>1. s.initial + (attempt - 1) * s.step \in Nat
    BY <1>1
  <2> QED
    BY <1>1, <1>2, <1>4, <2>1 DEF B!Interval
<1>5. CASE s.kind = "exponential"
  <2>1. B!Power(s.step, attempt - 1) \in Nat
    <3>1. attempt - 1 \in Nat
      OBVIOUS
    <3> QED
      BY <1>1, <3>1, PowerType
  <2>2. s.initial * B!Power(s.step, attempt - 1) \in Nat
    BY <1>1, <2>1
  <2> QED
    BY <1>1, <1>2, <1>5, <2>2 DEF B!Interval
<1> QED
  BY <1>1, <1>3, <1>4, <1>5

LEMMA DelayBound ==
  ASSUME NEW s \in B!Strategies, NEW attempt \in Nat \ {0}, NEW over,
         NEW delay \in B!NextBackoff(s, attempt, over)
  PROVE  delay \in Nat /\ B!MaxDelay(s) \in Nat /\ delay <= B!MaxDelay(s)
<1> DEFINE i == B!Interval(s, attempt)
           low(n) == (n * (100 - s.jitter)) \div 100
           high(n) == (n * (100 + s.jitter) + 99) \div 100
<1>1. s.jitter \in 0..100 /\ s.max \in Nat
  BY DEF B!Strategies
<1>2. i \in Nat /\ i <= s.max
  BY IntervalBound
<1> HIDE DEF i
<1>3. \A n \in Nat : low(n) \in Nat /\ high(n) \in Nat /\ low(n) <= high(n)
  <2> TAKE n \in Nat
  <2>1. n * (100 - s.jitter) \in Nat /\ n * (100 + s.jitter) \in Nat
    BY <1>1
  <2>2. n * (100 - s.jitter) <= n * (100 + s.jitter)
    BY <1>1
  <2> QED
    BY <2>1, <2>2
<1>4. high(i) <= high(s.max)
  <2>1. i * (100 + s.jitter) <= s.max * (100 + s.jitter)
    BY <1>1, <1>2
  <2>2. i * (100 + s.jitter) \in Nat /\ s.max * (100 + s.jitter) \in Nat
    BY <1>1, <1>2
  <2> QED
    BY <2>1, <2>2
<1>5. B!MaxDelay(s) = high(s.max)
  <2>1. B!MaxDelay(s) = B!Max(low(s.max)..high(s.max))
    BY DEF B!MaxDelay, B!Jittered
  <2>2. low(s.max) \in Nat /\ high(s.max) \in Nat /\ low(s.max) <= high(s.max)
    BY <1>1, <1>3
  <2> HIDE DEF low, high
  <2> QED
    BY <2>1, <2>2 DEF B!Max
<1>6. delay = 0 \/ delay \in low(i)..high(i)
  BY DEF B!NextBackoff, B!Jittered, i
<1>7. /\ low(i) \in Nat /\ high(i) \in Nat /\ high(s.max) \in Nat
  BY <1>1, <1>2, <1>3
<1> HIDE DEF low, high
<1> QED
  BY <1>4, <1>5, <1>6, <1>7

-----------------------------------------------------------------------------
(***************************************************************************)
(* Conditions: what the helper's calls do to a list that has no type       *)
(* twice, for the type they are about and for the others.                  *)
(***************************************************************************)
LEMMA GetIs ==
  ASSUME NEW conds \in Seq(Condition), NEW t
  PROVE  /\ Get(conds, t) # 0 => Get(conds, t) \in 1..Len(conds) /\ conds[Get(conds, t)].type = t
         /\ Get(conds, t) = 0 => \A i \in 1..Len(conds) : conds[i].type # t
         /\ HasCondition(conds, t) <=> Get(conds, t) # 0
<1> DEFINE I == {i \in 1..Len(conds) : conds[i].type = t}
<1>1. Get(conds, t) = IF I # {} THEN Min(I) ELSE 0
  BY DEF Get, SelectInSeq
<1>2. CASE I = {}
  BY <1>1, <1>2 DEF HasCondition
<1>3. CASE I # {}
  <2>1. I \in SUBSET Nat /\ I # {} /\ Get(conds, t) = Min(I)
    BY <1>1, <1>3
  <2> HIDE DEF I
  <2>2. Min(I) \in I
    BY <2>1, Least
  <2>3. Get(conds, t) \in 1..Len(conds) /\ conds[Get(conds, t)].type = t
    BY <2>1, <2>2 DEF I
  <2> QED
    BY <2>3 DEF HasCondition
<1> QED
  BY <1>2, <1>3

LEMMA LookUp ==
  ASSUME NEW conds \in Seq(Condition), Unique(conds), NEW t
  PROVE  /\ \A i \in 1..Len(conds) : conds[i].type = t =>
              /\ HasCondition(conds, t) /\ Get(conds, t) = i
              /\ StatusOf(conds, t) = conds[i].status
              /\ LastTransitionTime(conds, t) = conds[i].time
         /\ (\A i \in 1..Len(conds) : conds[i].type # t) =>
              /\ ~HasCondition(conds, t) /\ StatusOf(conds, t) = "Unknown"
              /\ LastTransitionTime(conds, t) = NoTime
         /\ StatusOf(conds, t) \in Statuses
         /\ LastTransitionTime(conds, t) \in Nat \cup {NoTime}
         /\ HasCondition(conds, t) <=> LastTransitionTime(conds, t) # NoTime
<1> DEFINE g == Get(conds, t)
<1>1. /\ g # 0 => g \in 1..Len(conds) /\ conds[g].type = t
      /\ g = 0 => \A i \in 1..Len(conds) : conds[i].type # t
      /\ HasCondition(conds, t) <=> g # 0
  BY GetIs
<1>2. \A i \in 1..Len(conds) : conds[i].type = t => i = g
  BY <1>1 DEF Unique
<1>3. \A i \in 1..Len(conds) : conds[i].status \in Statuses /\ conds[i].time \in Nat
  <2>1. \A i \in 1..Len(conds) : conds[i] \in Condition
    OBVIOUS
  <2> QED
    BY <2>1 DEF Condition
<1>4. "Unknown" \in Statuses /\ NoTime \notin Nat
  BY DEF Statuses, NoTime
<1>5. /\ StatusOf(conds, t) = IF g # 0 THEN conds[g].status ELSE "Unknown"
      /\ LastTransitionTime(conds, t) = IF g # 0 THEN conds[g].time ELSE NoTime
  BY <1>1 DEF StatusOf, LastTransitionTime
<1> HIDE DEF g
<1> QED
  BY <1>1, <1>2, <1>3, <1>4, <1>5 DEF g

\* What two lists have of a type in common.
Alike(conds, new, t) ==
  /\ StatusOf(new, t) = StatusOf(conds, t)
  /\ LastTransitionTime(new, t) = LastTransitionTime(conds, t)

\* Set: the new status; the time of a change is now.
LEMMA SetIs ==
  ASSUME NEW conds \in Seq(Condition), Unique(conds),
         NEW t \in ConditionTypes, NEW status \in Statuses
  PROVE  LET new == Set(conds, t, status, 0) IN
         /\ new \in Seq(Condition) /\ Unique(new)
         /\ StatusOf(new, t) = status
         /\ StatusOf(conds, t) # status => LastTransitionTime(new, t) = 0
         /\ HasCondition(conds, t) /\ StatusOf(conds, t) = status => new = conds
         /\ \A u : u # t => Alike(conds, new, u)
<1> DEFINE new == Set(conds, t, status, 0)
           c == [type |-> t, status |-> status, time |-> 0]
           g == Get(conds, t)
<1>1. c \in Condition /\ c.type = t /\ c.status = status /\ c.time = 0
  BY DEF Condition
<1>2. \A u : /\ \A i \in 1..Len(conds) : conds[i].type = u =>
                  /\ HasCondition(conds, u) /\ Get(conds, u) = i
                  /\ StatusOf(conds, u) = conds[i].status
                  /\ LastTransitionTime(conds, u) = conds[i].time
             /\ (\A i \in 1..Len(conds) : conds[i].type # u) =>
                  /\ ~HasCondition(conds, u) /\ StatusOf(conds, u) = "Unknown"
                  /\ LastTransitionTime(conds, u) = NoTime
  BY LookUp
<1>3. CASE HasCondition(conds, t) /\ StatusOf(conds, t) = status
  <2>1. g \in 1..Len(conds) /\ conds[g].status = status
    BY <1>2, <1>3, GetIs
  <2>2. new = conds
    BY <1>3, <2>1 DEF Set
  <2> QED
    BY <1>3, <2>2 DEF Alike
<1>4. CASE ~(HasCondition(conds, t) /\ StatusOf(conds, t) = status)
  <2> DEFINE k == IF HasCondition(conds, t) THEN g ELSE Len(conds) + 1
  <2>1. /\ new \in Seq(Condition) /\ Len(new) \in Nat /\ Len(conds) \in Nat
        /\ k \in 1..Len(new) /\ new[k] = c
        /\ \A i \in 1..Len(new) : i # k => i \in 1..Len(conds) /\ new[i] = conds[i]
        /\ \A i \in 1..Len(conds) : i # k => i \in 1..Len(new)
        /\ \A i \in 1..Len(conds) : conds[i].type = t => i = k
    <3>1. CASE HasCondition(conds, t)
      <4>1. g \in 1..Len(conds) /\ conds[g].type = t
        BY <3>1, GetIs
      <4>2. conds[g].status # status
        BY <1>2, <1>4, <3>1, <4>1
      <4>3. new = [conds EXCEPT ![g] = c]
        BY <3>1, <4>1, <4>2 DEF Set
      <4>4. \A i \in 1..Len(conds) : conds[i].type = t => i = g
        BY <1>2
      <4> HIDE DEF g, c, new
      <4> QED
        BY <1>1, <3>1, <4>1, <4>3, <4>4
    <3>2. CASE ~HasCondition(conds, t)
      <4>1. new = Append(conds, c)
        BY <3>2 DEF Set
      <4>2. \A i \in 1..Len(conds) : conds[i].type # t
        BY <3>2, GetIs
      <4> HIDE DEF g, c, new
      <4> QED
        BY <1>1, <3>2, <4>1, <4>2
    <3> QED
      BY <3>1, <3>2
  <2> HIDE DEF new, k, g, c
  <2>2. Unique(new)
    <3> SUFFICES ASSUME NEW i \in 1..Len(new), NEW j \in 1..Len(new), new[i].type = new[j].type
                 PROVE  i = j
      BY <2>1 DEF Unique
    <3>1. CASE i = k \/ j = k
      BY <3>1, <1>1, <2>1
    <3>2. CASE i # k /\ j # k
      <4>1. i \in DOMAIN conds /\ j \in DOMAIN conds /\ conds[i].type = conds[j].type
        BY <3>2, <2>1
      <4> QED
        BY <4>1 DEF Unique
    <3> QED
      BY <3>1, <3>2
  <2>3. \A u : /\ \A i \in 1..Len(new) : new[i].type = u =>
                    /\ HasCondition(new, u) /\ StatusOf(new, u) = new[i].status
                    /\ LastTransitionTime(new, u) = new[i].time
               /\ (\A i \in 1..Len(new) : new[i].type # u) =>
                    /\ StatusOf(new, u) = "Unknown" /\ LastTransitionTime(new, u) = NoTime
    BY <2>1, <2>2, LookUp
  <2>4. StatusOf(new, t) = status /\ LastTransitionTime(new, t) = 0
    BY <1>1, <2>1, <2>3
  <2>5. ASSUME NEW u, u # t PROVE Alike(conds, new, u)
    <3>1. CASE \E i \in 1..Len(conds) : conds[i].type = u
      <4>1. PICK i \in 1..Len(conds) : conds[i].type = u
        BY <3>1
      <4>2. i # k
        <5> SUFFICES ASSUME i = k PROVE FALSE
          OBVIOUS
        <5>1. HasCondition(conds, t)
          BY <2>1 DEF k
        <5>2. conds[k].type = t
          BY <5>1, GetIs DEF k, g
        <5> QED
          BY <4>1, <5>2, <2>5
      <4>3. i \in 1..Len(new) /\ new[i] = conds[i]
        BY <4>2, <2>1
      <4> QED
        BY <4>1, <4>3, <1>2, <2>3 DEF Alike
    <3>2. CASE \A i \in 1..Len(conds) : conds[i].type # u
      <4>1. \A i \in 1..Len(new) : new[i].type # u
        BY <3>2, <2>1, <2>5, <1>1
      <4> QED
        BY <3>2, <4>1, <1>2, <2>3 DEF Alike
    <3> QED
      BY <3>1, <3>2
  <2> QED
    BY <1>4, <2>1, <2>2, <2>4, <2>5 DEF new
<1> QED
  BY <1>3, <1>4

LEMMA RemoveAtIs ==
  ASSUME NEW S, NEW s \in Seq(S), NEW k \in 1..Len(s)
  PROVE  /\ RemoveAt(s, k) \in Seq(S) /\ Len(RemoveAt(s, k)) = Len(s) - 1
         /\ \A i \in 1..(Len(s) - 1) : RemoveAt(s, k)[i] = IF i < k THEN s[i] ELSE s[i + 1]
<1> DEFINE a == SubSeq(s, 1, k - 1)
           b == SubSeq(s, k + 1, Len(s))
<1>0. Len(s) \in Nat
  OBVIOUS
<1>1. /\ a \in Seq(S) /\ Len(a) = k - 1
      /\ \A i \in 1..(k - 1) : a[i] = s[i]
  BY <1>0
<1>2. /\ b \in Seq(S) /\ Len(b) = Len(s) - k
      /\ \A i \in 1..(Len(s) - k) : b[i] = s[k + i]
  BY <1>0
<1>3. RemoveAt(s, k) = a \o b
  BY DEF RemoveAt
<1> HIDE DEF a, b
<1>4. a \o b \in Seq(S) /\ Len(a \o b) = Len(s) - 1
  <2>1. a \o b \in Seq(S) /\ Len(a \o b) = Len(a) + Len(b)
    <3>1. a \in Seq(S) /\ b \in Seq(S)
      BY <1>1, <1>2
    <3> QED
      BY <3>1
  <2>2. (k - 1) + (Len(s) - k) = Len(s) - 1
    BY <1>0
  <2> QED
    BY <2>1, <2>2, <1>1, <1>2
<1>5. ASSUME NEW i \in 1..(Len(s) - 1)
      PROVE  (a \o b)[i] = IF i < k THEN s[i] ELSE s[i + 1]
  <2>1. CASE i < k
    <3>1. i \in 1..Len(a)
      BY <2>1, <1>0, <1>1
    <3>2. (a \o b)[i] = a[i]
      BY <3>1, <1>1, <1>2
    <3> QED
      BY <2>1, <3>1, <3>2, <1>1
  <2>2. CASE ~(i < k)
    <3> DEFINE j == i - (k - 1)
    <3>1. j \in 1..Len(b) /\ i = Len(a) + j /\ k + j = i + 1
      BY <2>2, <1>0, <1>1, <1>2
    <3> HIDE DEF j
    <3>2. (a \o b)[i] = b[j]
      <4>1. \A n \in 1..Len(b) : (a \o b)[Len(a) + n] = b[n]
        BY <1>1, <1>2
      <4> QED
        BY <3>1, <4>1
    <3>3. b[j] = s[k + j]
      BY <3>1, <1>2
    <3> QED
      BY <2>2, <3>1, <3>2, <3>3
  <2> QED
    BY <2>1, <2>2
<1> QED
  BY <1>3, <1>4, <1>5

\* Remove: the type is gone, the others are as they were.
LEMMA RemoveIs ==
  ASSUME NEW conds \in Seq(Condition), Unique(conds), NEW t, HasCondition(conds, t)
  PROVE  LET new == RemoveCondition(conds, t) IN
         /\ new \in Seq(Condition) /\ Unique(new) /\ Len(new) # Len(conds)
         /\ StatusOf(new, t) = "Unknown" /\ LastTransitionTime(new, t) = NoTime
         /\ \A u : u # t => Alike(conds, new, u)
<1> DEFINE new == RemoveCondition(conds, t)
           k == Get(conds, t)
<1>1. k \in 1..Len(conds) /\ conds[k].type = t /\ Len(conds) \in Nat
  BY GetIs
<1>2. new = RemoveAt(conds, k)
  BY <1>1 DEF RemoveCondition, RemoveFirstMatch, Get
<1>3. /\ new \in Seq(Condition) /\ Len(new) = Len(conds) - 1
      /\ \A i \in 1..(Len(conds) - 1) : new[i] = IF i < k THEN conds[i] ELSE conds[i + 1]
  BY <1>1, <1>2, RemoveAtIs
<1> HIDE DEF new, k
<1> DEFINE from(i) == IF i < k THEN i ELSE i + 1
           to(i) == IF i < k THEN i ELSE i - 1
<1>4. \A i \in 1..Len(new) : /\ from(i) \in 1..Len(conds) /\ from(i) # k
                             /\ new[i] = conds[from(i)]
  BY <1>1, <1>3
<1>5. \A i \in 1..Len(conds) : i # k => to(i) \in 1..Len(new) /\ new[to(i)] = conds[i]
  BY <1>1, <1>3
<1>6. \A i, j \in 1..Len(new) : from(i) = from(j) => i = j
  BY <1>1, <1>3
<1> HIDE DEF from, to
<1>7. Unique(new)
  <2> SUFFICES ASSUME NEW i \in 1..Len(new), NEW j \in 1..Len(new), new[i].type = new[j].type
               PROVE  i = j
    BY <1>3 DEF Unique
  <2>1. from(i) \in DOMAIN conds /\ from(j) \in DOMAIN conds
    BY <1>4
  <2>2. from(i) = from(j)
    BY <2>1, <1>4 DEF Unique
  <2> QED
    BY <2>2, <1>6
<1>8. \A u : /\ \A i \in 1..Len(conds) : conds[i].type = u =>
                  /\ StatusOf(conds, u) = conds[i].status
                  /\ LastTransitionTime(conds, u) = conds[i].time
             /\ (\A i \in 1..Len(conds) : conds[i].type # u) =>
                  /\ StatusOf(conds, u) = "Unknown" /\ LastTransitionTime(conds, u) = NoTime
  BY LookUp
<1>9. \A u : /\ \A i \in 1..Len(new) : new[i].type = u =>
                  /\ StatusOf(new, u) = new[i].status
                  /\ LastTransitionTime(new, u) = new[i].time
             /\ (\A i \in 1..Len(new) : new[i].type # u) =>
                  /\ StatusOf(new, u) = "Unknown" /\ LastTransitionTime(new, u) = NoTime
  BY <1>3, <1>7, LookUp
<1>10. \A i \in 1..Len(new) : new[i].type # t
  <2> TAKE i \in 1..Len(new)
  <2>1. from(i) \in DOMAIN conds /\ k \in DOMAIN conds
    BY <1>1, <1>4
  <2> QED
    BY <2>1, <1>1, <1>4 DEF Unique
<1>11. ASSUME NEW u, u # t PROVE Alike(conds, new, u)
  <2>1. CASE \E i \in 1..Len(conds) : conds[i].type = u
    <3>1. PICK i \in 1..Len(conds) : conds[i].type = u
      BY <2>1
    <3>2. to(i) \in 1..Len(new) /\ new[to(i)] = conds[i]
      BY <3>1, <1>1, <1>5, <1>11
    <3> QED
      BY <3>1, <3>2, <1>8, <1>9 DEF Alike
  <2>2. CASE \A i \in 1..Len(conds) : conds[i].type # u
    <3>1. \A i \in 1..Len(new) : new[i].type # u
      BY <2>2, <1>4
    <3> QED
      BY <2>2, <3>1, <1>8, <1>9 DEF Alike
  <2> QED
    BY <2>1, <2>2
<1>12. Len(new) # Len(conds)
  BY <1>1, <1>3
<1> QED
  BY <1>3, <1>7, <1>9, <1>10, <1>11, <1>12 DEF new

LEMMA EmptyIs ==
  /\ <<>> \in Seq(Condition) /\ Unique(<<>>)
  /\ \A t : StatusOf(<<>>, t) = "Unknown" /\ LastTransitionTime(<<>>, t) = NoTime
<1>1. <<>> \in Seq(Condition) /\ Unique(<<>>) /\ Len(<<>>) = 0
  BY DEF Unique
<1>2. \A i \in 1..Len(<<>>) : FALSE
  BY <1>1
<1>3. \A t : \A i \in 1..Len(<<>>) : <<>>[i].type # t
  BY <1>2
<1> QED
  BY <1>1, <1>3, LookUp

LEMMA OlderType ==
  /\ \A n \in Nat : Older(n) \in Nat /\ Older(n) >= n /\ Older(n) <= n + 1
  /\ \A n \in 0..AgeCap : Older(n) \in 0..AgeCap
BY DelaysAssumption DEF Older

LEMMA AgedIs ==
  ASSUME NEW conds \in Seq(Condition), Unique(conds)
  PROVE  /\ Aged(conds) \in Seq(Condition) /\ Unique(Aged(conds))
         /\ \A t : /\ StatusOf(Aged(conds), t) = StatusOf(conds, t)
                   /\ HasCondition(Aged(conds), t) <=> HasCondition(conds, t)
                   /\ LastTransitionTime(Aged(conds), t) =
                        IF HasCondition(conds, t) THEN Older(LastTransitionTime(conds, t))
                                                  ELSE NoTime
<1> DEFINE new == Aged(conds)
<1>1. \A i \in 1..Len(conds) :
        /\ [conds[i] EXCEPT !.time = Older(@)] \in Condition
        /\ [conds[i] EXCEPT !.time = Older(@)].type = conds[i].type
        /\ [conds[i] EXCEPT !.time = Older(@)].status = conds[i].status
        /\ [conds[i] EXCEPT !.time = Older(@)].time = Older(conds[i].time)
  <2> TAKE i \in 1..Len(conds)
  <2>1. conds[i] \in Condition
    OBVIOUS
  <2>2. conds[i].time \in Nat
    BY <2>1 DEF Condition
  <2>3. Older(conds[i].time) \in Nat
    BY <2>2, OlderType
  <2> QED
    BY <2>1, <2>3 DEF Condition
<1>2. DOMAIN conds = 1..Len(conds) /\ Len(conds) \in Nat
  OBVIOUS
<1>3. /\ new \in Seq(Condition) /\ Len(new) = Len(conds)
      /\ \A i \in 1..Len(conds) : /\ new[i].type = conds[i].type
                                  /\ new[i].status = conds[i].status
                                  /\ new[i].time = Older(conds[i].time)
  <2> DEFINE older(i) == [conds[i] EXCEPT !.time = Older(@)]
  <2>1. new = [i \in 1..Len(conds) |-> older(i)]
    BY <1>2 DEF Aged
  <2>2. \A i \in 1..Len(conds) :
          /\ older(i) \in Condition /\ older(i).type = conds[i].type
          /\ older(i).status = conds[i].status /\ older(i).time = Older(conds[i].time)
    BY <1>1
  <2> HIDE DEF older, new
  <2>3. new \in Seq(Condition) /\ Len(new) = Len(conds)
    BY <1>2, <2>1, <2>2
  <2> QED
    BY <2>1, <2>2, <2>3
<1> HIDE DEF new
<1>4. Unique(new)
  BY <1>3 DEF Unique
<1>5. \A u : /\ \A i \in 1..Len(conds) : conds[i].type = u =>
                  /\ HasCondition(conds, u) /\ StatusOf(conds, u) = conds[i].status
                  /\ LastTransitionTime(conds, u) = conds[i].time
             /\ (\A i \in 1..Len(conds) : conds[i].type # u) =>
                  /\ ~HasCondition(conds, u) /\ StatusOf(conds, u) = "Unknown"
                  /\ LastTransitionTime(conds, u) = NoTime
  BY LookUp
<1>6. \A u : /\ \A i \in 1..Len(new) : new[i].type = u =>
                  /\ HasCondition(new, u) /\ StatusOf(new, u) = new[i].status
                  /\ LastTransitionTime(new, u) = new[i].time
             /\ (\A i \in 1..Len(new) : new[i].type # u) =>
                  /\ ~HasCondition(new, u) /\ StatusOf(new, u) = "Unknown"
                  /\ LastTransitionTime(new, u) = NoTime
  BY <1>3, <1>4, LookUp
<1>7. ASSUME NEW t
      PROVE  /\ StatusOf(new, t) = StatusOf(conds, t)
             /\ HasCondition(new, t) <=> HasCondition(conds, t)
             /\ LastTransitionTime(new, t) =
                  IF HasCondition(conds, t) THEN Older(LastTransitionTime(conds, t)) ELSE NoTime
  <2>1. CASE \E i \in 1..Len(conds) : conds[i].type = t
    <3>1. PICK i \in 1..Len(conds) : conds[i].type = t
      BY <2>1
    <3>2. i \in 1..Len(new) /\ new[i].type = t
      BY <3>1, <1>3
    <3> QED
      BY <3>1, <3>2, <1>3, <1>5, <1>6
  <2>2. CASE \A i \in 1..Len(conds) : conds[i].type # t
    <3>1. \A i \in 1..Len(new) : new[i].type # t
      BY <2>2, <1>3
    <3> QED
      BY <2>2, <3>1, <1>5, <1>6
  <2> QED
    BY <2>1, <2>2
<1> QED
  BY <1>3, <1>4, <1>7 DEF new

-----------------------------------------------------------------------------
(***************************************************************************)
(* Prerequisites: what an answer tells.  One that is satisfied holds; one  *)
(* that is not either will not hold, however long one waits, or suggests a *)
(* delay after which it does.                                              *)
(***************************************************************************)
Prereqs == [kind : Kinds, on : Deps, type : STRING, minElapsed : Nat]

Objects ==
  {o \in [exists : BOOLEAN, keys : SUBSET {"data", "binary"}, conditional : BOOLEAN,
          conds : Seq(Condition)] : Unique(o.conds)}

Since(o) == LastTransitionTime(o.conds, "Ready")

HoldsFor(p, o, later) ==
  IF p.kind = "since" THEN Since(o) # NoTime /\ Since(o) + later >= p.minElapsed
                      ELSE Check(p, o).satisfied

StuckFor(p, o) ==
  IF p.kind = "since" THEN Since(o) = NoTime ELSE ~Check(p, o).satisfied

TellsFor(r, p, o) ==
  IF r.satisfied THEN HoldsFor(p, o, 0)
  ELSE IF r.retryAfter = 0 THEN StuckFor(p, o) ELSE HoldsFor(p, o, r.retryAfter)

LEMMA SinceType ==
  ASSUME NEW o \in Objects
  PROVE  Since(o) \in Nat \cup {NoTime} /\ NoTime \notin Nat
<1>1. o.conds \in Seq(Condition) /\ Unique(o.conds)
  BY DEF Objects
<1> QED
  BY <1>1, LookUp DEF Since, NoTime

LEMMA AnswersAre ==
  /\ Satisfied \in Results /\ Satisfied.satisfied = TRUE
  /\ \A n \in Nat : /\ Unsatisfied(n) \in Results /\ Unsatisfied(n).satisfied = FALSE
                    /\ Unsatisfied(n).retryAfter = n
BY DEF Satisfied, Unsatisfied, Results

LEMMA CheckOther ==
  ASSUME NEW p \in Prereqs, NEW o, p.kind # "since"
  PROVE  Check(p, o) \in {Satisfied, Unsatisfied(0)}
<1>1. p.kind \in Kinds
  BY DEF Prereqs
<1>2. \A holds : SatisfiedIf(holds) \in {Satisfied, Unsatisfied(0)}
  BY DEF SatisfiedIf
<1>3. CASE p.kind = "exists"
  BY <1>2, <1>3 DEF Check, ResourceExists
<1>4. CASE p.kind = "secret"
  BY <1>2, <1>4 DEF Check, SecretExists
<1>5. CASE p.kind = "configMap"
  BY <1>2, <1>5 DEF Check, ConfigMapExists
<1>6. CASE p.kind = "ready"
  BY <1>2, <1>6 DEF Check, ResourceReady
<1>7. CASE p.kind = "condition"
  BY <1>2, <1>7 DEF Check, ConditionTrue
<1>8. CASE p.kind = "secretKey"
  BY <1>2, <1>8 DEF Check, SecretHasKey
<1>9. CASE p.kind = "configMapKey"
  BY <1>2, <1>9 DEF Check, ConfigMapHasKey
<1> QED
  BY <1>1, <1>3, <1>4, <1>5, <1>6, <1>7, <1>8, <1>9 DEF Kinds

LEMMA CheckTells ==
  ASSUME NEW p \in Prereqs, NEW o \in Objects
  PROVE  Check(p, o) \in Results /\ TellsFor(Check(p, o), p, o)
<1>1. CASE p.kind # "since"
  BY <1>1, CheckOther, AnswersAre DEF TellsFor, HoldsFor, StuckFor
<1>2. CASE p.kind = "since"
  <2>1. Since(o) \in Nat \cup {NoTime} /\ NoTime \notin Nat /\ p.minElapsed \in Nat
    BY SinceType DEF Prereqs
  <2>2. Check(p, o) = TimeSince(Since(o), p.minElapsed)
    BY <1>2 DEF Check, Since
  <2>3. CASE Since(o) = NoTime
    <3>1. Check(p, o) = Unsatisfied(0)
      BY <2>2, <2>3 DEF TimeSince
    <3> QED
      BY <1>2, <2>3, <3>1, AnswersAre DEF TellsFor, StuckFor
  <2>4. CASE Since(o) # NoTime /\ Since(o) >= p.minElapsed
    <3>1. Check(p, o) = Satisfied
      BY <2>2, <2>4 DEF TimeSince
    <3>2. HoldsFor(p, o, 0)
      BY <1>2, <2>1, <2>4 DEF HoldsFor
    <3> QED
      BY <3>1, <3>2, AnswersAre DEF TellsFor
  <2>5. CASE Since(o) # NoTime /\ ~(Since(o) >= p.minElapsed)
    <3> DEFINE d == p.minElapsed - Since(o)
    <3>1. Check(p, o) = Unsatisfied(d)
      BY <2>2, <2>5 DEF TimeSince
    <3>2. d \in Nat /\ d > 0 /\ Since(o) + d >= p.minElapsed
      BY <2>1, <2>5
    <3> HIDE DEF d
    <3>3. HoldsFor(p, o, d)
      BY <1>2, <2>5, <3>2 DEF HoldsFor
    <3> QED
      BY <3>1, <3>2, <3>3, AnswersAre DEF TellsFor
  <2> QED
    BY <2>3, <2>4, <2>5
<1> QED
  BY <1>1, <1>2

LEMMA HoldsLonger ==
  ASSUME NEW p \in Prereqs, NEW o \in Objects, NEW m \in Nat, NEW n \in Nat, m <= n
  PROVE  /\ HoldsFor(p, o, m) => HoldsFor(p, o, n)
         /\ StuckFor(p, o) => ~HoldsFor(p, o, n)
<1>1. Since(o) \in Nat \cup {NoTime} /\ NoTime \notin Nat /\ p.minElapsed \in Nat
  BY SinceType DEF Prereqs
<1> QED
  BY <1>1 DEF HoldsFor, StuckFor

\* An object as time passes: what holds still does, what is stuck still is.
AgedObject(o) == [o EXCEPT !.conds = Aged(@)]

LEMMA AgedTells ==
  ASSUME NEW p \in Prereqs, NEW o \in Objects
  PROVE  /\ AgedObject(o) \in Objects
         /\ \A later \in Nat : HoldsFor(p, o, later) => HoldsFor(p, AgedObject(o), later)
         /\ StuckFor(p, o) => StuckFor(p, AgedObject(o))
         /\ \A r \in Results : TellsFor(r, p, o) => TellsFor(r, p, AgedObject(o))
<1> DEFINE new == AgedObject(o)
<1>1. o.conds \in Seq(Condition) /\ Unique(o.conds)
  BY DEF Objects
<1>2. /\ Aged(o.conds) \in Seq(Condition) /\ Unique(Aged(o.conds))
      /\ \A t : /\ StatusOf(Aged(o.conds), t) = StatusOf(o.conds, t)
                /\ HasCondition(Aged(o.conds), t) <=> HasCondition(o.conds, t)
                /\ LastTransitionTime(Aged(o.conds), t) =
                     IF HasCondition(o.conds, t) THEN Older(LastTransitionTime(o.conds, t))
                                                 ELSE NoTime
  BY <1>1, AgedIs
<1>3. /\ new \in Objects /\ new.conds = Aged(o.conds) /\ new.exists = o.exists
      /\ new.keys = o.keys /\ new.conditional = o.conditional
  BY <1>2 DEF AgedObject, Objects
<1> HIDE DEF new
<1>4. p.kind \in Kinds
  BY DEF Prereqs
<1>5. p.kind # "since" => Check(p, new) = Check(p, o)
  <2> SUFFICES ASSUME p.kind # "since" PROVE Check(p, new) = Check(p, o)
    OBVIOUS
  <2>1. CASE p.kind = "exists"
    BY <1>3, <2>1 DEF Check, ResourceExists
  <2>2. CASE p.kind = "secret"
    BY <1>3, <2>2 DEF Check, SecretExists
  <2>3. CASE p.kind = "configMap"
    BY <1>3, <2>3 DEF Check, ConfigMapExists
  <2>4. CASE p.kind = "ready"
    <3>1. StatusOf(new.conds, "Ready") = StatusOf(o.conds, "Ready")
      BY <1>2, <1>3
    <3>2. HasCondition(new.conds, "Ready") <=> HasCondition(o.conds, "Ready")
      BY <1>2, <1>3
    <3>3. ResourceReady(new) = ResourceReady(o)
      BY <1>3, <3>1, <3>2 DEF ResourceReady, SatisfiedIf
    <3> QED
      BY <2>4, <3>3 DEF Check
  <2>5. CASE p.kind = "condition"
    <3>1. StatusOf(new.conds, p.type) = StatusOf(o.conds, p.type)
      BY <1>2, <1>3
    <3> QED
      BY <1>3, <2>5, <3>1 DEF Check, ConditionTrue
  <2>6. CASE p.kind = "secretKey"
    BY <1>3, <2>6 DEF Check, SecretHasKey
  <2>7. CASE p.kind = "configMapKey"
    BY <1>3, <2>7 DEF Check, ConfigMapHasKey
  <2> QED
    BY <1>4, <2>1, <2>2, <2>3, <2>4, <2>5, <2>6, <2>7 DEF Kinds
<1>6. /\ Since(o) = NoTime => Since(new) = NoTime
      /\ Since(o) # NoTime => Since(new) \in Nat /\ Since(new) >= Since(o) /\ Since(o) \in Nat
      /\ NoTime \notin Nat
  <2>1. Since(o) \in Nat \cup {NoTime} /\ NoTime \notin Nat
    BY SinceType
  <2>2. HasCondition(o.conds, "Ready") <=> Since(o) # NoTime
    BY <1>1, LookUp DEF Since
  <2>3. Since(new) = IF Since(o) # NoTime THEN Older(Since(o)) ELSE NoTime
    BY <1>2, <1>3, <2>2 DEF Since
  <2> QED
    BY <2>1, <2>3, OlderType
<1>7. p.minElapsed \in Nat
  BY DEF Prereqs
<1>8. \A later \in Nat : HoldsFor(p, o, later) => HoldsFor(p, new, later)
  BY <1>5, <1>6, <1>7 DEF HoldsFor
<1>9. StuckFor(p, o) => StuckFor(p, new)
  BY <1>5, <1>6 DEF StuckFor
<1>10. \A r \in Results : TellsFor(r, p, o) => TellsFor(r, p, new)
  BY <1>8, <1>9 DEF TellsFor, Results
<1> QED
  BY <1>3, <1>8, <1>9, <1>10 DEF new

-----------------------------------------------------------------------------
(***************************************************************************)
(* Groups, and what All and Any make of their answers.                     *)
(***************************************************************************)
GroupHolds(g, os, later) ==
  IF g.by = "Any" THEN \E i \in 1..Len(g.of) : HoldsFor(g.of[i], os[g.of[i].on], later)
                  ELSE \A i \in 1..Len(g.of) : HoldsFor(g.of[i], os[g.of[i].on], later)

GroupStuck(g, os) ==
  IF g.by = "Any" THEN \A i \in 1..Len(g.of) : StuckFor(g.of[i], os[g.of[i].on])
                  ELSE \E i \in 1..Len(g.of) : StuckFor(g.of[i], os[g.of[i].on])

GroupTells(r, g, os) ==
  IF r.satisfied THEN GroupHolds(g, os, 0)
  ELSE GroupStuck(g, os) \/ (r.retryAfter > 0 /\ GroupHolds(g, os, r.retryAfter))

LEMMA GroupIs ==
  ASSUME NEW g \in Groups
  PROVE  /\ g.by \in {"All", "Any"} /\ g.of \in Seq(Prereqs) /\ Len(g.of) \in Nat \ {0}
         /\ \A i \in 1..Len(g.of) : g.of[i] \in Prereqs /\ g.of[i].on \in Deps
<1>1. g.by \in {"All", "Any"} /\ g.of \in Seq(Prereqs) /\ g.of # <<>>
  BY DEF Groups, Prereqs
<1>2. \A i \in 1..Len(g.of) : g.of[i] \in Prereqs
  BY <1>1
<1>3. \A p \in Prereqs : p.on \in Deps
  BY DEF Prereqs
<1> QED
  BY <1>1, <1>2, <1>3

LEMMA GroupHoldsLonger ==
  ASSUME NEW g \in Groups, NEW os \in [Deps -> Objects], NEW m \in Nat, NEW n \in Nat, m <= n
  PROVE  /\ GroupHolds(g, os, m) => GroupHolds(g, os, n)
         /\ GroupStuck(g, os) => ~GroupHolds(g, os, n)
<1>1. \A i \in 1..Len(g.of) :
        LET p == g.of[i] IN
        /\ HoldsFor(p, os[p.on], m) => HoldsFor(p, os[p.on], n)
        /\ StuckFor(p, os[p.on]) => ~HoldsFor(p, os[p.on], n)
  BY GroupIs, HoldsLonger
<1> QED
  BY <1>1, GroupIs DEF GroupHolds, GroupStuck

LEMMA GroupAges ==
  ASSUME NEW g \in Groups, NEW os \in [Deps -> Objects], NEW r \in Results,
         GroupTells(r, g, os)
  PROVE  GroupTells(r, g, [d \in Deps |-> AgedObject(os[d])])
<1> DEFINE new == [d \in Deps |-> AgedObject(os[d])]
<1>1. \A i \in 1..Len(g.of) : new[g.of[i].on] = AgedObject(os[g.of[i].on])
  BY GroupIs
<1>2. \A i \in 1..Len(g.of) :
        LET p == g.of[i] IN
        /\ \A later \in Nat : HoldsFor(p, os[p.on], later) => HoldsFor(p, new[p.on], later)
        /\ StuckFor(p, os[p.on]) => StuckFor(p, new[p.on])
  BY <1>1, GroupIs, AgedTells
<1> HIDE DEF new
<1>3. \A later \in Nat : GroupHolds(g, os, later) => GroupHolds(g, new, later)
  BY <1>2 DEF GroupHolds
<1>4. GroupStuck(g, os) => GroupStuck(g, new)
  BY <1>2 DEF GroupStuck
<1>5. r.retryAfter \in Nat
  BY DEF Results
<1> QED
  BY <1>3, <1>4, <1>5 DEF GroupTells, new

LEMMA DelaysAre ==
  ASSUME NEW rs \in Seq(Results)
  PROVE  /\ Delays(rs) \subseteq Nat
         /\ \A i \in 1..Len(rs) : ~rs[i].satisfied => rs[i].retryAfter \in Delays(rs)
         /\ \A d \in Delays(rs) : \E i \in 1..Len(rs) : ~rs[i].satisfied /\ rs[i].retryAfter = d
         /\ Failing(rs) = {} <=> \A i \in 1..Len(rs) : rs[i].satisfied
         /\ Failing(rs) = {} <=> Delays(rs) = {}
<1>1. \A i \in 1..Len(rs) : rs[i] \in Results
  OBVIOUS
<1>2. Failing(rs) = {r \in {rs[i] : i \in 1..Len(rs)} : ~r.satisfied}
  BY DEF Failing, ToSet
<1>3. /\ \A i \in 1..Len(rs) : ~rs[i].satisfied => rs[i] \in Failing(rs)
      /\ \A r \in Failing(rs) : ~r.satisfied /\ \E i \in 1..Len(rs) : rs[i] = r
  BY <1>2
<1>4. \A r \in Failing(rs) : r.retryAfter \in Nat
  BY <1>1, <1>3 DEF Results
<1> QED
  BY <1>3, <1>4 DEF Delays

\* The longest delay, where 0 counts as a default.
LEMMA LongestDelay ==
  ASSUME NEW rs \in Seq(Results), Delays(rs) # {}, NEW default \in Nat
  PROVE  LET S == {IF d = 0 THEN default ELSE d : d \in Delays(rs)}
         IN  Max(S) \in S /\ (\A x \in S : x <= Max(S)) /\ S \subseteq Nat
<1> DEFINE S == {IF d = 0 THEN default ELSE d : d \in Delays(rs)}
           N == Len(rs)
<1>1. /\ Delays(rs) \subseteq Nat
      /\ \A i \in 1..N : ~rs[i].satisfied => rs[i].retryAfter \in Delays(rs)
      /\ \A d \in Delays(rs) : \E i \in 1..N : ~rs[i].satisfied /\ rs[i].retryAfter = d
  BY DelaysAre
<1>2. PICK d0 \in Delays(rs) : TRUE
  OBVIOUS
<1> DEFINE delay(i) == IF rs[i].satisfied THEN d0 ELSE rs[i].retryAfter
           f == [i \in 1..N |-> IF delay(i) = 0 THEN default ELSE delay(i)]
<1>3. N \in Nat \ {0}
  BY <1>1, <1>2
<1>4. \A i \in 1..N : delay(i) \in Delays(rs)
  BY <1>1
<1>5. \A d \in Delays(rs) : \E i \in 1..N : delay(i) = d
  BY <1>1
<1> HIDE DEF delay
<1>6. f \in [1..N -> Nat]
  BY <1>1, <1>4
<1>7. S = {f[i] : i \in 1..N}
  BY <1>4, <1>5
<1>8. S \subseteq Nat
  BY <1>1
<1> HIDE DEF S, f, N
<1>9. Max(S) \in S /\ \A x \in S : x <= Max(S)
  BY <1>3, <1>6, <1>7, MaxOfRange
<1> QED
  BY <1>8, <1>9 DEF S

LEMMA AllOfTells ==
  ASSUME NEW g \in Groups, g.by = "All", NEW os \in [Deps -> Objects],
         NEW rs \in Seq(Results), Len(rs) = Len(g.of),
         \A i \in 1..Len(rs) : TellsFor(rs[i], g.of[i], os[g.of[i].on])
  PROVE  AllOf(rs) \in Results /\ GroupTells(AllOf(rs), g, os)
<1>1. Len(g.of) \in Nat \ {0} /\ \A i \in 1..Len(g.of) :
        g.of[i] \in Prereqs /\ os[g.of[i].on] \in Objects
  BY GroupIs
<1>2. \A i \in 1..Len(rs) : rs[i] \in Results /\ rs[i].retryAfter \in Nat
  <2>1. \A i \in 1..Len(rs) : rs[i] \in Results
    OBVIOUS
  <2> QED
    BY <2>1 DEF Results
<1>3. /\ Delays(rs) \subseteq Nat
      /\ \A i \in 1..Len(rs) : ~rs[i].satisfied => rs[i].retryAfter \in Delays(rs)
      /\ Failing(rs) = {} <=> \A i \in 1..Len(rs) : rs[i].satisfied
      /\ Failing(rs) = {} <=> Delays(rs) = {}
  BY DelaysAre
<1>4. CASE Failing(rs) = {}
  <2>1. AllOf(rs) = Satisfied
    BY <1>4 DEF AllOf
  <2>2. \A i \in 1..Len(g.of) : HoldsFor(g.of[i], os[g.of[i].on], 0)
    BY <1>3, <1>4 DEF TellsFor
  <2> QED
    BY <2>1, <2>2, AnswersAre DEF GroupTells, GroupHolds
<1>5. CASE Failing(rs) # {}
  <2> DEFINE m == Max(Delays(rs))
  <2>1. m \in Nat /\ \A x \in Delays(rs) : x <= m
    <3>1. {IF d = 0 THEN 0 ELSE d : d \in Delays(rs)} = Delays(rs)
      OBVIOUS
    <3>2. Delays(rs) # {}
      BY <1>3, <1>5
    <3> QED
      BY <3>1, <3>2, LongestDelay
  <2>2. AllOf(rs) = Unsatisfied(m)
    BY <1>5 DEF AllOf
  <2> HIDE DEF m
  <2>3. AllOf(rs) \in Results /\ ~AllOf(rs).satisfied /\ AllOf(rs).retryAfter = m
    BY <2>1, <2>2, AnswersAre
  <2>4. CASE \E i \in 1..Len(g.of) : StuckFor(g.of[i], os[g.of[i].on])
    BY <2>3, <2>4 DEF GroupTells, GroupStuck
  <2>5. CASE \A i \in 1..Len(g.of) : ~StuckFor(g.of[i], os[g.of[i].on])
    <3>1. ASSUME NEW i \in 1..Len(g.of) PROVE HoldsFor(g.of[i], os[g.of[i].on], m)
      <4>1. CASE rs[i].satisfied
        <5>1. HoldsFor(g.of[i], os[g.of[i].on], 0)
          BY <4>1 DEF TellsFor
        <5> QED
          BY <5>1, <1>1, <2>1, HoldsLonger
      <4>2. CASE ~rs[i].satisfied
        <5>1. HoldsFor(g.of[i], os[g.of[i].on], rs[i].retryAfter)
          BY <4>2, <2>5 DEF TellsFor
        <5>2. rs[i].retryAfter <= m /\ rs[i].retryAfter \in Nat
          BY <4>2, <1>2, <1>3, <2>1
        <5> QED
          BY <5>1, <5>2, <1>1, <2>1, HoldsLonger
      <4> QED
        BY <4>1, <4>2
    <3>2. m > 0
      <4>1. PICK i \in 1..Len(rs) : ~rs[i].satisfied
        BY <1>3, <1>5
      <4>2. rs[i].retryAfter > 0
        BY <4>1, <1>2, <2>5 DEF TellsFor
      <4>3. rs[i].retryAfter <= m
        BY <4>1, <1>3, <2>1
      <4> QED
        BY <4>2, <4>3, <1>2, <2>1
    <3> QED
      BY <3>1, <3>2, <2>3 DEF GroupTells, GroupHolds
  <2> QED
    BY <2>3, <2>4, <2>5
<1> QED
  BY <1>4, <1>5

LEMMA AnyOfTells ==
  ASSUME NEW g \in Groups, g.by = "Any", NEW os \in [Deps -> Objects],
         NEW rs \in Seq(Results), Len(rs) \in 1..Len(g.of),
         (\E i \in 1..Len(rs) : rs[i].satisfied) \/ Len(rs) = Len(g.of),
         \A i \in 1..Len(rs) : TellsFor(rs[i], g.of[i], os[g.of[i].on])
  PROVE  AnyOf(rs) \in Results /\ GroupTells(AnyOf(rs), g, os)
<1>1. Len(g.of) \in Nat \ {0} /\ \A i \in 1..Len(rs) : i \in 1..Len(g.of)
  BY GroupIs
<1>2. \A r : r \in ToSet(rs) <=> \E i \in 1..Len(rs) : r = rs[i]
  BY DEF ToSet
<1>3. /\ Delays(rs) \subseteq Nat
      /\ \A i \in 1..Len(rs) : ~rs[i].satisfied => rs[i].retryAfter \in Delays(rs)
      /\ \A d \in Delays(rs) : \E i \in 1..Len(rs) : ~rs[i].satisfied /\ rs[i].retryAfter = d
  BY DelaysAre
<1>4. CASE \E i \in 1..Len(rs) : rs[i].satisfied
  <2>1. PICK i \in 1..Len(rs) : rs[i].satisfied
    BY <1>4
  <2>2. AnyOf(rs) = Satisfied
    BY <1>2, <2>1 DEF AnyOf
  <2>3. HoldsFor(g.of[i], os[g.of[i].on], 0) /\ i \in 1..Len(g.of)
    BY <1>1, <2>1 DEF TellsFor
  <2> QED
    BY <2>2, <2>3, AnswersAre DEF GroupTells, GroupHolds
<1>5. CASE \A i \in 1..Len(rs) : ~rs[i].satisfied
  <2>1. Len(rs) = Len(g.of) /\ ~\E r \in ToSet(rs) : r.satisfied
    BY <1>2, <1>5
  <2>2. CASE Delays(rs) \subseteq {0}
    <3>1. AnyOf(rs) = Unsatisfied(0)
      BY <2>1, <2>2 DEF AnyOf
    <3>2. \A i \in 1..Len(g.of) : StuckFor(g.of[i], os[g.of[i].on])
      BY <1>3, <1>5, <2>1, <2>2 DEF TellsFor
    <3> QED
      BY <3>1, <3>2, AnswersAre DEF GroupTells, GroupStuck
  <2>3. CASE ~(Delays(rs) \subseteq {0})
    <3> DEFINE m == Min(Delays(rs) \ {0})
    <3>1. m \in Delays(rs) \ {0}
      <4>1. Delays(rs) \ {0} \in SUBSET Nat /\ Delays(rs) \ {0} # {}
        BY <1>3, <2>3
      <4> QED
        BY <4>1, Least
    <3>2. AnyOf(rs) = Unsatisfied(m)
      BY <2>1, <2>3 DEF AnyOf
    <3> HIDE DEF m
    <3>3. m \in Nat /\ m > 0
      BY <3>1, <1>3
    <3>4. PICK i \in 1..Len(rs) : ~rs[i].satisfied /\ rs[i].retryAfter = m
      BY <3>1, <1>3
    <3>5. AnyOf(rs) \in Results /\ ~AnyOf(rs).satisfied /\ AnyOf(rs).retryAfter = m
      BY <3>2, <3>3, AnswersAre
    <3>6. HoldsFor(g.of[i], os[g.of[i].on], m) /\ i \in 1..Len(g.of)
      BY <1>1, <3>3, <3>4 DEF TellsFor
    <3> QED
      BY <3>3, <3>5, <3>6 DEF GroupTells, GroupHolds
  <2> QED
    BY <2>2, <2>3
<1> QED
  BY <1>4, <1>5

-----------------------------------------------------------------------------
(***************************************************************************)
(* The inductive invariant.  That a refusal waits long enough needs what   *)
(* the answers collected so far tell of the dependencies as they are now,  *)
(* which time does not change and every other change makes void (calm);    *)
(* that Cleanup spares a waiting key needs that its entry is younger than  *)
(* MaxAge by as much as it still has to wait, which is settled by its age  *)
(* when the delay is chosen, while time stands still.                      *)
(***************************************************************************)
Syncs ==
  [stage : Stages, wait : Nat, backoff : BOOLEAN, subs : Seq(Results),
   results : Seq(Results), errs : Seq(E!Errors), calm : BOOLEAN]

Typed ==
  /\ objs \in [Deps -> Objects]
  /\ log \in [Deps -> [ConditionTypes -> [old : Statuses, new : Statuses, time : Nat]]]
  /\ sync \in [Keys -> Syncs]
  /\ DOMAIN entries \subseteq Keys
  /\ entries \in [DOMAIN entries -> [attempts : Nat, age : 0..AgeCap]]
  /\ setup \in Setups /\ elapsed \in BOOLEAN /\ events \in Nat

\* Where CheckAll is, and what it has found if nothing came between.
Sound(s, gs, os) ==
  LET i == Len(s.results) IN
  /\ i <= Len(gs)
  /\ IF s.stage = "checking" /\ i < Len(gs) THEN Len(s.subs) < Len(gs[i + 1].of)
                                            ELSE s.subs = <<>>
  /\ s.stage = "failed" => s.errs \in Failures
  /\ s.calm => /\ \A j \in 1..i : GroupTells(s.results[j], gs[j], os)
               /\ \A j \in 1..Len(s.subs) :
                    TellsFor(s.subs[j], gs[i + 1].of[j], os[gs[i + 1].of[j].on])

\* A key's entry is just touched, or younger than MaxAge by the delay that is left.
Touched(k, s, es) ==
  k \in DOMAIN es => /\ s.stage = "failed" => es[k].age = 0
                     /\ s.backoff /\ s.wait > 0 => es[k].age + s.wait <= MaxAge

GateInv ==
  /\ Typed
  /\ \A k \in Keys : Sound(sync[k], setup.groups, objs)
  /\ \A k \in Keys : Touched(k, sync[k], entries)
  /\ Tracked

\* The setup is one of those assumed.
LEMMA SetupIs ==
  ASSUME Typed
  PROVE  /\ setup.groups \in Seq(Groups) /\ setup.strategy \in B!Strategies
         /\ \A i \in 1..Len(setup.groups) : setup.groups[i] \in Groups
<1>1. setup.groups \in Seq(Groups) /\ setup.strategy \in B!Strategies
  BY SetupsAssumption DEF Typed
<1> QED
  BY <1>1

\* What a key has before it is asked anything, at any stage.
Fresh(s, stage, calm) ==
  /\ s \in Syncs
  /\ s.stage = stage /\ s.calm = calm /\ s.backoff = FALSE /\ s.wait = 0
  /\ s.subs = <<>> /\ s.results = <<>>

LEMMA FreshIs ==
  ASSUME NEW stage \in Stages
  PROVE  /\ Fresh([NotYet EXCEPT !.stage = stage], stage, FALSE)
         /\ Fresh([NotYet EXCEPT !.stage = stage, !.calm = TRUE], stage, TRUE)
         /\ \A errs \in Seq(E!Errors) :
              LET s == [NotYet EXCEPT !.stage = stage, !.errs = errs] IN
              Fresh(s, stage, FALSE) /\ s.errs = errs
<1> DEFINE s == [NotYet EXCEPT !.stage = stage]
           empty == <<>>
<1>1. empty \in Seq(Results) /\ empty \in Seq(E!Errors)
  OBVIOUS
<1> HIDE DEF empty
<1>2. /\ s \in Syncs
      /\ s.stage = stage /\ s.calm = FALSE /\ s.backoff = FALSE
      /\ s.wait = 0 /\ s.subs = empty /\ s.results = empty
  BY <1>1 DEF NotYet, Syncs, empty
<1>3. /\ [NotYet EXCEPT !.stage = stage, !.calm = TRUE] = [s EXCEPT !.calm = TRUE]
      /\ \A errs : [NotYet EXCEPT !.stage = stage, !.errs = errs] = [s EXCEPT !.errs = errs]
  OBVIOUS
<1> HIDE DEF s
<1>4. Fresh([s EXCEPT !.calm = TRUE], stage, TRUE)
  BY <1>2 DEF Syncs, Fresh, empty
<1>5. ASSUME NEW errs \in Seq(E!Errors)
      PROVE  Fresh([s EXCEPT !.errs = errs], stage, FALSE) /\ [s EXCEPT !.errs = errs].errs = errs
  BY <1>2 DEF Syncs, Fresh, empty
<1>6. Fresh(s, stage, FALSE)
  BY <1>2 DEF Fresh, empty
<1>7. \A errs \in Seq(E!Errors) :
        LET x == [NotYet EXCEPT !.stage = stage, !.errs = errs] IN
        Fresh(x, stage, FALSE) /\ x.errs = errs
  BY <1>3, <1>5, Zenon
<1>8. Fresh([NotYet EXCEPT !.stage = stage, !.calm = TRUE], stage, TRUE)
  BY <1>3, <1>4, Zenon
<1> QED
  BY <1>6, <1>7, <1>8, Zenon DEF s

LEMMA WaitIs ==
  ASSUME NEW delay \in Nat, NEW backoff \in BOOLEAN
  PROVE  LET s == Wait(delay, backoff) IN
         /\ s \in Syncs
         /\ s.stage = "waiting" /\ s.calm = FALSE /\ s.backoff = backoff
         /\ s.wait = delay /\ s.subs = <<>> /\ s.results = <<>>
<1> DEFINE s1 == [NotYet EXCEPT !.wait = delay]
           s2 == [s1 EXCEPT !.backoff = backoff]
           empty == <<>>
<1>1. empty \in Seq(Results) /\ empty \in Seq(E!Errors) /\ "waiting" \in Stages
  BY DEF Stages
<1> HIDE DEF empty
<1>2. /\ s1 \in Syncs
      /\ s1.stage = "waiting" /\ s1.wait = delay /\ s1.calm = FALSE
      /\ s1.subs = empty /\ s1.results = empty
  BY <1>1 DEF NotYet, Syncs, empty
<1> HIDE DEF s1
<1>3. /\ s2 \in Syncs
      /\ s2.stage = "waiting" /\ s2.wait = delay /\ s2.calm = FALSE
      /\ s2.backoff = backoff /\ s2.subs = empty /\ s2.results = empty
  BY <1>2 DEF Syncs
<1>4. s2 = Wait(delay, backoff)
  BY DEF s2, s1, Wait
<1> HIDE DEF s2
<1> QED
  BY <1>3, <1>4 DEF empty

\* Which answers All and Any give, whatever they are given.
LEMMA AnswerTypes ==
  ASSUME NEW rs \in Seq(Results)
  PROVE  AllOf(rs) \in Results /\ AnyOf(rs) \in Results
<1>1. /\ Delays(rs) \subseteq Nat
      /\ Failing(rs) = {} <=> Delays(rs) = {}
  BY DelaysAre
<1>2. AllOf(rs) \in Results
  <2>1. CASE Failing(rs) = {}
    BY <2>1, AnswersAre DEF AllOf
  <2>2. CASE Failing(rs) # {}
    <3>1. {IF d = 0 THEN 0 ELSE d : d \in Delays(rs)} = Delays(rs)
      OBVIOUS
    <3>2. Max(Delays(rs)) \in Nat
      BY <1>1, <2>2, <3>1, LongestDelay
    <3> QED
      BY <2>2, <3>2, AnswersAre DEF AllOf
  <2> QED
    BY <2>1, <2>2
<1>3. AnyOf(rs) \in Results
  <2>1. CASE Delays(rs) \subseteq {0}
    BY <2>1, AnswersAre DEF AnyOf
  <2>2. CASE ~(Delays(rs) \subseteq {0})
    <3> DEFINE D == Delays(rs) \ {0}
    <3>1. D \in SUBSET Nat /\ D # {}
      BY <1>1, <2>2
    <3>2. Min(D) \in Nat
      BY <3>1, Least
    <3>3. Unsatisfied(Min(D)) \in Results /\ Satisfied \in Results
      BY <3>2, AnswersAre
    <3>4. AnyOf(rs) \in {Satisfied, Unsatisfied(Min(D))}
      BY <2>2 DEF AnyOf
    <3> QED
      BY <3>3, <3>4
  <2> QED
    BY <2>1, <2>2
<1> QED
  BY <1>2, <1>3

\* A refusal suggests a delay no shorter than any that an unsatisfied one asks for.
LEMMA RetryAfterIs ==
  ASSUME NEW rs \in Seq(Results), ~AllSatisfied(rs)
  PROVE  LET delay == GetRetryAfter(rs, DefaultRetry) IN
         /\ delay \in Nat
         /\ \A i \in 1..Len(rs) : ~rs[i].satisfied => rs[i].retryAfter <= delay
<1> DEFINE S == {IF d = 0 THEN DefaultRetry ELSE d : d \in Delays(rs)}
<1>1. /\ Delays(rs) \subseteq Nat
      /\ \A i \in 1..Len(rs) : ~rs[i].satisfied => rs[i].retryAfter \in Delays(rs)
      /\ Failing(rs) = {} <=> Delays(rs) = {}
  BY DelaysAre
<1>2. Failing(rs) # {} /\ Delays(rs) # {} /\ DefaultRetry \in Nat
  BY <1>1, DelaysAssumption DEF AllSatisfied
<1>3. Max(S) \in S /\ (\A x \in S : x <= Max(S)) /\ S \subseteq Nat
  BY <1>2, LongestDelay
<1>4. GetRetryAfter(rs, DefaultRetry) = Max(S)
  <2>1. S \cup {} = S
    OBVIOUS
  <2> HIDE DEF S
  <2>2. GetRetryAfter(rs, DefaultRetry) = Max(S \cup {})
    BY <1>2 DEF GetRetryAfter, S
  <2> QED
    BY <2>1, <2>2
<1>5. ASSUME NEW i \in 1..Len(rs), ~rs[i].satisfied PROVE rs[i].retryAfter <= Max(S)
  <2> DEFINE d == rs[i].retryAfter
  <2>1. d \in Delays(rs) /\ d \in Nat
    BY <1>1, <1>5
  <2>2. (IF d = 0 THEN DefaultRetry ELSE d) \in S
    BY <2>1
  <2> HIDE DEF S, d
  <2>3. (IF d = 0 THEN DefaultRetry ELSE d) <= Max(S) /\ Max(S) \in Nat
    BY <1>3, <2>2
  <2>4. d <= Max(S)
    BY <1>2, <2>1, <2>3
  <2> QED
    BY <2>4 DEF d
<1> HIDE DEF S
<1> QED
  BY <1>3, <1>4, <1>5

\* One more answer: CheckAll moves on, and what it has found still tells the truth.
LEMMA AnsweredIs ==
  ASSUME NEW gs \in Seq(Groups), NEW os \in [Deps -> Objects], NEW s \in Syncs,
         NEW r \in Results,
         s.stage = "checking", Sound(s, gs, os), Len(s.results) < Len(gs),
         LET p == gs[Len(s.results) + 1].of[Len(s.subs) + 1]
         IN  s.calm => TellsFor(r, p, os[p.on])
  PROVE  LET new == Answered(s, gs[Len(s.results) + 1], r) IN
         /\ new \in Syncs /\ Sound(new, gs, os)
         /\ new.stage = "checking" /\ new.backoff = s.backoff /\ new.wait = s.wait
<1> DEFINE i == Len(s.results)
           g == gs[i + 1]
           subs == Append(s.subs, r)
           all == Answered(s, g, r)
<1>1. /\ s.subs \in Seq(Results) /\ s.results \in Seq(Results) /\ i \in Nat
      /\ s.stage \in Stages /\ s.calm \in BOOLEAN
  BY DEF Syncs
<1>2. g \in Groups /\ i + 1 \in 1..Len(gs) /\ Len(gs) \in Nat
  BY <1>1
<1>3. Len(s.subs) < Len(g.of) /\ Len(g.of) \in Nat \ {0}
  BY <1>2, GroupIs DEF Sound
<1>4. /\ subs \in Seq(Results) /\ Len(subs) = Len(s.subs) + 1 /\ Len(subs) \in 1..Len(g.of)
      /\ \A j \in 1..Len(s.subs) : subs[j] = s.subs[j]
      /\ subs[Len(s.subs) + 1] = r
  BY <1>1, <1>3
<1>5. s.calm => /\ \A j \in 1..i : GroupTells(s.results[j], gs[j], os)
                /\ \A j \in 1..Len(s.subs) : TellsFor(s.subs[j], g.of[j], os[g.of[j].on])
  BY DEF Sound
<1>6. s.calm => \A j \in 1..Len(subs) : TellsFor(subs[j], g.of[j], os[g.of[j].on])
  BY <1>1, <1>4, <1>5
<1>7. CASE ~((g.by = "Any" /\ r.satisfied) \/ Len(subs) = Len(g.of))
  <2>1. all = [s EXCEPT !.subs = subs]
    BY <1>7 DEF Answered
  <2> HIDE DEF subs, g, all
  <2>2. /\ all \in Syncs
        /\ all.stage = "checking" /\ all.backoff = s.backoff /\ all.wait = s.wait
        /\ all.calm = s.calm /\ all.results = s.results /\ all.subs = subs
    BY <1>4, <2>1 DEF Syncs
  <2>3. Len(subs) < Len(g.of) /\ Len(all.results) = i
    BY <1>3, <1>4, <1>7, <2>2
  <2>4. Sound(all, gs, os)
    BY <1>2, <1>5, <1>6, <2>2, <2>3 DEF Sound, g
  <2> QED
    BY <2>2, <2>4 DEF all, g
<1>8. CASE (g.by = "Any" /\ r.satisfied) \/ Len(subs) = Len(g.of)
  <2> DEFINE answer == IF g.by = "Any" THEN AnyOf(subs) ELSE AllOf(subs)
             results == Append(s.results, answer)
             t == [s EXCEPT !.subs = <<>>]
             empty == <<>>
  <2>1. answer \in Results
    BY <1>4, AnswerTypes
  <2>2. s.calm => GroupTells(answer, g, os)
    <3>1. CASE g.by = "Any"
      <4>1. (\E j \in 1..Len(subs) : subs[j].satisfied) \/ Len(subs) = Len(g.of)
        BY <1>1, <1>4, <1>8
      <4> HIDE DEF subs, g
      <4>2. s.calm => GroupTells(AnyOf(subs), g, os)
        BY <1>2, <1>4, <1>6, <3>1, <4>1, AnyOfTells
      <4> QED
        BY <3>1, <4>2
    <3>2. CASE g.by # "Any"
      <4>1. g.by = "All" /\ Len(subs) = Len(g.of)
        BY <1>2, <1>8, <3>2, GroupIs
      <4> HIDE DEF subs, g
      <4>2. s.calm => GroupTells(AllOf(subs), g, os)
        BY <1>2, <1>4, <1>6, <4>1, AllOfTells
      <4> QED
        BY <3>2, <4>2
    <3> QED
      BY <3>1, <3>2
  <2>3. all = [t EXCEPT !.results = results]
    <3>1. all = [s EXCEPT !.subs = <<>>, !.results = results]
      BY <1>8 DEF Answered
    <3> QED
      BY <3>1
  <2> HIDE DEF answer, all, g, subs
  <2>4. /\ results \in Seq(Results) /\ Len(results) = i + 1
        /\ \A j \in 1..i : results[j] = s.results[j]
        /\ results[i + 1] = answer
    BY <1>1, <2>1
  <2>5. empty \in Seq(Results)
    OBVIOUS
  <2> HIDE DEF empty, results
  <2>6. /\ t \in Syncs
        /\ t.stage = "checking" /\ t.backoff = s.backoff /\ t.wait = s.wait
        /\ t.calm = s.calm /\ t.subs = empty
    BY <2>5 DEF Syncs, empty
  <2> HIDE DEF t
  <2>7. /\ all \in Syncs
        /\ all.stage = "checking" /\ all.backoff = s.backoff /\ all.wait = s.wait
        /\ all.calm = s.calm /\ all.subs = empty /\ all.results = results
    BY <2>3, <2>4, <2>6 DEF Syncs
  <2>8. Len(all.results) = i + 1 /\ i + 1 <= Len(gs) /\ all.subs = <<>> /\ Len(all.subs) = 0
    BY <1>2, <2>4, <2>7 DEF empty
  <2>9. i + 1 < Len(gs) => Len(all.subs) < Len(gs[i + 1 + 1].of)
    <3> SUFFICES ASSUME i + 1 < Len(gs) PROVE 0 < Len(gs[i + 1 + 1].of)
      BY <2>8
    <3>1. gs[i + 1 + 1] \in Groups
      BY <1>2
    <3> QED
      BY <3>1, GroupIs
  <2>10. all.calm => \A j \in 1..(i + 1) : GroupTells(all.results[j], gs[j], os)
    BY <1>1, <1>5, <2>2, <2>4, <2>7 DEF g
  <2>11. Sound(all, gs, os)
    BY <2>7, <2>8, <2>9, <2>10 DEF Sound
  <2> QED
    BY <2>7, <2>11 DEF all, g
<1> QED
  BY <1>7, <1>8

\* Time changes nothing of what the answers tell.
LEMMA SoundAges ==
  ASSUME NEW gs \in Seq(Groups), NEW os \in [Deps -> Objects], NEW s \in Syncs,
         Sound(s, gs, os), NEW wait \in Nat
  PROVE  /\ [s EXCEPT !.wait = wait] \in Syncs
         /\ Sound([s EXCEPT !.wait = wait], gs, [d \in Deps |-> AgedObject(os[d])])
<1> DEFINE new == [s EXCEPT !.wait = wait]
           aged == [d \in Deps |-> AgedObject(os[d])]
           i == Len(s.results)
<1>1. /\ s.subs \in Seq(Results) /\ s.results \in Seq(Results) /\ i \in Nat
      /\ Len(s.subs) \in Nat
  BY DEF Syncs
<1>2. /\ new \in Syncs /\ new.stage = s.stage /\ new.calm = s.calm /\ new.errs = s.errs
      /\ new.subs = s.subs /\ new.results = s.results
  BY DEF Syncs
<1> HIDE DEF new
<1>3. s.calm => \A j \in 1..i : GroupTells(s.results[j], gs[j], aged)
  <2> SUFFICES ASSUME s.calm, NEW j \in 1..i PROVE GroupTells(s.results[j], gs[j], aged)
    OBVIOUS
  <2>1. GroupTells(s.results[j], gs[j], os) /\ i <= Len(gs)
    BY DEF Sound
  <2>2. s.results[j] \in Results /\ gs[j] \in Groups
    BY <1>1, <2>1
  <2> QED
    BY <2>1, <2>2, GroupAges
<1>4. s.calm => \A j \in 1..Len(s.subs) :
                  TellsFor(s.subs[j], gs[i + 1].of[j], aged[gs[i + 1].of[j].on])
  <2> SUFFICES ASSUME s.calm, NEW j \in 1..Len(s.subs)
               PROVE  TellsFor(s.subs[j], gs[i + 1].of[j], aged[gs[i + 1].of[j].on])
    OBVIOUS
  <2> DEFINE p == gs[i + 1].of[j]
  <2>1. i < Len(gs) /\ Len(s.subs) < Len(gs[i + 1].of) /\ TellsFor(s.subs[j], p, os[p.on])
    <3>1. s.subs # <<>>
      BY <1>1
    <3> QED
      BY <3>1 DEF Sound
  <2>2. gs[i + 1] \in Groups
    BY <1>1, <2>1
  <2>3. s.subs[j] \in Results /\ p \in Prereqs /\ p.on \in Deps
    BY <1>1, <2>1, <2>2, GroupIs
  <2> HIDE DEF p
  <2>4. aged[p.on] = AgedObject(os[p.on]) /\ os[p.on] \in Objects
    BY <2>3
  <2>5. TellsFor(s.subs[j], p, aged[p.on])
    BY <2>1, <2>3, <2>4, AgedTells
  <2> QED
    BY <2>5 DEF p
<1>5. Sound(new, gs, aged)
  BY <1>2, <1>3, <1>4 DEF Sound
<1> QED
  BY <1>2, <1>5 DEF new

-----------------------------------------------------------------------------
(***************************************************************************)
(* The dependencies' steps.                                                *)
(***************************************************************************)
\* Objects that look alike have the same conditions with the same statuses.
LEMMA SeenTells ==
  ASSUME NEW o \in Objects, NEW new \in Objects, Seen(new) = Seen(o)
  PROVE  /\ new.exists = o.exists /\ new.keys = o.keys
         /\ Len(new.conds) = Len(o.conds)
         /\ \A t : StatusOf(new.conds, t) = StatusOf(o.conds, t)
<1> DEFINE bare(c) == [i \in DOMAIN c |-> [c[i] EXCEPT !.time = 0]]
<1>1. /\ o.conds \in Seq(Condition) /\ Unique(o.conds)
      /\ new.conds \in Seq(Condition) /\ Unique(new.conds)
  BY DEF Objects
<1>2. \A x \in Objects : /\ Seen(x).exists = x.exists /\ Seen(x).keys = x.keys
                         /\ Seen(x).conds = bare(x.conds)
  BY DEF Seen, Objects
<1>3. new.exists = o.exists /\ new.keys = o.keys /\ bare(new.conds) = bare(o.conds)
  BY <1>2
<1>4. DOMAIN new.conds = 1..Len(new.conds) /\ DOMAIN o.conds = 1..Len(o.conds)
  BY <1>1
<1>5. DOMAIN new.conds = DOMAIN o.conds
  BY <1>3
<1>6. Len(new.conds) = Len(o.conds)
  BY <1>1, <1>4, <1>5
<1>7. ASSUME NEW i \in 1..Len(o.conds)
      PROVE  new.conds[i].type = o.conds[i].type /\ new.conds[i].status = o.conds[i].status
  <2>1. new.conds[i] \in Condition /\ o.conds[i] \in Condition
    BY <1>1, <1>6
  <2>2. bare(new.conds)[i] = bare(o.conds)[i]
    BY <1>3
  <2>3. [new.conds[i] EXCEPT !.time = 0] = [o.conds[i] EXCEPT !.time = 0]
    BY <1>4, <1>6, <2>2
  <2> DEFINE a == [new.conds[i] EXCEPT !.time = 0]
             b == [o.conds[i] EXCEPT !.time = 0]
  <2>4. a.type = new.conds[i].type /\ a.status = new.conds[i].status
    BY <2>1 DEF Condition
  <2>5. b.type = o.conds[i].type /\ b.status = o.conds[i].status
    BY <2>1 DEF Condition
  <2> QED
    BY <2>3, <2>4, <2>5
<1>8. ASSUME NEW t PROVE StatusOf(new.conds, t) = StatusOf(o.conds, t)
  <2>1. CASE \E i \in 1..Len(o.conds) : o.conds[i].type = t
    <3>1. PICK i \in 1..Len(o.conds) : o.conds[i].type = t
      BY <2>1
    <3>2. StatusOf(o.conds, t) = o.conds[i].status
      BY <1>1, <3>1, LookUp
    <3>3. i \in 1..Len(new.conds) /\ new.conds[i].type = t
      BY <1>6, <1>7, <3>1
    <3>4. StatusOf(new.conds, t) = new.conds[i].status
      BY <1>1, <3>3, LookUp
    <3> QED
      BY <1>7, <3>2, <3>4
  <2>2. CASE \A i \in 1..Len(o.conds) : o.conds[i].type # t
    <3>1. \A i \in 1..Len(new.conds) : new.conds[i].type # t
      BY <1>6, <1>7, <2>2
    <3> QED
      BY <1>1, <2>2, <3>1, LookUp
  <2> QED
    BY <2>1, <2>2
<1> QED
  BY <1>3, <1>6, <1>8

\* A key whose calm is over has nothing to tell.
LEMMA Disturbed ==
  ASSUME NEW s \in Syncs, NEW gs, NEW os, Sound(s, gs, os), NEW new
  PROVE  LET t == [s EXCEPT !.calm = FALSE] IN
         /\ t \in Syncs /\ Sound(t, gs, new)
         /\ \A k, es : Touched(k, s, es) => Touched(k, t, es)
<1> DEFINE t == [s EXCEPT !.calm = FALSE]
<1>1. /\ t \in Syncs /\ t.calm = FALSE /\ t.stage = s.stage /\ t.wait = s.wait
      /\ t.backoff = s.backoff /\ t.subs = s.subs /\ t.results = s.results /\ t.errs = s.errs
  BY DEF Syncs
<1> HIDE DEF t
<1>2. Sound(t, gs, new)
  BY <1>1 DEF Sound
<1>3. \A k, es : Touched(k, s, es) => Touched(k, t, es)
  BY <1>1 DEF Touched
<1> QED
  BY <1>1, <1>2, <1>3 DEF t

\* What looks the same is the same; a condition's time is that of its last transition.
LEMMA BecomesKeeps ==
  ASSUME GateInv, NEW d \in Deps, NEW obj \in Objects, Becomes(d, obj),
         Seen(obj) = Seen(objs[d]) => obj = objs[d],
         \A t \in ConditionTypes :
           LET new == StatusOf(obj.conds, t) IN
           new # "Unknown" =>
             LastTransitionTime(obj.conds, t) =
               IF new = StatusOf(objs[d].conds, t) THEN LastTransitionTime(objs[d].conds, t)
                                                   ELSE 0
  PROVE  GateInv'
<1> USE DEF GateInv
<1>1. /\ objs \in [Deps -> Objects] /\ sync \in [Keys -> Syncs]
      /\ log \in [Deps -> [ConditionTypes -> [old : Statuses, new : Statuses, time : Nat]]]
      /\ events \in Nat
  BY DEF Typed
<1>2. /\ objs' \in [Deps -> Objects] /\ objs'[d] = obj
      /\ \A e \in Deps : e # d => objs'[e] = objs[e]
  BY <1>1 DEF Becomes
<1> DEFINE was(t) == StatusOf(objs[d].conds, t)
           now(t) == StatusOf(obj.conds, t)
           track(t) == Track(log[d][t], was(t), now(t), 0)
<1>3. /\ log' = [log EXCEPT ![d] = [t \in ConditionTypes |-> track(t)]]
      /\ UNCHANGED <<entries, setup, elapsed>>
  BY DEF Becomes
<1>4. \A t \in ConditionTypes : was(t) \in Statuses /\ now(t) \in Statuses
  <2>1. /\ objs[d].conds \in Seq(Condition) /\ Unique(objs[d].conds)
        /\ obj.conds \in Seq(Condition) /\ Unique(obj.conds)
    BY <1>1 DEF Objects
  <2> QED
    BY <2>1, LookUp
<1>5. \A t \in ConditionTypes :
        /\ track(t) \in [old : Statuses, new : Statuses, time : Nat]
        /\ was(t) = now(t) => track(t) = log[d][t]
        /\ was(t) # now(t) => track(t).new = now(t) /\ track(t).time = 0
  BY <1>1, <1>4 DEF Track
<1>6. /\ log' \in [Deps -> [ConditionTypes -> [old : Statuses, new : Statuses, time : Nat]]]
      /\ \A e \in Deps : e # d => log'[e] = log[e]
      /\ \A t \in ConditionTypes : log'[d][t] = track(t)
  <2> HIDE DEF track
  <2> QED
    BY <1>1, <1>3, <1>5
<1>7. Tracked'
  <2> SUFFICES ASSUME NEW e \in Deps, NEW t \in ConditionTypes
               PROVE  /\ log'[e][t].new = StatusOf(objs'[e].conds, t)
                      /\ log'[e][t].new # "Unknown" =>
                           log'[e][t].time = LastTransitionTime(objs'[e].conds, t)
    BY DEF Tracked
  <2>1. /\ log[e][t].new = StatusOf(objs[e].conds, t)
        /\ log[e][t].new # "Unknown" =>
             log[e][t].time = LastTransitionTime(objs[e].conds, t)
    BY DEF Tracked
  <2>2. CASE e # d
    BY <1>2, <1>6, <2>1, <2>2
  <2>3. CASE e = d
    <3>1. log'[e][t] = track(t) /\ objs'[e] = obj
      BY <1>2, <1>6, <2>3
    <3>2. CASE was(t) = now(t)
      <4>1. track(t) = log[d][t]
        BY <1>5, <3>2
      <4> HIDE DEF track
      <4> QED
        BY <2>1, <2>3, <3>1, <3>2, <4>1
    <3>3. CASE was(t) # now(t)
      <4>1. track(t).new = now(t) /\ track(t).time = 0
        BY <1>5, <3>3
      <4> HIDE DEF track
      <4> QED
        BY <3>1, <3>3, <4>1
    <3> QED
      BY <3>2, <3>3
  <2> QED
    BY <2>2, <2>3
<1> HIDE DEF track, was, now
<1>8. /\ sync' \in [Keys -> Syncs]
      /\ \A k \in Keys : Sound(sync'[k], setup.groups, objs') /\ Touched(k, sync'[k], entries)
      /\ events' \in Nat
  <2>1. CASE Seen(obj) = Seen(objs[d])
    <3>1. objs' = objs
      BY <1>1, <1>2, <2>1 DEF Becomes
    <3>2. sync' = sync /\ events' = events
      BY <2>1 DEF Becomes
    <3> QED
      BY <1>1, <3>1, <3>2
  <2>2. CASE Seen(obj) # Seen(objs[d])
    <3>1. /\ sync' = [k \in Keys |-> [sync[k] EXCEPT !.calm = FALSE]]
          /\ events' \in Nat
      BY <1>1, <2>2 DEF Becomes, Event
    <3>2. ASSUME NEW k \in Keys
          PROVE  /\ sync'[k] \in Syncs /\ Sound(sync'[k], setup.groups, objs')
                 /\ Touched(k, sync'[k], entries)
      <4>1. sync[k] \in Syncs /\ Sound(sync[k], setup.groups, objs)
            /\ Touched(k, sync[k], entries)
        BY <1>1
      <4>2. sync'[k] = [sync[k] EXCEPT !.calm = FALSE]
        BY <3>1
      <4> QED
        BY <4>1, <4>2, Disturbed
    <3>3. sync' \in [Keys -> Syncs]
      BY <3>1, <3>2
    <3> QED
      BY <3>1, <3>2, <3>3
  <2> QED
    BY <2>1, <2>2
<1>9. Typed'
  BY <1>2, <1>3, <1>6, <1>8 DEF Typed
<1> QED
  BY <1>3, <1>7, <1>8, <1>9

LEMMA SetConditionKeeps ==
  ASSUME GateInv, NEW d \in Deps, NEW t \in ConditionTypes, NEW status \in Statuses,
         SetCondition(d, t, status)
  PROVE  GateInv'
<1> DEFINE o == objs[d]
           conds == Set(o.conds, t, status, 0)
           obj == [o EXCEPT !.conds = conds]
<1>1. o \in Objects
  BY DEF GateInv, Typed
<1>2. o.conds \in Seq(Condition) /\ Unique(o.conds)
  BY <1>1 DEF Objects
<1>3. /\ conds \in Seq(Condition) /\ Unique(conds)
      /\ StatusOf(conds, t) = status
      /\ StatusOf(o.conds, t) # status => LastTransitionTime(conds, t) = 0
      /\ HasCondition(o.conds, t) /\ StatusOf(o.conds, t) = status => conds = o.conds
      /\ \A u : u # t => Alike(o.conds, conds, u)
  BY <1>2, SetIs
<1>4. ~HasCondition(o.conds, t) => Len(conds) = Len(o.conds) + 1 /\ Len(o.conds) \in Nat
  BY <1>2 DEF Set
<1>5. Becomes(d, obj)
  BY DEF SetCondition
<1> HIDE DEF conds
<1>6. obj \in Objects /\ obj.conds = conds
  BY <1>1, <1>3 DEF Objects
<1>7. Seen(obj) = Seen(o) => obj = o
  <2> SUFFICES ASSUME Seen(obj) = Seen(o) PROVE obj = o
    OBVIOUS
  <2> HIDE DEF obj, o
  <2>1. Len(conds) = Len(o.conds) /\ StatusOf(conds, t) = StatusOf(o.conds, t)
    BY <1>1, <1>6, SeenTells
  <2>2. HasCondition(o.conds, t)
    BY <1>4, <2>1
  <2>3. conds = o.conds
    BY <1>3, <2>1, <2>2
  <2> QED
    BY <1>1, <2>3 DEF obj, Objects
<1>8. ASSUME NEW u \in ConditionTypes, StatusOf(conds, u) # "Unknown"
      PROVE  LastTransitionTime(conds, u) =
               IF StatusOf(conds, u) = StatusOf(o.conds, u) THEN LastTransitionTime(o.conds, u)
                                                            ELSE 0
  <2>1. CASE u # t
    <3>1. Alike(o.conds, conds, u)
      BY <1>3, <2>1
    <3> QED
      BY <3>1 DEF Alike
  <2>2. CASE u = t
    <3>1. CASE StatusOf(o.conds, t) = status
      <4>1. HasCondition(o.conds, t)
        BY <1>3, <1>8, <2>2, <3>1 DEF StatusOf
      <4>2. conds = o.conds
        BY <1>3, <3>1, <4>1
      <4> QED
        BY <4>2
    <3>2. CASE StatusOf(o.conds, t) # status
      BY <1>3, <2>2, <3>2
    <3> QED
      BY <3>1, <3>2
  <2> QED
    BY <2>1, <2>2
<1> HIDE DEF obj
<1> QED
  BY <1>5, <1>6, <1>7, <1>8, BecomesKeeps

LEMMA WithdrawKeeps ==
  ASSUME GateInv, NEW d \in Deps, NEW t \in ConditionTypes, Withdraw(d, t)
  PROVE  GateInv'
<1> DEFINE o == objs[d]
           conds == RemoveCondition(o.conds, t)
           obj == [o EXCEPT !.conds = conds]
<1>1. o \in Objects
  BY DEF GateInv, Typed
<1>2. o.conds \in Seq(Condition) /\ Unique(o.conds) /\ HasCondition(o.conds, t)
  BY <1>1 DEF Objects, Withdraw
<1>3. /\ conds \in Seq(Condition) /\ Unique(conds) /\ Len(conds) # Len(o.conds)
      /\ StatusOf(conds, t) = "Unknown"
      /\ \A u : u # t => Alike(o.conds, conds, u)
  BY <1>2, RemoveIs
<1>4. Becomes(d, obj)
  BY DEF Withdraw
<1> HIDE DEF conds
<1>5. obj \in Objects /\ obj.conds = conds
  BY <1>1, <1>3 DEF Objects
<1> HIDE DEF obj, o
<1>6. Seen(obj) # Seen(o)
  BY <1>1, <1>3, <1>5, SeenTells
<1>7. ASSUME NEW u \in ConditionTypes, StatusOf(conds, u) # "Unknown"
      PROVE  LastTransitionTime(conds, u) =
               IF StatusOf(conds, u) = StatusOf(o.conds, u) THEN LastTransitionTime(o.conds, u)
                                                            ELSE 0
  <2>1. Alike(o.conds, conds, u)
    BY <1>3, <1>7
  <2> QED
    BY <2>1 DEF Alike
<1> QED
  BY <1>4, <1>5, <1>6, <1>7, BecomesKeeps DEF o

LEMMA DeleteOrCreateKeeps ==
  ASSUME GateInv, NEW d \in Deps, DeleteOrCreate(d)
  PROVE  GateInv'
<1> DEFINE o == objs[d]
           empty == <<>>
           a == [o EXCEPT !.exists = ~@]
           b == [a EXCEPT !.keys = {}]
           obj == [b EXCEPT !.conds = empty]
<1>1. o \in Objects
  BY DEF GateInv, Typed
<1>2. Becomes(d, obj)
  BY DEF DeleteOrCreate
<1>3. /\ empty \in Seq(Condition) /\ Unique(empty)
      /\ \A t : StatusOf(empty, t) = "Unknown"
  BY EmptyIs
<1> HIDE DEF empty
<1>4. a \in Objects /\ a.exists # o.exists
  BY <1>1 DEF Objects
<1> HIDE DEF a
<1>5. b \in Objects /\ b.exists # o.exists
  BY <1>4 DEF Objects
<1> HIDE DEF b
<1>6. obj \in Objects /\ obj.exists # o.exists /\ obj.conds = empty
  BY <1>3, <1>5 DEF Objects
<1> HIDE DEF obj, o
<1>7. Seen(obj) # Seen(o)
  BY <1>1, <1>6, SeenTells
<1> QED
  BY <1>2, <1>3, <1>6, <1>7, BecomesKeeps DEF o

LEMMA EditKeeps ==
  ASSUME GateInv, NEW d \in Deps, NEW keys \in SUBSET {"data", "binary"}, Edit(d, keys)
  PROVE  GateInv'
<1> DEFINE o == objs[d]
           obj == [o EXCEPT !.keys = keys]
<1>1. o \in Objects
  BY DEF GateInv, Typed
<1>2. Becomes(d, obj) /\ keys # o.keys
  BY DEF Edit
<1>3. obj \in Objects /\ obj.keys = keys /\ obj.conds = o.conds
  BY <1>1 DEF Objects
<1> HIDE DEF obj, o
<1>4. Seen(obj) # Seen(o)
  BY <1>1, <1>2, <1>3, SeenTells
<1>5. \A t \in ConditionTypes :
        LastTransitionTime(obj.conds, t) =
          IF StatusOf(obj.conds, t) = StatusOf(o.conds, t) THEN LastTransitionTime(o.conds, t)
                                                          ELSE 0
  BY <1>3
<1> QED
  BY <1>2, <1>3, <1>4, <1>5, BecomesKeeps DEF o

-----------------------------------------------------------------------------
(***************************************************************************)
(* The workers' steps.                                                     *)
(***************************************************************************)
\* A step of one key that leaves the others' entries alone.
LEMMA StepKeeps ==
  ASSUME GateInv, NEW k \in Keys, NEW s \in Syncs, Step(k, s),
         Sound(s, setup.groups, objs),
         DOMAIN entries' \subseteq Keys,
         entries' \in [DOMAIN entries' -> [attempts : Nat, age : 0..AgeCap]],
         Touched(k, s, entries'),
         \A o \in Keys \ {k} : o \in DOMAIN entries' =>
           o \in DOMAIN entries /\ entries'[o] = entries[o],
         events' \in Nat
  PROVE  GateInv'
<1> USE DEF GateInv
<1>1. UNCHANGED <<objs, log, setup, elapsed>> /\ sync \in [Keys -> Syncs]
  BY DEF Step, Typed
<1>2. /\ sync' \in [Keys -> Syncs] /\ sync'[k] = s
      /\ \A o \in Keys \ {k} : sync'[o] = sync[o]
  BY <1>1 DEF Step
<1>3. Typed'
  BY <1>1, <1>2 DEF Typed
<1>4. Tracked'
  BY <1>1 DEF Tracked
<1>5. \A o \in Keys : Sound(sync'[o], setup.groups, objs)
  BY <1>2
<1>6. \A o \in Keys : Touched(o, sync'[o], entries')
  <2> SUFFICES ASSUME NEW o \in Keys, o # k PROVE Touched(o, sync'[o], entries')
    BY <1>2
  <2>1. Touched(o, sync[o], entries) /\ sync'[o] = sync[o]
    BY <1>2
  <2> QED
    BY <2>1 DEF Touched
<1> QED
  BY <1>1, <1>3, <1>4, <1>5, <1>6

\* A key that has been asked nothing yet and is not about to be.
LEMMA FreshIsSound ==
  ASSUME NEW s \in Syncs, NEW gs \in Seq(Groups), NEW os,
         s.subs = <<>>, s.results = <<>>,
         s.stage = "checking" \/ s.calm = FALSE,
         s.stage = "failed" => s.errs \in Failures
  PROVE  Sound(s, gs, os)
<1>1. Len(s.subs) = 0 /\ Len(s.results) = 0 /\ Len(gs) \in Nat
  OBVIOUS
<1>2. 0 < Len(gs) => Len(s.subs) < Len(gs[1].of)
  <2> SUFFICES ASSUME 0 < Len(gs) PROVE 0 < Len(gs[1].of)
    BY <1>1
  <2>1. gs[1] \in Groups
    BY <1>1
  <2> QED
    BY <2>1, GroupIs
<1> QED
  BY <1>1, <1>2 DEF Sound

\* The error's own delay is one: an API status that is not wrapped has a part.
LEMMA HintType ==
  ASSUME NEW errs \in Seq(E!Errors), errs # <<>>
  PROVE  E!GetRetryAfter(E!ListError(errs)) \in Nat
<1> DEFINE err == E!ListError(errs)
<1>0. Len(errs) \in Nat /\ Len(errs) # 0 /\ 1 \in 1..Len(errs)
  OBVIOUS
<1>1. err.parts \in Seq(E!Parts) /\ (err.bare => err.parts # <<>>)
  <2>1. CASE Len(errs) = 1
    <3>1. err = errs[1] /\ errs[1] \in E!Errors
      BY <1>0, <2>1 DEF E!ListError
    <3> QED
      BY <3>1 DEF E!Errors
  <2>2. CASE Len(errs) # 1
    <3> DEFINE seqs == [i \in DOMAIN errs |-> errs[i].parts]
               all == E!FlattenSeq(seqs)
    <3>1. seqs \in Seq(Seq(E!Parts)) /\ Len(seqs) = Len(errs)
      <4>1. \A q \in 1..Len(errs) : errs[q].parts \in Seq(E!Parts)
        BY DEF E!Errors
      <4>2. DOMAIN errs = 1..Len(errs)
        OBVIOUS
      <4> QED
        BY <4>1, <4>2
    <3>2. err = [parts |-> all, bare |-> FALSE]
      BY <2>2 DEF E!ListError
    <3> HIDE DEF seqs, err
    <3>3. all \in Seq(E!Parts)
      BY <3>1, <1>0, FirstOfFlatten
    <3> QED
      BY <3>2, <3>3 DEF err
  <2> QED
    BY <2>1, <2>2
<1> HIDE DEF err
<1>2. \A i \in 1..Len(err.parts) : err.parts[i].after \in Nat
  <2>1. \A i \in 1..Len(err.parts) : err.parts[i] \in E!Parts
    BY <1>1
  <2> QED
    BY <2>1 DEF E!Parts
<1>3. E!Classified(err) # 0 => E!Classified(err) \in 1..Len(err.parts)
  BY <1>1, ClassifiedIsFirst
<1>4. err.bare => 1 \in 1..Len(err.parts)
  BY <1>1
<1>5. E!GetRetryAfter(err) \in Nat
  BY <1>2, <1>3, <1>4 DEF E!GetRetryAfter
<1> QED
  BY <1>5 DEF err

\* What the tracker says is a delay no longer than Cleanup's.
LEMMA BackoffType ==
  ASSUME Typed, NEW k \in Keys, NEW delay \in B!GetBackoff(entries, k, setup.strategy, elapsed)
  PROVE  delay \in Nat /\ delay <= MaxAge
<1>1. setup.strategy \in B!Strategies /\ B!MaxDelay(setup.strategy) <= MaxAge /\ MaxAge \in Nat
  BY SetupIs, DelaysAssumption DEF Typed
<1> DEFINE n == B!GetAttempts(entries, k)
<1>2. n \in Nat
  BY DEF Typed, B!GetAttempts
<1> HIDE DEF n
<1>3. CASE n = 0
  BY <1>1, <1>3 DEF B!GetBackoff, n
<1>4. CASE n # 0
  <2>1. delay \in B!NextBackoff(setup.strategy, n, elapsed)
    BY <1>4 DEF B!GetBackoff, n
  <2>2. /\ delay \in Nat /\ B!MaxDelay(setup.strategy) \in Nat
        /\ delay <= B!MaxDelay(setup.strategy)
    BY <1>1, <1>2, <1>4, <2>1, DelayBound
  <2> QED
    BY <1>1, <2>2
<1> QED
  BY <1>3, <1>4

\* Nothing but the attempts of k changes.
LEMMA RecordSuccessIs ==
  ASSUME Typed, NEW k \in Keys
  PROVE  LET new == B!RecordSuccess(entries, k) IN
         /\ DOMAIN new = DOMAIN entries
         /\ new \in [DOMAIN new -> [attempts : Nat, age : 0..AgeCap]]
         /\ \A o \in DOMAIN new : new[o].age = entries[o].age /\ (o # k => new[o] = entries[o])
<1> DEFINE new == B!RecordSuccess(entries, k)
<1>1. new = [o \in DOMAIN entries |->
               IF o = k THEN [entries[o] EXCEPT !.attempts = 0] ELSE entries[o]]
  BY DEF B!RecordSuccess
<1>2. \A o \in DOMAIN entries :
        /\ entries[o] \in [attempts : Nat, age : 0..AgeCap]
        /\ [entries[o] EXCEPT !.attempts = 0] \in [attempts : Nat, age : 0..AgeCap]
        /\ [entries[o] EXCEPT !.attempts = 0].age = entries[o].age
  BY DEF Typed
<1> HIDE DEF new
<1>3. DOMAIN new = DOMAIN entries
  BY <1>1
<1>4. \A o \in DOMAIN new : /\ new[o] \in [attempts : Nat, age : 0..AgeCap]
                            /\ new[o].age = entries[o].age /\ (o # k => new[o] = entries[o])
  BY <1>1, <1>2
<1>5. new = [o \in DOMAIN new |-> new[o]]
  BY <1>1
<1>6. new \in [DOMAIN new -> [attempts : Nat, age : 0..AgeCap]]
  BY <1>4, <1>5
<1> QED
  BY <1>3, <1>4, <1>6 DEF new

LEMMA RecordFailureIs ==
  ASSUME Typed, NEW k \in Keys
  PROVE  LET new == B!RecordFailure(entries, k) IN
         /\ DOMAIN new = DOMAIN entries \cup {k}
         /\ new \in [DOMAIN new -> [attempts : Nat, age : 0..AgeCap]]
         /\ new[k].age = 0
         /\ \A o \in DOMAIN new : o # k => new[o] = entries[o]
<1> DEFINE new == B!RecordFailure(entries, k)
           n == B!GetAttempts(entries, k) + 1
<1>1. new = [o \in DOMAIN entries \cup {k} |->
               IF o = k THEN [attempts |-> n, age |-> 0] ELSE entries[o]]
  BY DEF B!RecordFailure
<1>2. n \in Nat /\ 0 \in 0..AgeCap
  BY DelaysAssumption DEF Typed, B!GetAttempts
<1> HIDE DEF new, n
<1>3. DOMAIN new = DOMAIN entries \cup {k}
  BY <1>1
<1>4. \A o \in DOMAIN new : /\ new[o] \in [attempts : Nat, age : 0..AgeCap]
                            /\ o # k => new[o] = entries[o]
  BY <1>1, <1>2 DEF Typed
<1>5. new = [o \in DOMAIN new |-> new[o]] /\ new[k].age = 0
  BY <1>1
<1>6. new \in [DOMAIN new -> [attempts : Nat, age : 0..AgeCap]]
  BY <1>4, <1>5
<1> QED
  BY <1>3, <1>4, <1>5, <1>6 DEF new

\* Some entries less.
LEMMA RestrictIs ==
  ASSUME Typed, NEW S \in SUBSET DOMAIN entries
  PROVE  LET new == B!Restrict(entries, S) IN
         /\ DOMAIN new = S
         /\ new \in [DOMAIN new -> [attempts : Nat, age : 0..AgeCap]]
         /\ \A o \in S : new[o] = entries[o]
<1>1. B!Restrict(entries, S) = [o \in S |-> entries[o]]
  BY DEF B!Restrict
<1>2. \A o \in S : entries[o] \in [attempts : Nat, age : 0..AgeCap]
  BY DEF Typed
<1> QED
  BY <1>1, <1>2

LEMMA StartKeeps ==
  ASSUME GateInv, NEW k \in Keys, Start(k)
  PROVE  GateInv'
<1> DEFINE s == [NotYet EXCEPT !.stage = "checking", !.calm = TRUE]
<1>1. Fresh(s, "checking", TRUE)
  BY FreshIs DEF Stages
<1>2. Step(k, s) /\ UNCHANGED <<entries, events>>
  BY DEF Start
<1> HIDE DEF s
<1>3. Sound(s, setup.groups, objs)
  BY <1>1, SetupIs, FreshIsSound DEF GateInv, Fresh
<1>4. Touched(k, s, entries')
  BY <1>1 DEF Touched, Fresh
<1> QED
  BY <1>1, <1>2, <1>3, <1>4, StepKeeps DEF GateInv, Typed, Fresh

LEMMA TriggerKeeps ==
  ASSUME GateInv, NEW k \in Keys, Trigger(k)
  PROVE  GateInv'
<1>1. Step(k, NotYet) /\ entries' = entries /\ events' \in Nat
  BY DEF Trigger, Event, GateInv, Typed
<1>2. /\ NotYet \in Syncs /\ NotYet.stage = "waiting" /\ NotYet.calm = FALSE
      /\ NotYet.subs = <<>> /\ NotYet.results = <<>> /\ NotYet.backoff = FALSE
  <2> DEFINE empty == <<>>
  <2>1. empty \in Seq(Results) /\ empty \in Seq(E!Errors) /\ "waiting" \in Stages
    BY DEF Stages
  <2> HIDE DEF empty
  <2> QED
    BY <2>1 DEF NotYet, Syncs, empty
<1>3. Sound(NotYet, setup.groups, objs)
  BY <1>2, SetupIs, FreshIsSound DEF GateInv
<1>4. Touched(k, NotYet, entries')
  BY <1>2 DEF Touched
<1> QED
  BY <1>1, <1>2, <1>3, <1>4, StepKeeps DEF GateInv, Typed

LEMMA CheckNextKeeps ==
  ASSUME GateInv, NEW k \in Keys, CheckNext(k)
  PROVE  GateInv'
<1> DEFINE s == sync[k]
           gs == setup.groups
           g == gs[Len(s.results) + 1]
           p == g.of[Len(s.subs) + 1]
           r == Check(p, objs[p.on])
           new == Answered(s, g, r)
<1>1. s \in Syncs /\ objs \in [Deps -> Objects] /\ Sound(s, gs, objs) /\ gs \in Seq(Groups)
  BY SetupIs DEF GateInv, Typed
<1>2. /\ s.stage = "checking" /\ Len(s.results) # Len(gs)
      /\ Step(k, new) /\ UNCHANGED <<entries, events>>
  BY DEF CheckNext, Checked, Group
<1>3. Len(s.results) \in Nat /\ Len(gs) \in Nat /\ Len(s.subs) \in Nat
  <2>1. s.results \in Seq(Results) /\ s.subs \in Seq(Results)
    BY <1>1 DEF Syncs
  <2> QED
    BY <1>1, <2>1
<1>4. Len(s.results) < Len(gs) /\ Len(s.subs) < Len(g.of)
  <2> HIDE DEF s, gs
  <2>1. /\ Len(s.results) <= Len(gs)
        /\ Len(s.results) < Len(gs) => Len(s.subs) < Len(g.of)
    BY <1>1, <1>2 DEF Sound
  <2> QED
    BY <1>2, <1>3, <2>1
<1>5. p \in Prereqs /\ p.on \in Deps
  <2>1. g \in Groups
    BY <1>1, <1>3, <1>4
  <2> HIDE DEF g
  <2>2. Len(s.subs) + 1 \in 1..Len(g.of)
    BY <1>3, <1>4, <2>1, GroupIs
  <2> QED
    BY <2>1, <2>2, GroupIs
<1>6. r \in Results /\ TellsFor(r, p, objs[p.on])
  BY <1>1, <1>5, CheckTells
<1> HIDE DEF r
<1>7. /\ new \in Syncs /\ Sound(new, gs, objs)
      /\ new.stage = "checking" /\ new.backoff = s.backoff /\ new.wait = s.wait
  BY <1>1, <1>2, <1>4, <1>6, AnsweredIs
<1> HIDE DEF new, gs
<1>8. Touched(k, s, entries)
  BY DEF GateInv
<1>9. Touched(k, new, entries')
  BY <1>2, <1>7, <1>8 DEF Touched
<1> QED
  BY <1>2, <1>7, <1>9, StepKeeps DEF GateInv, Typed, gs

LEMMA CheckFailsKeeps ==
  ASSUME GateInv, NEW k \in Keys, CheckFails(k)
  PROVE  GateInv'
<1> DEFINE s == sync[k]
           t == [s EXCEPT !.calm = FALSE]
           gs == setup.groups
           r == Unsatisfied(0)
           new == Answered(t, gs[Len(t.results) + 1], r)
<1>1. /\ s \in Syncs /\ objs \in [Deps -> Objects] /\ Sound(s, gs, objs) /\ gs \in Seq(Groups)
      /\ Touched(k, s, entries)
  BY SetupIs DEF GateInv, Typed
<1>2. /\ t \in Syncs /\ Sound(t, gs, objs) /\ Touched(k, t, entries)
      /\ t.stage = s.stage /\ t.results = s.results /\ t.calm = FALSE
  <2>1. t \in Syncs /\ t.stage = s.stage /\ t.results = s.results /\ t.calm = FALSE
    BY <1>1 DEF Syncs
  <2> QED
    BY <1>1, <2>1, Disturbed
<1>3. /\ s.stage = "checking" /\ Len(s.results) # Len(gs)
      /\ Step(k, Answered(t, gs[Len(s.results) + 1], r)) /\ entries' = entries
      /\ events' \in Nat
  BY DEF CheckFails, Checked, Group, Event, GateInv, Typed
<1>4. Len(t.results) < Len(gs)
  <2>1. t.results \in Seq(Results)
    BY <1>2 DEF Syncs
  <2> QED
    BY <1>1, <1>2, <1>3, <2>1 DEF Sound
<1>5. r \in Results
  BY AnswersAre
<1>6. t.stage = "checking" /\ Step(k, new)
  BY <1>2, <1>3
<1> HIDE DEF r, t
<1>7. /\ new \in Syncs /\ Sound(new, gs, objs)
      /\ new.stage = "checking" /\ new.backoff = t.backoff /\ new.wait = t.wait
  BY <1>1, <1>2, <1>4, <1>5, <1>6, AnsweredIs
<1> HIDE DEF new, gs
<1>8. Touched(k, new, entries')
  BY <1>2, <1>3, <1>7 DEF Touched
<1> QED
  BY <1>3, <1>6, <1>7, <1>8, StepKeeps DEF GateInv, Typed, gs

LEMMA DecideKeeps ==
  ASSUME GateInv, NEW k \in Keys, Decide(k)
  PROVE  GateInv'
<1> DEFINE rs == sync[k].results
           delay == GetRetryAfter(rs, DefaultRetry)
           work == [NotYet EXCEPT !.stage = "working"]
<1>1. rs \in Seq(Results) /\ events' \in Nat /\ setup.groups \in Seq(Groups)
  BY SetupIs DEF GateInv, Typed, Syncs, Decide
<1>2. CASE AllSatisfied(rs)
  <2>1. Step(k, work) /\ entries' = entries
    BY <1>2 DEF Decide
  <2>2. /\ work \in Syncs /\ work.stage = "working" /\ work.calm = FALSE
        /\ work.subs = <<>> /\ work.results = <<>> /\ work.backoff = FALSE
    BY FreshIs DEF Stages, Fresh
  <2> HIDE DEF work
  <2>3. Sound(work, setup.groups, objs)
    BY <1>1, <2>2, FreshIsSound
  <2>4. Touched(k, work, entries')
    BY <2>2 DEF Touched
  <2> QED
    BY <1>1, <2>1, <2>2, <2>3, <2>4, StepKeeps DEF GateInv, Typed
<1>3. CASE ~AllSatisfied(rs)
  <2> DEFINE wait == Wait(delay, FALSE)
             new == B!RecordSuccess(entries, k)
  <2>1. Step(k, wait) /\ entries' = new
    BY <1>3 DEF Decide
  <2>2. delay \in Nat
    BY <1>1, <1>3, RetryAfterIs
  <2> HIDE DEF delay
  <2>3. /\ wait \in Syncs /\ wait.stage = "waiting" /\ wait.calm = FALSE
        /\ wait.subs = <<>> /\ wait.results = <<>> /\ wait.backoff = FALSE
    BY <2>2, WaitIs
  <2>4. /\ DOMAIN new = DOMAIN entries
        /\ new \in [DOMAIN new -> [attempts : Nat, age : 0..AgeCap]]
        /\ \A o \in DOMAIN new : o # k => new[o] = entries[o]
    BY RecordSuccessIs DEF GateInv
  <2> HIDE DEF wait, new
  <2>5. Sound(wait, setup.groups, objs)
    BY <1>1, <2>3, FreshIsSound
  <2>6. Touched(k, wait, entries')
    BY <2>3 DEF Touched
  <2>7. DOMAIN entries \subseteq Keys
    BY DEF GateInv, Typed
  <2> QED
    BY <1>1, <2>1, <2>3, <2>4, <2>5, <2>6, <2>7, StepKeeps
<1> QED
  BY <1>2, <1>3

LEMMA SucceedKeeps ==
  ASSUME GateInv, NEW k \in Keys, Succeed(k)
  PROVE  GateInv'
<1> DEFINE done == [NotYet EXCEPT !.stage = "done"]
           new == B!RecordSuccess(entries, k)
<1>1. /\ Step(k, done) /\ entries' = new /\ events' \in Nat
      /\ setup.groups \in Seq(Groups) /\ DOMAIN entries \subseteq Keys
  BY SetupIs DEF Succeed, GateInv, Typed
<1>2. /\ done \in Syncs /\ done.stage = "done" /\ done.calm = FALSE
      /\ done.subs = <<>> /\ done.results = <<>> /\ done.backoff = FALSE
  BY FreshIs DEF Stages, Fresh
<1>3. /\ DOMAIN new = DOMAIN entries
      /\ new \in [DOMAIN new -> [attempts : Nat, age : 0..AgeCap]]
      /\ \A o \in DOMAIN new : o # k => new[o] = entries[o]
  BY RecordSuccessIs DEF GateInv
<1> HIDE DEF done, new
<1>4. Sound(done, setup.groups, objs)
  BY <1>1, <1>2, FreshIsSound
<1>5. Touched(k, done, entries')
  BY <1>2 DEF Touched
<1> QED
  BY <1>1, <1>2, <1>3, <1>4, <1>5, StepKeeps

LEMMA FailKeeps ==
  ASSUME GateInv, NEW k \in Keys, NEW errs \in Failures, Fail(k, errs)
  PROVE  GateInv'
<1> DEFINE s == [NotYet EXCEPT !.stage = "failed", !.errs = errs]
           new == B!RecordFailure(entries, k)
<1>1. /\ Step(k, s) /\ entries' = new /\ events' \in Nat
      /\ setup.groups \in Seq(Groups) /\ DOMAIN entries \subseteq Keys
  BY SetupIs DEF Fail, Event, GateInv, Typed
<1>2. Fresh(s, "failed", FALSE) /\ s.errs = errs
  <2>1. "failed" \in Stages /\ errs \in Seq(E!Errors)
    BY FailuresAssumption DEF Stages
  <2> QED
    BY <2>1, FreshIs
<1>3. /\ DOMAIN new = DOMAIN entries \cup {k}
      /\ new \in [DOMAIN new -> [attempts : Nat, age : 0..AgeCap]]
      /\ new[k].age = 0
      /\ \A o \in DOMAIN new : o # k => new[o] = entries[o]
  BY RecordFailureIs DEF GateInv
<1> HIDE DEF s, new
<1>4. Sound(s, setup.groups, objs)
  BY <1>1, <1>2, FreshIsSound DEF Fresh
<1>5. Touched(k, s, entries')
  BY <1>1, <1>2, <1>3 DEF Touched, Fresh
<1> QED
  BY <1>1, <1>2, <1>3, <1>4, <1>5, StepKeeps DEF Fresh

LEMMA RequeueKeeps ==
  ASSUME GateInv, NEW k \in Keys, Requeue(k)
  PROVE  GateInv'
<1> DEFINE hint == E!GetRetryAfter(E!ListError(sync[k].errs))
           stop == [NotYet EXCEPT !.stage = "stopped"]
<1>1. /\ sync[k].stage = "failed" /\ entries' = entries /\ events' \in Nat
      /\ setup.groups \in Seq(Groups) /\ DOMAIN entries \subseteq Keys
      /\ entries \in [DOMAIN entries -> [attempts : Nat, age : 0..AgeCap]]
  BY SetupIs DEF Requeue, GateInv, Typed
<1>2. PICK delay \in B!GetBackoff(entries, k, setup.strategy, elapsed) :
        \/ hint > 0 /\ Step(k, Wait(hint, FALSE))
        \/ delay > 0 /\ Step(k, Wait(delay, TRUE))
        \/ Step(k, stop)
        \/ Step(k, Wait(RateLimit, FALSE))
  BY DEF Requeue
<1>3. delay \in Nat /\ delay <= MaxAge
  BY BackoffType DEF GateInv
<1>4. hint \in Nat
  <2>1. sync[k].errs \in Failures
    BY <1>1 DEF GateInv, Sound
  <2>2. sync[k].errs \in Seq(E!Errors) /\ sync[k].errs # <<>>
    BY <2>1, FailuresAssumption
  <2> QED
    BY <2>2, HintType
<1> HIDE DEF hint
<1>5. Touched(k, sync[k], entries)
  BY DEF GateInv
<1>6. ASSUME NEW n \in Nat, NEW backoff \in BOOLEAN, Step(k, Wait(n, backoff)),
             backoff => n <= MaxAge
      PROVE  GateInv'
  <2> DEFINE s == Wait(n, backoff)
  <2>1. /\ s \in Syncs /\ s.stage = "waiting" /\ s.calm = FALSE /\ s.backoff = backoff
        /\ s.wait = n /\ s.subs = <<>> /\ s.results = <<>>
    BY WaitIs
  <2>2. Step(k, s)
    BY <1>6
  <2> HIDE DEF s
  <2>3. Sound(s, setup.groups, objs)
    BY <1>1, <2>1, FreshIsSound
  <2>4. Touched(k, s, entries')
    BY <1>1, <1>5, <1>6, <2>1 DEF Touched
  <2> QED
    BY <1>1, <2>1, <2>2, <2>3, <2>4, StepKeeps
<1>7. ASSUME Step(k, stop) PROVE GateInv'
  <2>1. Fresh(stop, "stopped", FALSE)
    BY FreshIs DEF Stages
  <2> HIDE DEF stop
  <2>2. Sound(stop, setup.groups, objs)
    BY <1>1, <2>1, FreshIsSound DEF Fresh
  <2>3. Touched(k, stop, entries')
    BY <2>1 DEF Touched, Fresh
  <2> QED
    BY <1>1, <1>7, <2>1, <2>2, <2>3, StepKeeps DEF Fresh
<1>8. RateLimit \in Nat
  BY DelaysAssumption
<1> HIDE DEF stop
<1> QED
  BY <1>2, <1>3, <1>4, <1>6, <1>7, <1>8

-----------------------------------------------------------------------------
(***************************************************************************)
(* The other steps.                                                        *)
(***************************************************************************)
\* Entries that are taken away leave the others as they are.
LEMMA LessKeeps ==
  ASSUME GateInv, UNCHANGED <<objs, log, sync, setup, elapsed>>, events' \in Nat,
         NEW S \in SUBSET DOMAIN entries, entries' = B!Restrict(entries, S)
  PROVE  GateInv'
<1>1. /\ DOMAIN entries' = S
      /\ entries' \in [DOMAIN entries' -> [attempts : Nat, age : 0..AgeCap]]
      /\ \A o \in S : entries'[o] = entries[o]
  BY RestrictIs DEF GateInv
<1>2. Typed'
  BY <1>1 DEF GateInv, Typed
<1>3. \A k \in Keys : Touched(k, sync[k], entries')
  BY <1>1 DEF GateInv, Touched
<1>4. Tracked'
  BY DEF GateInv, Tracked
<1> QED
  BY <1>2, <1>3, <1>4 DEF GateInv

LEMMA TickKeeps ==
  ASSUME GateInv, Tick
  PROVE  GateInv'
<1>0. objs' = [d \in Deps |-> AgedObject(objs[d])]
  BY DEF Tick, AgedObject
<1> USE DEF GateInv
<1>1. /\ objs \in [Deps -> Objects] /\ sync \in [Keys -> Syncs]
      /\ log \in [Deps -> [ConditionTypes -> [old : Statuses, new : Statuses, time : Nat]]]
      /\ DOMAIN entries \subseteq Keys
      /\ entries \in [DOMAIN entries -> [attempts : Nat, age : 0..AgeCap]]
  BY DEF Typed
<1>2. objs' = [d \in Deps |-> AgedObject(objs[d])]
  BY <1>0
<1>3. ASSUME NEW d \in Deps
      PROVE  /\ AgedObject(objs[d]) \in Objects
             /\ AgedObject(objs[d]).conds = Aged(objs[d].conds)
             /\ objs[d].conds \in Seq(Condition) /\ Unique(objs[d].conds)
  <2>1. objs[d].conds \in Seq(Condition) /\ Unique(objs[d].conds)
    BY <1>1 DEF Objects
  <2>2. Aged(objs[d].conds) \in Seq(Condition) /\ Unique(Aged(objs[d].conds))
    BY <2>1, AgedIs
  <2>3. objs[d] \in Objects
    BY <1>1
  <2> QED
    BY <2>1, <2>2, <2>3 DEF AgedObject, Objects
<1>4. objs' \in [Deps -> Objects]
  BY <1>2, <1>3
<1>5. /\ log' \in [Deps -> [ConditionTypes -> [old : Statuses, new : Statuses, time : Nat]]]
      /\ \A d \in Deps, t \in ConditionTypes :
           log'[d][t].new = log[d][t].new /\ log'[d][t].time = Older(log[d][t].time)
  <2> DEFINE older(d, t) == [log[d][t] EXCEPT !.time = Older(@)]
  <2>1. log' = [d \in Deps |-> [t \in ConditionTypes |-> older(d, t)]]
    BY DEF Tick
  <2>2. ASSUME NEW d \in Deps, NEW t \in ConditionTypes
        PROVE  /\ older(d, t) \in [old : Statuses, new : Statuses, time : Nat]
               /\ older(d, t).new = log[d][t].new
               /\ older(d, t).time = Older(log[d][t].time)
    <3>1. log[d][t] \in [old : Statuses, new : Statuses, time : Nat]
      BY <1>1
    <3>2. Older(log[d][t].time) \in Nat
      BY <3>1, OlderType
    <3> QED
      BY <3>1, <3>2
  <2> HIDE DEF older
  <2> QED
    BY <2>1, <2>2
<1>6. Tracked'
  <2> SUFFICES ASSUME NEW d \in Deps, NEW t \in ConditionTypes
               PROVE  /\ log'[d][t].new = StatusOf(objs'[d].conds, t)
                      /\ log'[d][t].new # "Unknown" =>
                           log'[d][t].time = LastTransitionTime(objs'[d].conds, t)
    BY DEF Tracked
  <2>1. /\ log[d][t].new = StatusOf(objs[d].conds, t)
        /\ log[d][t].new # "Unknown" =>
             log[d][t].time = LastTransitionTime(objs[d].conds, t)
    BY DEF Tracked
  <2> DEFINE conds == objs[d].conds
  <2>2. objs'[d].conds = Aged(conds) /\ conds \in Seq(Condition) /\ Unique(conds)
    BY <1>2, <1>3
  <2> HIDE DEF conds
  <2>3. /\ StatusOf(Aged(conds), t) = StatusOf(conds, t)
        /\ HasCondition(conds, t) =>
             LastTransitionTime(Aged(conds), t) = Older(LastTransitionTime(conds, t))
    BY <2>2, AgedIs
  <2>4. StatusOf(conds, t) # "Unknown" => HasCondition(conds, t)
    BY DEF StatusOf
  <2> QED
    BY <1>5, <2>1, <2>2, <2>3, <2>4 DEF conds
<1> DEFINE left(k) == IF sync[k].wait > 0 THEN sync[k].wait - 1 ELSE 0
           later(k) == [sync[k] EXCEPT !.wait = left(k)]
<1>7. sync' = [k \in Keys |-> later(k)]
  BY DEF Tick
<1>8. ASSUME NEW k \in Keys
      PROVE  /\ later(k) \in Syncs /\ Sound(later(k), setup.groups, objs')
             /\ left(k) \in Nat
             /\ later(k).wait = left(k) /\ later(k).backoff = sync[k].backoff
             /\ later(k).stage = sync[k].stage
             /\ sync[k].wait \in Nat
  <2>1. sync[k] \in Syncs /\ Sound(sync[k], setup.groups, objs) /\ setup.groups \in Seq(Groups)
    BY <1>1, SetupIs
  <2>2. sync[k].wait \in Nat
    BY <2>1 DEF Syncs
  <2>3. left(k) \in Nat
    BY <2>2
  <2> HIDE DEF left
  <2>4. later(k) \in Syncs /\ Sound(later(k), setup.groups, objs')
    BY <1>1, <1>2, <2>1, <2>3, SoundAges
  <2>5. /\ later(k).wait = left(k) /\ later(k).backoff = sync[k].backoff
        /\ later(k).stage = sync[k].stage
    BY <2>1 DEF Syncs
  <2> QED
    BY <2>2, <2>3, <2>4, <2>5
<1>9. /\ DOMAIN entries' = DOMAIN entries
      /\ entries' \in [DOMAIN entries' -> [attempts : Nat, age : 0..AgeCap]]
      /\ \A k \in DOMAIN entries : entries'[k].age \in Nat /\ entries'[k].age <= entries[k].age + 1
  <2> DEFINE older(k) == [entries[k] EXCEPT !.age = Older(@)]
  <2>1. entries' = [k \in DOMAIN entries |-> older(k)]
    BY DEF Tick
  <2>2. ASSUME NEW k \in DOMAIN entries
        PROVE  /\ older(k) \in [attempts : Nat, age : 0..AgeCap]
               /\ older(k).age \in Nat /\ older(k).age <= entries[k].age + 1
    <3>1. entries[k] \in [attempts : Nat, age : 0..AgeCap] /\ AgeCap \in Nat
      BY <1>1, DelaysAssumption
    <3>2. /\ Older(entries[k].age) \in 0..AgeCap
          /\ Older(entries[k].age) <= entries[k].age + 1
      BY <3>1, OlderType
    <3>3. older(k) \in [attempts : Nat, age : 0..AgeCap] /\ older(k).age = Older(entries[k].age)
      BY <3>1, <3>2
    <3> HIDE DEF older
    <3> QED
      BY <3>1, <3>2, <3>3
  <2> HIDE DEF older
  <2> QED
    BY <2>1, <2>2
<1>10. ASSUME NEW k \in Keys PROVE Touched(k, sync'[k], entries')
  <2> SUFFICES ASSUME k \in DOMAIN entries
               PROVE  later(k).backoff /\ later(k).wait > 0 =>
                        entries'[k].age + later(k).wait <= MaxAge
    <3>1. sync'[k] = later(k)
      BY <1>7
    <3>2. sync[k].stage # "failed"
      BY DEF Tick
    <3> HIDE DEF later
    <3> QED
      BY <1>8, <1>9, <3>1, <3>2 DEF Touched
  <2> HIDE DEF later, left
  <2> SUFFICES ASSUME sync[k].backoff, left(k) > 0
               PROVE  entries'[k].age + left(k) <= MaxAge
    BY <1>8
  <2> USE DEF left
  <2>1. sync[k].wait \in Nat /\ sync[k].wait > 0 /\ left(k) = sync[k].wait - 1
    BY <1>8
  <2>2. entries[k].age + sync[k].wait <= MaxAge
    BY <2>1 DEF Touched
  <2>3. /\ entries'[k].age \in Nat /\ entries'[k].age <= entries[k].age + 1
        /\ entries[k].age \in Nat /\ MaxAge \in Nat
    BY <1>1, <1>9, DelaysAssumption
  <2> HIDE DEF left
  <2> QED
    BY <2>1, <2>2, <2>3
<1>11. Typed'
  <2>1. sync' \in [Keys -> Syncs]
    BY <1>7, <1>8
  <2>2. UNCHANGED <<setup, elapsed, events>>
    BY DEF Tick
  <2> QED
    BY <1>1, <1>4, <1>5, <1>9, <2>1, <2>2 DEF Typed
<1>12. \A k \in Keys : Sound(sync'[k], setup'.groups, objs')
  <2>1. setup' = setup /\ \A k \in Keys : sync'[k] = later(k)
    BY <1>7 DEF Tick
  <2> HIDE DEF later
  <2> QED
    BY <1>8, <2>1
<1> QED
  BY <1>6, <1>10, <1>11, <1>12

LEMMA InvStart == Init => GateInv
<1> SUFFICES ASSUME Init PROVE GateInv
  OBVIOUS
<1>1. /\ objs \in [Deps -> Objects] /\ \A d \in Deps : objs[d].conds = <<>>
  <2> DEFINE empty == <<>>
  <2>1. empty \in Seq(Condition) /\ Unique(empty)
    BY EmptyIs
  <2> HIDE DEF empty
  <2>2. objs \in [Deps -> [exists : {TRUE}, keys : {{}}, conditional : BOOLEAN, conds : {empty}]]
    BY DEF Init, empty
  <2>3. ASSUME NEW d \in Deps PROVE objs[d] \in Objects /\ objs[d].conds = empty
    <3>1. objs[d] \in [exists : {TRUE}, keys : {{}}, conditional : BOOLEAN, conds : {empty}]
      BY <2>2
    <3> QED
      BY <2>1, <3>1 DEF Objects
  <2> QED
    BY <2>2, <2>3 DEF empty
<1>2. /\ NotYet \in Syncs /\ NotYet.stage = "waiting" /\ NotYet.calm = FALSE
      /\ NotYet.subs = <<>> /\ NotYet.results = <<>> /\ NotYet.backoff = FALSE
  <2> DEFINE empty == <<>>
  <2>1. empty \in Seq(Results) /\ empty \in Seq(E!Errors) /\ "waiting" \in Stages
    BY DEF Stages
  <2> HIDE DEF empty
  <2> QED
    BY <2>1 DEF NotYet, Syncs, empty
<1>3. NoTransition \in [old : Statuses, new : Statuses, time : Nat]
  BY DEF NoTransition, Statuses
<1>4. /\ sync = [k \in Keys |-> NotYet] /\ DOMAIN entries = {}
      /\ entries = [k \in {} |-> 0]
      /\ setup \in Setups /\ elapsed = FALSE /\ events = 0
      /\ log = [d \in Deps |-> [t \in ConditionTypes |-> NoTransition]]
  BY DEF Init
<1>5. Typed
  <2>1. sync \in [Keys -> Syncs]
    BY <1>2, <1>4
  <2>2. entries \in [DOMAIN entries -> [attempts : Nat, age : 0..AgeCap]]
    BY <1>4
  <2>3. log \in [Deps -> [ConditionTypes -> [old : Statuses, new : Statuses, time : Nat]]]
    BY <1>3, <1>4
  <2> QED
    BY <1>1, <1>4, <2>1, <2>2, <2>3 DEF Typed
<1>6. \A k \in Keys : Sound(sync[k], setup.groups, objs)
  <2>1. setup.groups \in Seq(Groups)
    BY <1>5, SetupIs
  <2> QED
    BY <1>2, <1>4, <2>1, FreshIsSound
<1>7. \A k \in Keys : Touched(k, sync[k], entries)
  BY <1>4 DEF Touched
<1>8. Tracked
  BY <1>1, <1>4, EmptyIs DEF Tracked, NoTransition
<1> QED
  BY <1>5, <1>6, <1>7, <1>8 DEF GateInv

LEMMA InvStep == GateInv /\ [Next]_vars => GateInv'
<1> SUFFICES ASSUME GateInv, [Next]_vars PROVE GateInv'
  OBVIOUS
<1>1. CASE UNCHANGED vars
  BY <1>1 DEF GateInv, Typed, Tracked, vars
<1>2. ASSUME NEW d \in Deps, NEW t \in ConditionTypes, Withdraw(d, t) PROVE GateInv'
  BY <1>2, WithdrawKeeps
<1>3. ASSUME NEW d \in Deps, NEW t \in ConditionTypes, NEW s \in Statuses,
             SetCondition(d, t, s)
      PROVE  GateInv'
  BY <1>3, SetConditionKeeps
<1>4. ASSUME NEW d \in Deps, DeleteOrCreate(d) PROVE GateInv'
  BY <1>4, DeleteOrCreateKeeps
<1>5. ASSUME NEW d \in Deps, NEW keys \in SUBSET {"data", "binary"}, Edit(d, keys)
      PROVE  GateInv'
  BY <1>5, EditKeeps
<1>6. ASSUME NEW k \in Keys, Work(k) PROVE GateInv'
  BY <1>6, StartKeeps, CheckNextKeeps, DecideKeeps, SucceedKeeps, RequeueKeeps DEF Work
<1>7. ASSUME NEW k \in Keys, Trigger(k) \/ CheckFails(k) PROVE GateInv'
  BY <1>7, TriggerKeeps, CheckFailsKeeps
<1>8. ASSUME NEW k \in Keys, NEW errs \in Failures, Fail(k, errs) PROVE GateInv'
  BY <1>8, FailKeeps
<1>9. ASSUME NEW keys, ResetKeys(keys) PROVE GateInv'
  <2>1. DOMAIN entries \ keys \in SUBSET DOMAIN entries
    OBVIOUS
  <2>2. entries' = B!Restrict(entries, DOMAIN entries \ keys)
    BY <1>9 DEF ResetKeys, B!ResetKeys
  <2>3. events' \in Nat /\ UNCHANGED <<objs, log, sync, setup, elapsed>>
    BY <1>9 DEF ResetKeys, Event, GateInv, Typed
  <2> QED
    BY <2>1, <2>2, <2>3, LessKeeps
<1>10. CASE Clean
  <2> DEFINE S == {k \in DOMAIN entries : entries[k].age <= MaxAge}
  <2>1. S \in SUBSET DOMAIN entries
    OBVIOUS
  <2>2. entries' = B!Restrict(entries, S)
    BY <1>10 DEF Clean, B!Cleanup
  <2> HIDE DEF S
  <2>3. events' \in Nat /\ UNCHANGED <<objs, log, sync, setup, elapsed>>
    BY <1>10 DEF Clean, GateInv, Typed
  <2> QED
    BY <2>1, <2>2, <2>3, LessKeeps
<1>11. CASE Tick
  BY <1>11, TickKeeps
<1>12. CASE MaxElapsedTimePasses
  <2>1. UNCHANGED <<objs, log, sync, entries, setup, events>> /\ elapsed' = TRUE
    BY <1>12 DEF MaxElapsedTimePasses
  <2> QED
    BY <2>1 DEF GateInv, Typed, Tracked
<1> QED
  BY <1>1, <1>2, <1>3, <1>4, <1>5, <1>6, <1>7, <1>8, <1>9, <1>10, <1>11, <1>12 DEF Next

\* The inductive invariant holds.
THEOREM GateInvariance == Spec => []GateInv
<1> QED
  BY InvStart, InvStep, PTL DEF Spec

(***************************************************************************)
(* Every list of conditions has a type once, CheckAll never looks past the *)
(* last prerequisite, and the tracker has entries of the keys alone.       *)
(***************************************************************************)
THEOREM TypeCorrect == Spec => []TypeOK
<1>1. GateInv => TypeOK
  <2> SUFFICES ASSUME GateInv PROVE TypeOK
    OBVIOUS
  <2>1. \A d \in Deps : objs[d].conds \in Seq(Condition) /\ Unique(objs[d].conds)
    BY DEF GateInv, Typed, Objects
  <2>2. \A k \in Keys : sync[k].stage \in Stages /\ sync[k].wait \in Nat
    BY DEF GateInv, Typed, Syncs
  <2>3. \A k \in Keys : Len(sync[k].results) <= Len(setup.groups)
    BY DEF GateInv, Sound
  <2>4. /\ DOMAIN entries \subseteq Keys
        /\ \A k \in DOMAIN entries : entries[k].attempts \in Nat /\ entries[k].age \in 0..AgeCap
    <3>1. \A k \in DOMAIN entries : entries[k] \in [attempts : Nat, age : 0..AgeCap]
      BY DEF GateInv, Typed
    <3> QED
      BY <3>1 DEF GateInv, Typed
  <2> QED
    BY <2>1, <2>2, <2>3, <2>4 DEF TypeOK
<1> QED
  BY <1>1, GateInvariance, PTL

(***************************************************************************)
(* The transition tracker knows every condition's status and the time of   *)
(* its last transition, whatever the dependencies' controllers call.       *)
(***************************************************************************)
THEOREM TrackedCorrect == Spec => []Tracked
<1>1. GateInv => Tracked
  BY DEF GateInv
<1> QED
  BY <1>1, GateInvariance, PTL

-----------------------------------------------------------------------------
(***************************************************************************)
(* What a step may not do.                                                 *)
(***************************************************************************)
\* A key's stage is changed by its own steps only.
LEMMA Moves ==
  ASSUME GateInv, Next, NEW k \in Keys, sync'[k].stage # sync[k].stage
  PROVE  Work(k) \/ Trigger(k) \/ CheckFails(k) \/ \E errs \in Failures : Fail(k, errs)
<1>0. sync \in [Keys -> Syncs]
  BY DEF GateInv, Typed
<1>1. \A d \in Deps : \A obj : ~Becomes(d, obj)
  <2> SUFFICES ASSUME NEW d \in Deps, NEW obj, Becomes(d, obj)
               PROVE  sync'[k].stage = sync[k].stage
    OBVIOUS
  <2>1. CASE sync' = sync
    BY <2>1
  <2>2. CASE sync' = [o \in Keys |-> [sync[o] EXCEPT !.calm = FALSE]]
    <3>1. sync'[k] = [sync[k] EXCEPT !.calm = FALSE] /\ sync[k] \in Syncs
      BY <1>0, <2>2
    <3> QED
      BY <3>1 DEF Syncs
  <2> QED
    BY <2>1, <2>2 DEF Becomes
<1>2. ~Clean /\ ~MaxElapsedTimePasses /\ \A keys : ~ResetKeys(keys)
  BY DEF Clean, MaxElapsedTimePasses, ResetKeys
<1>3. ~Tick
  <2> SUFFICES ASSUME Tick PROVE FALSE
    OBVIOUS
  <2>1. \E wait : sync'[k] = [sync[k] EXCEPT !.wait = wait]
    BY DEF Tick
  <2>2. sync[k] \in Syncs
    BY <1>0
  <2> QED
    BY <2>1, <2>2 DEF Syncs
<1>4. \A o \in Keys : \A s : Step(o, s) => o = k
  BY <1>0 DEF Step
<1>5. \A o \in Keys :
        (Work(o) \/ Trigger(o) \/ CheckFails(o) \/ \E errs \in Failures : Fail(o, errs)) => o = k
  <2> SUFFICES ASSUME NEW o \in Keys, o # k
               PROVE  ~(Work(o) \/ Trigger(o) \/ CheckFails(o)
                          \/ \E errs \in Failures : Fail(o, errs))
    OBVIOUS
  <2>1. \A s : ~Step(o, s)
    BY <1>4
  <2> QED
    BY <2>1 DEF Work, Start, CheckNext, Decide, Succeed, Requeue, Trigger, CheckFails, Fail
<1>6. \A d \in Deps :
        /\ \A t : ~Withdraw(d, t) /\ \A s : ~SetCondition(d, t, s)
        /\ ~DeleteOrCreate(d) /\ \A keys : ~Edit(d, keys)
  BY <1>1 DEF Withdraw, SetCondition, DeleteOrCreate, Edit
<1> QED
  BY <1>2, <1>3, <1>5, <1>6 DEF Next

\* An answer leaves the stage.
LEMMA AnsweredStays ==
  ASSUME NEW s \in Syncs, NEW g, NEW r
  PROVE  Answered(s, g, r).stage = s.stage
BY DEF Answered, Syncs

LEMMA ChecksStay ==
  ASSUME GateInv, NEW k \in Keys, CheckNext(k) \/ CheckFails(k)
  PROVE  sync'[k].stage = sync[k].stage
<1>1. sync \in [Keys -> Syncs]
  BY DEF GateInv, Typed
<1>2. \A s : Step(k, s) => sync'[k] = s
  BY <1>1 DEF Step
<1> DEFINE calmless == [sync[k] EXCEPT !.calm = FALSE]
<1>3. PICK g, r : Step(k, Answered(sync[k], g, r)) \/ Step(k, Answered(calmless, g, r))
  BY DEF CheckNext, CheckFails
<1> HIDE DEF calmless
<1>4. sync[k] \in Syncs /\ calmless \in Syncs /\ calmless.stage = sync[k].stage
  BY <1>1 DEF calmless, Syncs
<1>5. /\ Answered(sync[k], g, r).stage = sync[k].stage
      /\ Answered(calmless, g, r).stage = sync[k].stage
  BY <1>4, AnsweredStays
<1> DEFINE a == Answered(sync[k], g, r)
           b == Answered(calmless, g, r)
<1>6. a.stage = sync[k].stage /\ b.stage = sync[k].stage /\ (Step(k, a) \/ Step(k, b))
  BY <1>3, <1>5
<1> HIDE DEF a, b
<1> QED
  BY <1>2, <1>6

\* From CheckAll to waiting there is only its refusal.
LEMMA Refuses ==
  ASSUME GateInv, Next, NEW k \in Keys,
         sync[k].stage = "checking", sync'[k].stage = "waiting"
  PROVE  /\ Checked(k) /\ ~AllSatisfied(sync[k].results)
         /\ sync'[k].wait = GetRetryAfter(sync[k].results, DefaultRetry)
<1> DEFINE rs == sync[k].results
           delay == GetRetryAfter(rs, DefaultRetry)
           work == [NotYet EXCEPT !.stage = "working"]
<1>1. Work(k) \/ Trigger(k) \/ CheckFails(k) \/ \E errs \in Failures : Fail(k, errs)
  BY Moves
<1>2. Decide(k)
  <2>1. ~Trigger(k) /\ \A errs \in Failures : ~Fail(k, errs)
    BY DEF Trigger, Fail
  <2>2. ~Start(k) /\ ~Succeed(k) /\ ~Requeue(k)
    BY DEF Start, Succeed, Requeue
  <2>3. ~CheckFails(k) /\ ~CheckNext(k)
    BY ChecksStay
  <2> QED
    BY <1>1, <2>1, <2>2, <2>3 DEF Work
<1>3. \A s : Step(k, s) => sync'[k] = s
  BY DEF Step, GateInv, Typed
<1>4. ~AllSatisfied(rs)
  <2> SUFFICES ASSUME AllSatisfied(rs) PROVE FALSE
    OBVIOUS
  <2>1. Step(k, work)
    BY <1>2 DEF Decide
  <2>2. work.stage = "working"
    BY DEF NotYet
  <2> HIDE DEF work
  <2> QED
    BY <1>3, <2>1, <2>2
<1>5. sync'[k] = Wait(delay, FALSE)
  <2>1. Step(k, Wait(delay, FALSE))
    BY <1>2, <1>4 DEF Decide
  <2> QED
    BY <1>3, <2>1
<1>6. delay \in Nat
  <2>1. rs \in Seq(Results)
    BY DEF GateInv, Typed, Syncs
  <2> QED
    BY <1>4, <2>1, RetryAfterIs
<1> HIDE DEF delay
<1>7. sync'[k].wait = delay
  BY <1>5, <1>6, WaitIs
<1> QED
  BY <1>2, <1>4, <1>7 DEF Decide, delay

\* The prerequisites hold as a whole if each group does.
LEMMA OpenIs ==
  ASSUME Typed, NEW later
  PROVE  Open(later) <=> \A i \in 1..Len(setup.groups) :
                           GroupHolds(setup.groups[i], objs, later)
<1>1. setup.groups \in Seq(Groups)
  BY SetupIs
<1>2. \A p : Holds(p, later) <=> HoldsFor(p, objs[p.on], later)
  BY DEF Holds, HoldsFor, Since
<1>3. ASSUME NEW g \in Groups
      PROVE  (IF g.by = "Any" THEN \E p \in ToSet(g.of) : Holds(p, later)
                              ELSE \A p \in ToSet(g.of) : Holds(p, later))
               <=> GroupHolds(g, objs, later)
  <2>1. g.of \in Seq(Prereqs)
    BY GroupIs
  <2>2. \A p : p \in ToSet(g.of) <=> \E j \in 1..Len(g.of) : p = g.of[j]
    BY <2>1 DEF ToSet
  <2> QED
    BY <1>2, <2>2 DEF GroupHolds
<1>4. \A g : g \in ToSet(setup.groups) <=> \E i \in 1..Len(setup.groups) : g = setup.groups[i]
  BY <1>1 DEF ToSet
<1>5. \A i \in 1..Len(setup.groups) : setup.groups[i] \in Groups
  BY <1>1
<1>6. Open(later) <=> \A i \in 1..Len(setup.groups) :
        LET g == setup.groups[i] IN
        IF g.by = "Any" THEN \E p \in ToSet(g.of) : Holds(p, later)
                        ELSE \A p \in ToSet(g.of) : Holds(p, later)
  BY <1>4 DEF Open
<1> QED
  BY <1>3, <1>5, <1>6

(***************************************************************************)
(* A refusal for want of time alone waits long enough, whatever the        *)
(* prerequisites and however All and Any combine them: each answer that is *)
(* not satisfied is stuck or names a delay after which it holds, a group's *)
(* answer does too, and the delay of the whole is no shorter than any.     *)
(***************************************************************************)
THEOREM WaitedOutCorrect == Spec => WaitedOut
<1> DEFINE Safe == \A k \in Keys :
             sync[k].stage = "checking" /\ sync'[k].stage = "waiting" /\ sync[k].calm
               /\ Open(AgeCap) => Open(sync'[k].wait)
<1>1. GateInv /\ [Next]_vars => [Safe]_vars
  <2> SUFFICES ASSUME GateInv, Next, NEW k \in Keys,
                      sync[k].stage = "checking", sync'[k].stage = "waiting",
                      sync[k].calm, Open(AgeCap)
               PROVE  Open(sync'[k].wait)
    BY DEF Safe
  <2> DEFINE rs == sync[k].results
             gs == setup.groups
             wait == sync'[k].wait
  <2>1. /\ Len(rs) = Len(gs) /\ ~AllSatisfied(rs)
        /\ wait = GetRetryAfter(rs, DefaultRetry)
    BY Refuses DEF Checked
  <2>2. /\ rs \in Seq(Results) /\ gs \in Seq(Groups) /\ objs \in [Deps -> Objects]
        /\ AgeCap \in Nat
    BY SetupIs, DelaysAssumption DEF GateInv, Typed, Syncs
  <2>3. \A i \in 1..Len(rs) : GroupTells(rs[i], gs[i], objs)
    BY DEF GateInv, Sound
  <2>4. wait \in Nat /\ \A i \in 1..Len(rs) : ~rs[i].satisfied => rs[i].retryAfter <= wait
    BY <2>1, <2>2, RetryAfterIs
  <2>5. \A i \in 1..Len(gs) : GroupHolds(gs[i], objs, AgeCap)
    BY OpenIs DEF GateInv
  <2> HIDE DEF rs, gs, wait
  <2>6. ASSUME NEW i \in 1..Len(gs) PROVE GroupHolds(gs[i], objs, wait)
    <3>1. gs[i] \in Groups /\ rs[i] \in Results /\ GroupTells(rs[i], gs[i], objs)
      BY <2>1, <2>2, <2>3
    <3>2. rs[i].retryAfter \in Nat /\ 0 \in Nat /\ 0 <= wait /\ 0 <= AgeCap
      BY <2>2, <2>4, <3>1 DEF Results
    <3>3. CASE rs[i].satisfied
      <4>1. GroupHolds(gs[i], objs, 0)
        BY <3>1, <3>3 DEF GroupTells
      <4> QED
        BY <2>2, <2>4, <3>1, <3>2, <4>1, GroupHoldsLonger
    <3>4. CASE ~rs[i].satisfied
      <4>1. ~GroupStuck(gs[i], objs)
        BY <2>2, <2>5, <3>1, <3>2, GroupHoldsLonger
      <4>2. GroupHolds(gs[i], objs, rs[i].retryAfter)
        BY <3>1, <3>4, <4>1 DEF GroupTells
      <4>3. rs[i].retryAfter <= wait
        BY <2>1, <2>4, <3>4
      <4> QED
        BY <2>2, <2>4, <3>1, <3>2, <4>2, <4>3, GroupHoldsLonger
    <3> QED
      BY <3>3, <3>4
  <2>7. Open(wait)
    BY <2>6, OpenIs DEF GateInv, gs
  <2> QED
    BY <2>7 DEF wait
<1> QED
  BY <1>1, GateInvariance, PTL DEF Spec, WaitedOut

(***************************************************************************)
(* Cleanup spares the entry of a key that waits for its backoff: when the  *)
(* delay was chosen the entry had just been touched, so that what is left  *)
(* of the delay and the entry's age never exceed what Cleanup is given.    *)
(***************************************************************************)
THEOREM BackoffKeptCorrect == Spec => BackoffKept
<1> DEFINE Safe == \A k \in DOMAIN entries \ DOMAIN entries' :
             sync[k].backoff /\ sync[k].wait > 0 => events' # events
<1>1. GateInv /\ [Next]_vars => [Safe]_vars
  <2> SUFFICES ASSUME GateInv, Next, NEW k \in DOMAIN entries, k \notin DOMAIN entries',
                      sync[k].backoff, sync[k].wait > 0, events' = events
               PROVE  FALSE
    BY DEF Safe
  <2>1. k \in Keys /\ events \in Nat /\ entries[k].age \in Nat /\ MaxAge \in Nat
        /\ sync[k].wait \in Nat
    <3>1. k \in Keys /\ sync[k] \in Syncs /\ entries[k] \in [attempts : Nat, age : 0..AgeCap]
          /\ events \in Nat
      BY DEF GateInv, Typed
    <3> QED
      BY <3>1, DelaysAssumption DEF Syncs
  <2>2. entries[k].age <= MaxAge
    <3>1. entries[k].age + sync[k].wait <= MaxAge
      BY <2>1 DEF GateInv, Touched
    <3> QED
      BY <2>1, <3>1
  <2>3. ~Clean
    <3> SUFFICES ASSUME Clean PROVE k \in DOMAIN entries'
      OBVIOUS
    <3>1. entries' = [o \in {x \in DOMAIN entries : entries[x].age <= MaxAge} |-> entries[o]]
      BY DEF Clean, B!Cleanup, B!Restrict
    <3> QED
      BY <2>2, <3>1
  <2>4. \A keys : ~ResetKeys(keys)
    BY <2>1 DEF ResetKeys, Event
  <2>5. entries' # entries
    OBVIOUS
  <2>6. \A o \in Keys : entries' # B!RecordSuccess(entries, o)
                          /\ entries' # B!RecordFailure(entries, o)
    BY DEF B!RecordSuccess, B!RecordFailure
  <2>7. ~Tick /\ ~MaxElapsedTimePasses
    BY DEF Tick, MaxElapsedTimePasses
  <2>8. \A o \in Keys :
          /\ ~Start(o) /\ ~CheckNext(o) /\ ~Requeue(o) /\ ~Trigger(o) /\ ~CheckFails(o)
          /\ ~Decide(o) /\ ~Succeed(o) /\ \A errs : ~Fail(o, errs)
    <3> TAKE o \in Keys
    <3>1. ~Start(o) /\ ~CheckNext(o) /\ ~Requeue(o) /\ ~Trigger(o) /\ ~CheckFails(o)
      BY <2>5 DEF Start, CheckNext, Requeue, Trigger, CheckFails
    <3>2. ~Decide(o) /\ ~Succeed(o) /\ \A errs : ~Fail(o, errs)
      BY <2>5, <2>6 DEF Decide, Succeed, Fail
    <3> QED
      BY <3>1, <3>2
  <2>9. \A d \in Deps : \A obj : ~Becomes(d, obj)
    BY <2>5 DEF Becomes
  <2>10. \A d \in Deps :
           /\ \A t : ~Withdraw(d, t) /\ \A s : ~SetCondition(d, t, s)
           /\ ~DeleteOrCreate(d) /\ \A keys : ~Edit(d, keys)
    BY <2>9 DEF Withdraw, SetCondition, DeleteOrCreate, Edit
  <2> QED
    BY <2>3, <2>4, <2>7, <2>8, <2>10 DEF Next, Work
<1> QED
  BY <1>1, GateInvariance, PTL DEF Spec, BackoffKept

(***************************************************************************)
(* An object is given up only for errors that are permanent together,      *)
(* however many Sync returned and whatever they wrap: the class of the     *)
(* combined error is that of one of them, and the list's is no milder.     *)
(***************************************************************************)
THEOREM StopsOnPurposeCorrect == Spec => StopsOnPurpose
<1> DEFINE Safe == \A k \in Keys :
             sync[k].stage # "stopped" /\ sync'[k].stage = "stopped" =>
               E!Classification(sync[k].errs) \in {"Permanent", "Terminal"}
<1>1. GateInv /\ [Next]_vars => [Safe]_vars
  <2> SUFFICES ASSUME GateInv, Next, NEW k \in Keys,
                      sync[k].stage # "stopped", sync'[k].stage = "stopped"
               PROVE  E!Classification(sync[k].errs) \in {"Permanent", "Terminal"}
    BY DEF Safe
  <2> DEFINE errs == sync[k].errs
             done == [NotYet EXCEPT !.stage = "done"]
             work == [NotYet EXCEPT !.stage = "working"]
             check == [NotYet EXCEPT !.stage = "checking", !.calm = TRUE]
  <2>1. \A s : Step(k, s) => sync'[k] = s
    BY DEF Step, GateInv, Typed
  <2>2. /\ done.stage = "done" /\ work.stage = "working" /\ check.stage = "checking"
        /\ NotYet.stage = "waiting"
        /\ \A n, b : Wait(n, b).stage = "waiting"
        /\ \A e : [NotYet EXCEPT !.stage = "failed", !.errs = e].stage = "failed"
    BY DEF NotYet, Wait
  <2>3. ~CheckNext(k) /\ ~CheckFails(k)
    BY ChecksStay
  <2>4. ~Start(k) /\ ~Trigger(k) /\ ~Succeed(k) /\ \A e : ~Fail(k, e)
    BY <2>1, <2>2 DEF Start, Trigger, Succeed, Fail
  <2>5. ~Decide(k)
    <3> SUFFICES ASSUME Decide(k) PROVE FALSE
      OBVIOUS
    <3>1. PICK n : Step(k, work) \/ Step(k, Wait(n, FALSE))
      BY DEF Decide
    <3>2. work.stage = "working" /\ Wait(n, FALSE).stage = "waiting"
      BY DEF NotYet, Wait
    <3> HIDE DEF work
    <3>3. sync'[k] = work \/ sync'[k] = Wait(n, FALSE)
      BY <2>1, <3>1
    <3> QED
      BY <3>2, <3>3
  <2>6. Requeue(k)
    BY <2>3, <2>4, <2>5, Moves DEF Work
  <2>7. E!IsPermanent(E!ListError(errs))
    <3> DEFINE hint == E!GetRetryAfter(E!ListError(errs))
    <3> SUFFICES ASSUME ~E!IsPermanent(E!ListError(errs)) PROVE FALSE
      OBVIOUS
    <3>1. PICK delay \in B!GetBackoff(entries, k, setup.strategy, elapsed) :
            Step(k, IF hint > 0 THEN Wait(hint, FALSE)
                    ELSE IF delay > 0 THEN Wait(delay, TRUE)
                    ELSE Wait(RateLimit, FALSE))
      BY <2>6 DEF Requeue
    <3> HIDE DEF hint
    <3>2. \E n, b : Step(k, Wait(n, b))
      BY <3>1
    <3> QED
      BY <2>1, <2>2, <3>2
  <2>8. errs \in Seq(E!Errors) /\ errs # <<>>
    <3>1. errs \in Failures
      BY <2>6 DEF Requeue, GateInv, Sound
    <3> QED
      BY <3>1, FailuresAssumption
  <2> HIDE DEF errs
  <2>9. \E q \in 1..Len(errs) : E!ClassifyError(errs[q]) \in {"Permanent", "Terminal"}
    BY <2>7, <2>8, PermanentInList
  <2>10. E!Classification(errs) \in {"Permanent", "Terminal"}
    BY <2>8, <2>9, ClassificationIs
  <2> QED
    BY <2>10 DEF errs
<1> QED
  BY <1>1, GateInvariance, PTL DEF Spec, StopsOnPurpose
=============================================================================
