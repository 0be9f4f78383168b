SPECIFICATION Spec
CONSTANTS
  c1 = c1
  c2 = c2
  c3 = c3
  s1 = s1
  s2 = s2
  n1 = n1
  n2 = n2
  Callers = {c1, c2, c3}
  Sweepers = {s1, s2}
  Names = {n1, n2}
  MaxBreakers = 4
SYMMETRY ActorSymmetry
INVARIANTS TypeOK NeverForked ResetReachesAll
