SPECIFICATION FairSpec
CONSTANTS
  Names = {"db"}
  Probes = {"p1", "p2"}
  Runs = {1, 2, 3}
  Kinds = {"threshold", "composite", "broken"}
  MaxEvents = 1
INVARIANTS TypeOK VerdictsAgree
PROPERTIES CallsReturn GoroutinesEnd BadNewsTravels
