CONSTANTS
  Threads = {t1, t2, t3}
  Cost = 2
  Burst = 4
  MaxTime = 5
SYMMETRY ThreadSymmetry
SPECIFICATION Spec
INVARIANTS
  TypeOK
  WithinQuota
