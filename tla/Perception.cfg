CONSTANTS
  Values = {0, 1, 2, 3}
  NotANumber = NotANumber
  Infinite = Infinite
  Absent = Absent
  Observations <- MCObservations
  Limits <- MCLimits
  Tolerance = 1
  FrozenAfter = 3
  NavStart = 2
  NavGain = 2
  NavLoss = 1
  NavLeast = 0
  NavMost = 3
  NavUsable = 2
SPECIFICATION FairSpec
INVARIANTS
  TypeOK
  FrozenIsReported
  IngressSurfaces
PROPERTIES
  GlitchLeavesNoTrace
  NavigationRecovers
