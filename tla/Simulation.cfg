CONSTANTS
  Staleness = 2
  FullAfter = 2
  MaxHistory = 2
  Depths <- MCDepths
  Levels <- MCLevels
  DepthErrors <- MCDepthErrors
  BatteryErrors <- MCBatteryErrors
  NoValue = None
  Motors = {m0}
  MaxExtra = 1
SPECIFICATION SimulationSpec
INVARIANTS
  ClearRestoresReadings
  CriticalBatteryReturns
PROPERTY EstimateNotOverrated
