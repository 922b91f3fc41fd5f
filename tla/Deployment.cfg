CONSTANTS
  neutral = neutral
  cruise = cruise
  turn = turn
  rules = rules
  NoValue = NoValue
  NotANumber = NotANumber
  Absent = Absent
  Commands <- MCCommands
  Neutral = neutral
  EngineCommands = {cruise}
  OperatorCommands = {turn}
  Observations <- OnlyNominal
  Sources = {rules}
  Deadman = 0
  Timed <- Operations
  Slots = {1}
  Packages = {{}}
  MaxDepth = 20
  MinBattery = 11
  MaxTemp = 75
  MaxPressure = 5
  EmergencyObstacle = 1
SPECIFICATION DeploymentFairSpec
CHECK_DEADLOCK FALSE
INVARIANT DueCommandKept
PROPERTIES
  StopEndsRun
  EveryTickEnds
  SafeSettles
