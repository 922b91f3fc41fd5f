CONSTANTS
  neutral = neutral
  cruise = cruise
  turn = turn
  rules = rules
  NoValue = NoValue
  NotANumber = NotANumber
  Absent = Absent
  Commands <- MCCommands
  Neutral = neutral
  EngineCommands = {cruise}
  OperatorCommands = {turn}
  Observations <- OnlyNominal
  Sources = {rules}
  Deadman = 1
  Timed = {}
  Slots = {}
  Packages = {{}}
  MaxDepth = 20
  MinBattery = 11
  MaxTemp = 75
  MaxPressure = 5
  EmergencyObstacle = 1
SPECIFICATION Spec
CHECK_DEADLOCK FALSE
PROPERTY DeadmanWatchesOperator
