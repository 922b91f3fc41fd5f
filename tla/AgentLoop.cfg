CONSTANTS
  neutral = neutral
  cruise = cruise
  turn = turn
  rules = rules
  NoValue = NoValue
  NotANumber = NotANumber
  Absent = Absent
  Commands <- OneCommand
  Neutral = neutral
  EngineCommands = {cruise}
  OperatorCommands = {cruise}
  Observations <- MCObservations
  Sources = {rules}
  Deadman = 1
  Timed = {}
  Slots = {1}
  Packages <- MCPackages
  MaxDepth = 20
  MinBattery = 11
  MaxTemp = 75
  MaxPressure = 5
  EmergencyObstacle = 1
SPECIFICATION Spec
CHECK_DEADLOCK FALSE
INVARIANTS
  TypeOK
  AtMostOneStaleCommand
  FaultForcesSafe
  ActuatorsMatchTick
  ThrustersNeutralAtExit
PROPERTIES
  RefinesModeAuthority
