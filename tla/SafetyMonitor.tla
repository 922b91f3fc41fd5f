---------------------------- MODULE SafetyMonitor ----------------------------
(***************************************************************************)
(* SafetyMonitor.enforce (safety/monitor.py): hard limits on the raw       *)
(* observation, checked in a fixed order, the first match deciding.  A     *)
(* reading is an integer, NotANumber (every comparison with it is false)   *)
(* or Absent (an optional field that is None).                             *)
(***************************************************************************)
EXTENDS Integers

CONSTANTS
  MaxDepth, MinBattery, MaxTemp, MaxPressure, EmergencyObstacle,
  NotANumber, Absent

Above(reading, limit) == reading \notin {NotANumber, Absent} /\ reading > limit
Below(reading, limit) == reading \notin {NotANumber, Absent} /\ reading < limit

\* The limits that force SAFE, in the order enforce() checks them.
Limits(o) ==
  << [reason |-> "ingress",  hit |-> o.ingress = TRUE],
     [reason |-> "depth",    hit |-> Above(o.depth, MaxDepth)],
     [reason |-> "battery",  hit |-> Below(o.battery, MinBattery)],
     [reason |-> "temp",     hit |-> Above(o.temp, MaxTemp)],
     [reason |-> "pressure", hit |-> Above(o.pressure, MaxPressure)] >>

LimitBreached(o) == \E i \in 1 .. 5 : Limits(o)[i].hit

FirstBreach(o) ==
  CHOOSE i \in 1 .. 5 : Limits(o)[i].hit /\ \A j \in 1 .. i - 1 : ~ Limits(o)[j].hit

ObstacleClose(o) == Below(o.obstacle, EmergencyObstacle)

\* (override_mode, safe_cmd) and the reason put in the command's note.
Enforce(o, c, neutral) ==
  IF LimitBreached(o)
  THEN [mode |-> "SAFE", cmd |-> neutral, reason |-> Limits(o)[FirstBreach(o)].reason]
  ELSE IF ObstacleClose(o)
  THEN [mode |-> "none", cmd |-> neutral, reason |-> "obstacle"]
  ELSE [mode |-> "none", cmd |-> c, reason |-> "none"]

=============================================================================
