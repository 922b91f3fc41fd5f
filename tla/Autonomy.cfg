CONSTANTS
  Worlds <- MCWorlds
  Route <- MCRoute
  Detections <- MCDetections
  Commands <- MCCommands
  Ttl = 3
  MaxObstacles = 2
SPECIFICATION Spec
INVARIANTS
  ObstacleMissedOnlyIfMasked
  ShieldSettles
  PlanIsRanked
PROPERTY PlanFailsOnlyOnExpiry
