----------------------------- MODULE ActionShield -----------------------------
(***************************************************************************)
(* ActionShield.evaluate (safety/shield.py): the checks of a candidate     *)
(* command against a world state, in their order.  Each check that finds   *)
(* something returns at once, so those after it are not made.              *)
(*                                                                         *)
(* Thrusts, confidences and charges are in hundredths, depths in metres,   *)
(* obstacle distances in centimetres.  A sighting is the nearest obstacle  *)
(* as the world reports it: its distance and its effective confidence.     *)
(***************************************************************************)
EXTENDS Integers

Abs(n) == IF n < 0 THEN - n ELSE n

NoSighting == [distance |-> 0, confidence |-> -1]

MinNavConfidence == 30
MinClearance     == 60
LowEnergy        == 20
MaxLowThrust     == 40

Neutral == [surge |-> 0, sway |-> 0, heave |-> 0, yaw |-> 0]

IsMoving(c) == Abs(c.surge) > 5 \/ Abs(c.sway) > 5 \/ Abs(c.heave) > 5

Lost(world) == world.nav < MinNavConfidence

Blocked(near) == near.confidence > 40 /\ near.distance < MinClearance

\* depth >= 0.95 max_depth and a descent.
TooDeep(c, world) == c.heave > 0 /\ 100 * world.depth >= 95 * world.maxDepth

TooStrong(c, world) ==
  /\ world.soc < LowEnergy
  /\ Abs(c.surge) > MaxLowThrust \/ Abs(c.sway) > MaxLowThrust

Clamp(n) ==
  IF n > MaxLowThrust THEN MaxLowThrust
  ELSE IF n < - MaxLowThrust THEN - MaxLowThrust
  ELSE n

Verdict(v, c) == [verdict |-> v, command |-> c]

EvaluateLeavesHeave(c, world, near) ==
  IF Lost(world) \/ Blocked(near) THEN Verdict("reject", c)
  ELSE IF TooDeep(c, world) THEN Verdict("modify", c)
  ELSE IF TooStrong(c, world)
    THEN Verdict("modify", [c EXCEPT !.surge = Clamp(@), !.sway = Clamp(@)])
  ELSE IF world.critical /\ IsMoving(c) THEN Verdict("reject", c)
  ELSE Verdict("approve", c)
Evaluate(c, world, near) ==
  IF Lost(world) \/ Blocked(near) THEN Verdict("reject", c)
  ELSE IF TooDeep(c, world) THEN Verdict("modify", [c EXCEPT !.heave = 0])
  ELSE IF TooStrong(c, world)
    THEN Verdict("modify", [c EXCEPT !.surge = Clamp(@), !.sway = Clamp(@)])
  ELSE IF world.critical /\ IsMoving(c) THEN Verdict("reject", c)
  ELSE Verdict("approve", c)

Allowed(decision) == decision.verdict # "reject"

=============================================================================
