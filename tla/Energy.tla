-------------------------------- MODULE Energy --------------------------------
(***************************************************************************)
(* EnergyState and EnergyPlanner (planning/energy.py).  The pack has its   *)
(* default capacity of 100 Wh, so a hundredth of the charge is a Wh.  An   *)
(* energy state counts both in a unit of its own, so many to the           *)
(* hundredth, in which it is exact.  Voltages are in hundredths of a volt. *)
(***************************************************************************)
EXTENDS Integers

Within(n, high) == IF n < 0 THEN 0 ELSE IF n > high THEN high ELSE n

\* An energy state: the charge and the two costs, which nothing in the program
\* sets away from their defaults.
EnergyIn(unit, soc) ==
  [unit |-> unit, soc |-> soc, missionCost |-> 0, returnCost |-> 5 * unit]
EnergyOf(soc) == EnergyIn(1, soc)

\* EnergyState.from_observation, over 10.0 to 12.6 V, and the formula agent_loop
\* uses instead, over 10.5 to 12.6 V.
FromObservation(v) == EnergyIn(13, Within((v - 1000) * 5, 1300))
InLoop(v)          == EnergyIn(21, Within((v - 1050) * 10, 2100))

Reserve(e)   == 10 * e.unit
Available(e) == IF e.soc > Reserve(e) THEN e.soc - Reserve(e) ELSE 0
Margin(e)    == Available(e) - e.missionCost - e.returnCost
CanReturn(e) == Available(e) >= e.returnCost

\* EnergyPlanner.decide, in its order of priority.
DecideUnordered(e) ==
  CASE Margin(e) < 0           -> "abort"
    [] e.soc <= 10 * e.unit    -> "surface"
    [] ~ CanReturn(e)          -> "surface"
    [] e.soc <= 20 * e.unit    -> "return"
    [] Margin(e) < 5 * e.unit  -> "replan"
    [] OTHER                   -> "continue"
DecideEnergy(e) ==
  IF e.soc <= 10 * e.unit \/ ~ CanReturn(e) THEN "surface"
  ELSE IF e.soc <= 20 * e.unit THEN "return"
  ELSE IF Margin(e) < 0 THEN "abort"
  ELSE IF Margin(e) < 5 * e.unit THEN "replan"
  ELSE "continue"

=============================================================================
