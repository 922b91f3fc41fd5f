------------------------------ MODULE SimulationMC ------------------------------
(***************************************************************************)
(* An instance of Simulation for TLC.                                      *)
(***************************************************************************)
EXTENDS Simulation

\* 9 V is where the drain stops; 10.5 V is critical and 11 V low.
MCLevels == {900, 1050, 1100, 1240}

\* The surface and 3 m, less than the bias injected and more than any error.
MCDepths == {0, 300}

\* None and one deviation of the depth.
MCDepthErrors == {0, -2}

\* A voltage 0.03 V too high lifts 10.5 V over from_observation's threshold.
MCBatteryErrors == {0, 3}

=============================================================================
