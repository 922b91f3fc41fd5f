------------------------------- MODULE AutonomyMC -------------------------------
(***************************************************************************)
(* An instance of Autonomy for TLC.                                        *)
(***************************************************************************)
EXTENDS Autonomy

\* Lost, known but not trusted, and trusted; shallow and near the depth limit; no
\* energy for any route, too little for the long one, low, and ample.
MCWorlds ==
  [nav : {25, 50, 90}, x : {0}, depth : {0, 48}, maxDepth : {50},
   soc : {10, 14, 22, 80}, critical : BOOLEAN]

\* 50 m ahead and down, then up and on: the second leg is longer.
MCRoute == <<[x |-> 30, depth |-> 40], [x |-> 120, depth |-> 0]>>

\* Inside the clearance and between it and the avoidance range, a sure and a
\* doubtful one each.
MCDetections == [distance : {50, 200}, confidence : {100, 50}]

MCCommands ==
  [surge : {-100, 3, 50}, sway : {0, 50}, heave : {-50, 0, 3, 50}, yaw : {0, 100}]

=============================================================================
