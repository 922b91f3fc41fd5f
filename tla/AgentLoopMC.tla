----------------------------- MODULE AgentLoopMC -----------------------------
(***************************************************************************)
(* Instances of AgentLoop for TLC: one engine command, one operator        *)
(* command, and an observation of each kind the safety monitor tells apart *)
(* (nominal, over a limit that forces SAFE, obstacle too close).           *)
(***************************************************************************)
EXTENDS AgentLoop

CONSTANTS neutral, cruise, turn, rules

MCCommands == {neutral, cruise, turn}
OneCommand == {neutral, cruise}

Nominal  == [ingress |-> FALSE, depth |-> 5, battery |-> 12, temp |-> 30,
             pressure |-> 2, obstacle |-> Absent]
TooDeep  == [Nominal EXCEPT !.depth = 21]
Obstacle == [Nominal EXCEPT !.obstacle = 0]

MCObservations    == {Nominal, TooDeep, Obstacle}
OnlyNominal       == {Nominal}

MCPackages  == {{}, {"compute_state"}, CommittedUnresolved}

=============================================================================
