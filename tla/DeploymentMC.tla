---------------------------- MODULE DeploymentMC ----------------------------
(***************************************************************************)
(* Instances of Deployment for TLC.                                        *)
(***************************************************************************)
EXTENDS Deployment

CONSTANTS neutral, cruise, turn, rules

MCCommands == {neutral, cruise, turn}

Nominal == [ingress |-> FALSE, depth |-> 5, battery |-> 12, temp |-> 30,
            pressure |-> 2, obstacle |-> Absent]

OnlyNominal == {Nominal}

=============================================================================
