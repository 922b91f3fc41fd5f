-------------------------------- MODULE AccessMC --------------------------------
(***************************************************************************)
(* An instance of Access for TLC: an operator's key that expires and an    *)
(* administrator's that cannot send commands.                              *)
(***************************************************************************)
EXTENDS Access, TLC

CONSTANTS operator, admin, r1, r2

MCScopes == operator :> {"read", "write"} @@ admin :> {"admin"}

MCSymmetry == Permutations({r1, r2})

=============================================================================
