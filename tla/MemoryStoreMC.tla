----------------------------- MODULE MemoryStoreMC -----------------------------
(***************************************************************************)
(* An instance of MemoryStore for TLC.                                     *)
(***************************************************************************)
EXTENDS MemoryStore, TLC

CONSTANTS m1, m2, m3

MCSymmetry == Permutations({m1, m2, m3})

MCNotes == {<<>>, <<"dvl">>}

\* A fault whose action spells the names that lookup_similar looks for.
MCActions == {<<>>, <<"dvl", "dvl", "dvl">>}

=============================================================================
