------------------------------ MODULE InferenceMC ------------------------------
(***************************************************************************)
(* An instance of Inference for TLC.                                       *)
(***************************************************************************)
EXTENDS Inference

\* The engine's timer and the loop's: each absent, and the engine's earlier than,
\* equal to (as main.py builds them) and later than the loop's.
MCTimers == {<<0, 0>>, <<0, 1>>, <<2, 0>>, <<1, 2>>, <<2, 2>>, <<2, 1>>}

MCSettings ==
  {s \in [enabled : BOOLEAN, engineTimer : 0 .. 2, loopTimer : 0 .. 2, tools : BOOLEAN] :
     <<s.engineTimer, s.loopTimer>> \in MCTimers}

=============================================================================
