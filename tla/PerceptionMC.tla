----------------------------- MODULE PerceptionMC -----------------------------
(***************************************************************************)
(* Instances of Perception for TLC.                                        *)
(***************************************************************************)
EXTENDS Perception

\* Every pair of readings, an implausible pressure being NaN only, and ingress with a
\* sound and with an implausible depth.
MCObservations ==
       [depth : Readings, pressure : {0, 1, 2, NotANumber, Absent}, ingress : {FALSE}]
  \cup [depth : {1, 3}, pressure : {1, Absent}, ingress : {TRUE}]

\* Of the readings 0 .. 3 the last is out of range, and a move by two is a spike.
MCLimits == [c \in Channels |-> [lo |-> 0, hi |-> 2, step |-> 1]]

=============================================================================
