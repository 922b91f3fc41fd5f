---------------------------- MODULE ModeAuthority ----------------------------
(***************************************************************************)
(* What the agent loop promises about the control mode, without saying how *)
(* a tick is carried out: whoever drives the vehicle takes its authority   *)
(* from the mode once per turn and issues at most one command on it; SAFE  *)
(* authorises the neutral command only; the vehicle itself can enter SAFE  *)
(* at any time, and only the operator can leave it.                        *)
(***************************************************************************)
CONSTANTS
  Commands,  \* what may be issued
  Neutral    \* the member of Commands that moves nothing

Modes == {"AUTONOMOUS", "MANUAL", "SAFE"}

VARIABLES
  mode,       \* the control mode
  authority,  \* the mode the current turn acts on, or "none"
  issued      \* the command being applied, Neutral when there is none

vars == <<mode, authority, issued>>

Init ==
  /\ mode = "AUTONOMOUS"
  /\ authority = "none"
  /\ issued = Neutral

OperatorSets(m) ==
  /\ mode' = m
  /\ UNCHANGED <<authority, issued>>

ForceSafe ==
  /\ mode' = "SAFE"
  /\ issued' \in {issued, Neutral}
  /\ UNCHANGED authority

Grant ==
  /\ authority = "none"
  /\ issued = Neutral
  /\ authority' = mode
  /\ UNCHANGED <<mode, issued>>

Issue(c) ==
  /\ authority # "none"
  /\ authority = "SAFE" => c = Neutral
  /\ issued' = c
  /\ authority' = "none"
  /\ mode' \in {mode, "SAFE"}

\* The command has been applied, or its application failed.
Finish ==
  /\ issued' = Neutral
  /\ UNCHANGED <<mode, authority>>

\* The turn is given up before it issued anything.
Abandon ==
  /\ authority' = "none"
  /\ UNCHANGED <<mode, issued>>

Next ==
  \/ \E m \in Modes : OperatorSets(m)
  \/ \E c \in Commands : Issue(c)
  \/ ForceSafe \/ Grant \/ Finish \/ Abandon

Spec == Init /\ [][Next]_vars

=============================================================================
