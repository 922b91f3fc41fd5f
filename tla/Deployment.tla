----------------------------- MODULE Deployment -----------------------------
(***************************************************************************)
(* The agent process beside the API's handlers, in the two ways the        *)
(* repository speaks of.  README.md starts auv-api in one terminal and     *)
(* auv-agent in another: each imports state.py and so has a StateStore of  *)
(* its own, and nothing else connects them.  state.py and the handlers are *)
(* written for one store that both share.                                  *)
(***************************************************************************)
EXTENDS AgentLoop

VARIABLES
  split,    \* the API is a process of its own; never changes
  apiMode,  \* STATE._state.mode of that process
  apiCmd,   \* STATE._state.last_command of that process
  due       \* history: the operator's command that no tick in progress can
            \* overwrite, as long as MANUAL lasts

apiVars == <<split, apiMode, apiCmd>>
allVars == <<vars, apiVars, due>>

DeploymentInit ==
  /\ Init
  /\ split \in BOOLEAN
  /\ apiMode = "AUTONOMOUS"
  /\ apiCmd = NoValue
  /\ due = NoValue

ApiSetMode(m) ==
  /\ split
  /\ apiMode' = m
  /\ UNCHANGED <<vars, split, apiCmd, due>>

ApiCommand(c) ==
  /\ split
  /\ apiCmd' = c
  /\ UNCHANGED <<vars, split, apiMode, due>>

\* What is due lasts as long as MANUAL does.
WhileManual == due' = IF mode' = "MANUAL" THEN due ELSE NoValue

SharedSetMode(m) ==
  /\ ~ split
  /\ OperatorSetMode(m)
  /\ WhileManual
  /\ UNCHANGED apiVars

\* A tick writes its command between its snapshot and its apply calls.
SharedCommand(c) ==
  /\ ~ split
  /\ OperatorCommand(c)
  /\ due' = IF mode = "MANUAL" /\ ~ Deciding THEN c ELSE NoValue
  /\ UNCHANGED apiVars

\* A step of the agent process by itself, and all of them.
Alone(Step) ==
  /\ Step
  /\ WhileManual
  /\ UNCHANGED apiVars

AgentStep ==
  \/ Alone(Tick)
  \/ Alone(Shutdown)
  \/ \E o \in orphans : Alone(OrphanLands(o)) \/ Alone(OrphanEnds(o))
  \/ Alone(Signal)
  \/ Alone(Clock)

Handlers ==
  \/ \E m \in Modes : ApiSetMode(m) \/ SharedSetMode(m)
  \/ \E c \in OperatorCommands : ApiCommand(c) \/ SharedCommand(c)

DeploymentNext == AgentStep \/ Handlers

DeploymentSpec == DeploymentInit /\ [][DeploymentNext]_allVars

(***************************************************************************)
(* Fairness.  The agent's event loop runs whatever is ready, and owes      *)
(* nothing to the handlers.  An operation that awaits a device or a model  *)
(* ends for certain only when it is timed; the final apply, which never    *)
(* is, ends because the bundled adapters do not await in it.               *)
(***************************************************************************)
DeploymentFairSpec ==
  /\ DeploymentSpec
  /\ WF_allVars(Alone(Boot \/ BeginTick \/ Wake))
  /\ WF_allVars(Alone(\E s \in Sources : Dispatch(s)))
  /\ WF_allVars(Alone(Shutdown))
  /\ \A x \in Timed : WF_allVars(Alone(TimerFires(x)))

-----------------------------------------------------------------------------
(***************************************************************************)
(* Properties                                                              *)
(***************************************************************************)

\* routes.py:109: a command that the operator posts in MANUAL while no tick is
\* between its snapshot and its write is the one in the store, and so the one each
\* later tick applies, until he posts another or MANUAL ends.  (One posted while a
\* tick is there is overwritten by the tick.)
DueCommandKept == due # NoValue => lastCmd = due

\* Its inductive strengthening: a tick that could overwrite the command carries it.
DueInv ==
  due # NoValue =>
    /\ mode = "MANUAL" /\ lastCmd = due
    /\ pc # "decide"
    /\ pc = "read" => snapMode = "MANUAL" /\ snapCmd = due
    /\ pc = "dispatch" => cmd = due

=============================================================================
