----------------------------- MODULE StateStore -----------------------------
(***************************************************************************)
(* The in-process vehicle state (state.py): the control mode, the last     *)
(* observation, the last command with the engine that produced it, and the *)
(* age of that command, against which the dead-man's switch is checked.    *)
(* No operation awaits while it holds the asyncio.Lock, so each of them is *)
(* one atomic step.                                                        *)
(***************************************************************************)
EXTENDS Integers

CONSTANTS
  Commands,      \* vehicle commands the code can produce or receive
  Neutral,       \* the command VehicleCommand() builds: no thrust, experiment off
  Observations,  \* sensor observations
  Sources,       \* decision sources an engine can report
  NoValue,       \* Python's None
  Deadman        \* settings.manual_deadman_s in clock units; 0 disables the switch

Modes == {"AUTONOMOUS", "MANUAL", "SAFE"}

ASSUME StateStoreAssumption ==
  /\ Neutral \in Commands
  /\ NoValue \notin Commands \cup Observations \cup Sources
  /\ Deadman \in Nat

VARIABLES
  mode,      \* _state.mode
  lastObs,   \* _state.last_observation
  lastCmd,   \* _state.last_command
  source,    \* _state.last_decision_source
  idle       \* now - _last_manual_command_ts, saturating just above Deadman

storeVars == <<mode, lastObs, lastCmd, source, idle>>

StoreTypeOK ==
  /\ mode \in Modes
  /\ lastObs \in Observations \cup {NoValue}
  /\ lastCmd \in Commands \cup {NoValue}
  /\ source \in Sources \cup {NoValue}
  /\ idle \in 0 .. Deadman + 1

StoreInit ==
  /\ mode = "AUTONOMOUS"
  /\ lastObs = NoValue
  /\ lastCmd = NoValue
  /\ source = NoValue
  /\ idle = 0

\* Every command restarts the idle clock, whoever it came from.
UpdateCommand(c, s) ==
  /\ lastCmd' = c
  /\ source' = s
  /\ idle' = 0

DeadmanExpired ==
  /\ Deadman > 0
  /\ mode = "MANUAL"
  /\ idle > Deadman

\* Ages are only ever compared with Deadman, when the switch is enabled, so they
\* saturate above it and stand still when it is not.
Older(age) == IF Deadman = 0 \/ age > Deadman THEN age ELSE age + 1

=============================================================================
